# grunt: a verification project in TLA+

grunt is a small chat server in Go (`server/`), with a client library
(`client/`), a command line (`cmd/grunt/`), a client for Deno (`deno-client/`)
and a web page that runs on htmx and its SSE extension (`server/static/`). This
directory holds TLA+ modules that model its core, on both ends of the wire, TLC
configurations that check them on small instances, and proofs, checked by TLAPS,
of what matters most.

## 1. Inventory

| Part | State it keeps | Operations | Interacts with |
|---|---|---|---|
| Hub (`server/hub.go`) | map of subscribers, channels `broadcast` (256), `register`, `unregister`, `stop`, last rendered message | `Run`, `broadcastEvent`, `BroadcastMessage`, `Stop` | pumps through channels, `SendMessage` through `broadcast` |
| Subscriber pump (`hub.go`) | channel `send` (256), request context | `HandleSSEStream`, `writePump` | registers and unregisters with the hub, writes to the response |
| Send path (`impl.go`, `SendMessage`) | none of its own | save, broadcast, reply | store, hub |
| Store (`storage/sqlite.go`) | tables users, invites, messages, api_keys | one method per query; `RegisterWithInvite` is a transaction | everything |
| Registration (`impl.go`, `html.go`) | none of its own | register by API or page, first-admin grant, invites, admin-created users | store, token store |
| Sessions and API keys (`auth.go`, `hub.go`, `impl.go`) | token map in memory, api_keys table | log in, validate, expire, create and revoke keys | every handler, through the request context |
| Pages (`html.go`) | none | index, login, settings, static files | store, hub's templates |
| Server (`server.go`) | the process | cold start, routes, shutdown | hub, store |
| Client library (`client.go`) | two flags, three channels, the stream response | connect, listen, stop, close, read pump; stateless requests | the server's API |
| Command line (`cmd/grunt`), Deno client (`deno-client/send.ts`) | a token while they run | serve, send, recv, repl; register, log in, post | server, client library |
| htmx in the page: requests (`static/htmx.js`) | per sync element a request in flight and a queue; an indicator's counter | issue, abort, queue, answer, error | the server's pages; the form of `templates/chat.html` |
| htmx in the page: content (`static/htmx.js`) | internal data, listeners and timers of each element, swaps to settle | swap, settle, process, clean up, triggers | requests, SSE extension |
| SSE extension (`static/ext/sse.js`) | an EventSource per `sse-connect`, listeners on it, retry timers | process, register, `onopen`, `onerror`, messages, close | the hub's stream, htmx's swaps |
| Emotes (`emotes.go`) | emote map, file watcher | scan, watch, reload, replace | pages, hub rendering |
| Avatars (`image.go`) | none | decode, crop, scale | store |
| `openapi.gen.go`, the rest of htmx | - | generated or unused here | - |

Where it is hard:

- **Concurrency.** One loop, two goroutines' worth of work per connection and one
  per request, talking over bounded and unbounded channels; the client library
  adds callers racing its own pump.
- **Re-entrance.** The page has one thread, but a request that is aborted ends, and
  issues the next one, in the middle of issuing another; content is replaced
  between a swap and its settling; timers fire for elements that are gone.
- **Bounded buffers.** Every one of them can be full: some sends must drop,
  some must block, and none may hang the loop.
- **Transactions.** Registration is four statements under SQLite's locks, and
  two more statements after the commit that are not in the transaction.
- **Failure.** The process can die between any two statements; statements fail;
  replies are lost and programs run again; connections drop; clients vanish or stop
  reading.
- **Order.** The order of ids, of broadcasts and of what a page shows come from
  three different places.

What makes each part correct: a stream is what was broadcast since it began,
less what its own full buffer cost it, in one order for everybody; an
acknowledged message is broadcast exactly once; the loop never stops for a slow
client; a departed client leaves nothing behind; an invite makes one user and a
user needs one invite, however often a client tries; only the first user becomes
admin by registering; a client session ends without a panic and its listener
learns of it; a request is served as the owner of a credential that was valid when
it came; history and stream together show a reader everything it asked for; a page
posts a message once, keeps one stream, gets it back when it fails and shows each
message once; what is in the page works and what is gone is quiet.
`PROJECT.json` lists the hazards behind these, at their lines.

## 2. Modules

| Module | Models | Composes |
|---|---|---|
| `Hub`, `MCHub` | hub, pumps, send path | implements `Topic` |
| `Topic` | the abstract publish/subscribe topic | - |
| `HubProofs` | safety, the refinement, and what streams contain | - |
| `Delivery`, `MCDelivery`, `DeliveryProofs` | stored history and live stream, as a page and as `grunt recv` put them together | `Hub` |
| `Registration`, `MCRegistration` | registration, invites, cold start, crash and restart | - |
| `Send`, `MCSend` | a client program run again with the same flags | `Registration` |
| `RegistrationProofs` | registration and the reruns | - |
| `Sessions`, `MCSessions`, `SessionsProofs` | tokens, API keys, passwords and the requests that rely on them | - |
| `Client`, `MCClient`, `ClientProofs` | streaming side of the client library | - |
| `SSE`, `MCSSE`, `SSEProofs` | the page's end of the stream | - |
| `Requests`, `MCRequests`, `RequestsProofs` | how the page issues requests, with the chat form | - |
| `Nodes`, `MCNodes`, `NodesProofs` | swaps, settling, initialisation and triggers in the page | - |

Each module is parameterised by CONSTANTS with named assumptions, has one action
per step of the code and keeps its properties after its specification. The
definitions whose name has a suffix (`RunRemove_Silent`, ...) are mutated forms,
bugs the code could have: `Next` does not use them, and each property is violated
when the one paired with it in `PROJECT.json` replaces the real definition.

### Hub and Topic

`run` is the program counter of `Hub.Run`: `select`, then `joined` (between the
map insert and `broadcastEvent`), `removing` and `left` (the two halves of the
unregister case), `deliver` (the fan-out, `todo` being the subscribers not yet
reached), `stopped`. `pump[s]` is that of a connection's handler goroutine:
`registering` (blocked on `h.register <-`), `select`, `writing`, `leaving`
(blocked on `unregister <-`), `closing`, `closed`. `handler[w]` is that of a
sender's request: `saved` is the moment between `Save` and the channel send.

| Code | Action |
|---|---|
| `case sub := <-h.register` | `RunRegister(s)`, then `BroadcastEvent` |
| `case sub := <-h.unregister` | `RunUnregister(s)`, `RunRemove`, then `BroadcastEvent` if the map had it |
| `case <-h.stop`, `Stop` | `RunStop`, `Stop` |
| `case msg := <-h.broadcast` | `RunTake` (render), `RunDeliver(s)` per subscriber, `RunDone` |
| `HandleSSEStream` up to the register send | `HandleSSEStream(s)` |
| `writePump` | `PumpDone`, `PumpTake`, `PumpWritten`, `PumpWriteFail`, `PumpClose` |
| `SendMessage` | `Save(w)`, `BroadcastMessage(w)` |

An item is a message with its id or an event with its client; JSON, HTML and log
lines are left out. Of the rendering only the control is kept: a fragment carries
`prev`, the message it was compared with to decide what it shows (avatar, name,
time, date header), because that state is shared by all HTML clients and can be
stale. An unbuffered send and its receive are one step, after which both sides
are free; so the loop may still be about to delete a subscriber whose pump has
already closed its channel. A connection has a random id of its own, hence
connects once. Requests that are rejected change nothing and are stuttering, as
is a `Save` that fails.

`Topic` is what the server promises readers, without goroutines, channels and
shutdown: posts are accepted and published once by the writer that owes them;
every reader is served the one topic from where it joined, item by item, each
given to it or left out. `ImplementsTopic` maps `topic` to the items broadcast so
far and those still queued, `owed` to the ids of requests that have saved and not
sent, `present` to the subscriber map, `cursor` to the length of the log (less one
for a subscriber the running fan-out has yet to reach) and `inbox` to the items of
the stream.

### Registration and Send

`pc[r]` follows a request through `RegisterWithInvite` (`selected`, `updated`,
`inserted`: inside the transaction) and the rest of its handler (`committed`,
`granting`, `finishing`) to its answer. The two handlers differ only in `web`:
the page logs the new user in. Uncommitted changes are not visible to others, so
the tables change in `TxCommit`, all at once.

SQLite is external; the module header states what is used of it (rollback
journal, a file database, one connection per transaction). Whether a waiting
statement is retried by the driver or fails is left open: `TxFail` lets any
statement of the transaction fail at any time, and `GrantFails` both statements
after it. A single-statement write runs when no transaction holds a lock; that it
may make a transaction's UPDATE fail is part of `TxFail`.

`Start` is the cold start, from an environment variable (`EnvCode`) or a fresh
random code; `Crash` loses sessions and requests and keeps the tables. It also
stands for SIGTERM, since `Serve` returns, and with it the process, as soon as
`Shutdown` has been called, without waiting for handlers.

`Send` puts a client in front of that: `deno-client/send.ts` (`register`, `login`,
`sendMessage`, and `main`'s catch as `Fails`), started again with the same flags as
often as the bound allows. `Register(r)` is the arrival of its request at the
server, `Registered` its reading of the answer, `Fails` a refusal, a lost answer or
the end of the program at any point. Everybody else registers on the page.

### Client

The two flags, the three channels and `c.resp` are variables; a method is split
where it releases the mutex (`Connect`/`Connected`, `Close`/`CloseDone`/
`CloseBody`/`CloseReturn`). `pump[p]` is the read pump of the p-th effective
`StartListening`: `spawned` until it reads `c.resp`, `top`, `blocked` in the
read, `have` an event, `exiting`, `ended`. A panic is a state of its own,
`panic`, that names its cause and ends the behaviour. The server is reduced to
sending events and hanging up, the reader to the loop of `grunt recv`. Two pumps
on one response (only after a stop and a second start, which has panicked or
will) split events, not bytes.

### Delivery

`Delivery` extends `Hub`: it takes all its steps and adds the reader at the other
end of each connection. A
page loads (`LoadPage`, with `Sync(0, limit)`) and then opens its stream;
`grunt recv` opens the stream, waits for `Connect` and then asks for the history.
`HubStep` is any step of the hub except the beginning of a connection, which is
`OpenStream`. `HandleSSEStream` neither writes nor flushes, so the response
headers, for which `Connect` waits, leave with the first frame: `HeadersArrived`.
That is what orders `recv`'s registration before its history. `log`, `regAt` and
`dropped` are history variables of `Hub`.

| Code | Action |
|---|---|
| `HandleIndexOrLogin`, GET | `LoadPage(s)` |
| `Client.Connect`, or the page's `sse-connect` | `OpenStream(s)`, `Connected(s)` |
| `Client.SyncHistory` and `SyncMessages` | `SyncHistory(s)`, `SyncHistoryFails(s)` |
| `Store.Sync` | the operator `Sync(since, limit)` on ids |

### Sessions

A request goes through `authMiddleware` in two steps, `ValidateToken` and
`IsUserAdmin`, because the second is a query of its own; what it then has in its
context (`user`, `isAdmin`) is not looked up again, while other requests log in,
change passwords and make or revoke keys. `ChangePassword` verifies and updates in
two statements, a login verifies and then enters a token. `Valid(c)` is what the
server would accept at this moment; `begunDead[r]` remembers that the credential
of `r` was not valid when `r` came. `KeyLike` are the tokens that begin with `gk_`
by chance: they are looked up as keys and refused. `Crash` loses the token map and
all requests and keeps the tables.

| Code | Action |
|---|---|
| `authMiddleware` | `ExtractToken`, `ValidateToken`, `ValidateTokenFails`, `IsUserAdmin` |
| `LoginUser`, `handleLoginSubmit` | `LoginUser`, then `GenerateToken` |
| `ChangePassword` | `ChangePassword`, then `UpdatePassword` |
| `AdminCreateUser`, `AdminCreateAPIKey`, `AdminRevokeAPIKey` | actions of the same names |
| `HandleSSEStream` | `HandleSSEStream`, which keeps the context until the stream ends |
| any other handler, or an error | `Reply` |

### SSE

The extension runs on the page's thread, so an action is one callback. `source` are
the EventSource objects with their state, the closure variable `retryCount` and how
often each listener is registered on them; `data[e]` is the source in an element's
internal data, `timers[e]` its reconnection timers. What the browser does with an
EventSource (reconnecting by itself after a drop, giving up after an answer that is
no stream) is modelled from what `sse.js` relies on. Elements leave the body with
htmx's clean-up or, taken out by a script, without. `NestingAssumption` says that no
element with `sse-connect` is inside another, as in `chat.html`, which has one.
`ProcessNode(e)` happens once to each element. htmx triggers
`htmx:afterProcessNode` again when it initialises an element again, and
`ensureEventSourceOnElement` would then make a second EventSource beside the first;
the elements of `chat.html` come with the page and keep their attributes, so that
this does not arise, and no property here speaks of a page where it does.

| Code | Action |
|---|---|
| `htmx:afterProcessNode` | `ProcessNode(e)` with `EnsureEventSourceOnElement` and `RegisterSSE` |
| `htmx:beforeCleanupElement` | `RemoveElement(e, TRUE)` |
| `onerror`, CONNECTING or CLOSED | `OnErrorConnecting(s)`, `OnErrorClosed(s)` |
| its `setTimeout` | `Reconnect(e)` |
| `onopen`, message and close listeners | `OnOpen(s)`, `OnMessage(s)`, `OnCloseEvent(s)` |

### Requests

`lock[k]` is the internal data of a sync element (`xhr`, `abortable`,
`queuedRequests`), `flight` the requests sent and not ended, `count` and `busy` the
counter and class of an indicator they share. `issueAjaxRequest` calls itself: an
abort runs `onabort`, whose `endRequestLock` issues the next queued request, all
before the abort returns. Such a chain is one action; its links are operators on a
page record (`Abort`, `EndRequestLock`, `Acquire`, `Enqueue`, `Send`).

| Code | Definition |
|---|---|
| an event reaches `issueAjaxRequest` | `Fire(c, refused)` with `Issue` |
| element gone, no target, `htmx:confirm` answered with false | `TurnedAway`, before the lock is looked at |
| prompt, `hx-confirm`, validation, `htmx:configRequest` | `Halts`, which takes the lock and gives it back |
| `xhr.onload`, `handleAjaxResponse` | `OnLoad`, its outcomes in `HandleAjaxResponse` |
| `onerror`, `ontimeout`; `onabort` | `OnError`; `Ended` within `Abort` |
| form `hx-on::after-request` of `chat.html` | `AfterRequest` |
| a swap removes the element | `Remove(c)` |

A composer is a control whose text is required and emptied after each request, as
in `chat.html`; one whose answer throws (`Failing`) is not emptied. `posted[c]` are the
texts of composer `c` the server has got. `Mixes` says how `hx-sync` is given to the controls; without it a
control is its own sync element. `stranded` and `stuck` are history variables for
the two places where the code lets go: a queued request that is turned away returns
before it reaches the lock, so that those behind it wait for the end of another
request, and an answer that throws or redirects keeps its indicators. After the
first, `LockIsTheFlight` and `PostedOnce` still hold unless a control uses `abort`
(`Alone`): the end of an abortable request would issue a stranded one while the
request that aborted it is being issued. `NothingWaitsForNobody` is about the time
before (`Orderly`).

### Nodes

An element is a record: its ancestors, its trigger, the marks `htmx-added` and
`htmx-settling` of its class attribute, its internal data and its timers. `Swap` is
`swap` up to the settling, with an out-of-band part (`OobSwap`) before the main one
(`SwapWithStyle`, or `SetTextContent` for a text, which the browser puts in the
place of all the target contains, without htmx's clean-up). The target of the
out-of-band part is anything below the root of some tree, since htmx looks for it in
the tree of the element whose request it was, which may be out of the document;
`Throws` is the one swap that fails, new content next to an element that has no
parent. `Settle(i)`, in any order, processes what the i-th pending swap
brought in, by `ProcessNodes`: elements whose attribute hash has changed are
deinitialised, `hx-on` handlers are set up afresh, then those elements are
initialised. The class attribute is part of the hash and htmx changes it itself,
which is why overlapping swaps initialise an element again; `early` remembers which
elements that can happen to, those that came into content not settled yet, and
`lost` the content of swaps that threw. `Click`, `DelayFires`,
`LoadFires` and `PollFires` are the callbacks of the five triggers, `Detach` the
removal by a script, which like that by a text has no clean-up (`TakeOut`).

## 3. Runs

| Run | Instance | Question and answer |
|---|---|---|
| `hub` | up to two of three connections, two senders, 2 messages, capacities 1 (545,887 states) | No send on a closed channel; a registered client's stream is the log since its registration less exactly its own drops; join and leave events give the subscriber map unless one was dropped; each stored message is broadcast exactly once or its request still waits; per sender, order is kept on every stream, also a lossy one; the shared `lastMsg` is always the previous message of each client's own stream; all of it implements `Topic`. |
| `hub_live` | one client, one sender, 4 messages, capacities 1, fair (23,232) | The loop always returns to its select; a departed client's goroutine ends; a post completes even if the client stopped reading; a client that reads gets the message or it was dropped; unless an event was lost to a full buffer, a new stream gets a first frame, without which its client would hang in `Connect`. |
| `delivery` | one reader that is a page or `recv`, two senders, 3 messages, capacities and history limit 1 (600,530) | `recv` misses no message but those its own full buffer cost it; a page misses only what was stored after its load and broadcast before its stream was registered. |
| `registration` | 2 names, 3 codes, 2 requests, 1 crash, a program run again with one of the names and codes, fair (486,978) | Invites and users match one to one; what a transaction read stays true; only the first user is admin; once the program's user has been registered with its invite, every rerun is refused and its message has been posted once at most; no two registrations wait for each other for ever. |
| `registration_first_admin` | 2 names, 2 requests, 1 crash | **Violated**: a crash after the commit leaves no admin. |
| `registration_cold_start` | environment code, 1 crash | **Violated**: the second start without users exits. |
| `sessions` | an admin, a registered and an admin-made user, 2 passwords, 1 key, 2 tokens (one `KeyLike`), 2 requests, 1 crash (1,456,668) | Every request is served exactly as its credential said when it came; an admin-made user gets neither password nor session. |
| `client_session` | two callers, one session, 4 events, capacity 2, fair (10,870) | No channel is closed twice or sent on when closed; nothing is lost or reordered; Close ends the pump, received from or not; the listener's loop ends when the server hangs up. |
| `client_close_early` | one caller | **Violated**: StartListening followed by Close can panic. |
| `sse` | the listener of `chat.html` and an element inside it with a trigger, 2 sources, 3 messages, 4 faults, cap 4, fair (83,141) | One connection or one timer per element; every listener registered once after any reconnection; everything sent while connected is shown in order and once; a source whose element is gone ends with its first event; a stream that failed comes back. |
| `requests` | a composer, a control that may be refused, redirected or fail, one that queues all and may be turned away; the first two with locks of their own, or on the lock of the third with 2 strategies for the composer and all 6 for the second; 5 events, 2 texts (990,216) | A lock names the one request of its element that is in flight; nothing waits for a free lock, unless a request before it was turned away; the indicator is shown while one is in flight; no message is posted twice or out of order; a composer sends exactly what was entered while it was idle. |
| `nodes` | three elements, three swaps, 2 events, all five triggers, fair (243,321) | Settled content works, nothing is set up twice, the timers of what is gone run out. |

**Bounds.** `MaxMessages`, `MaxEvents`, `MaxCrashes`, `MaxFaults`, `MaxSwaps`,
`MaxClicks`, `MaxFires`, `MaxTexts` and the client's `Max...` constants bound what
the environment does and nothing else. In `hub` a constraint (`Budget` in `MCHub`)
cuts behaviours after six of connections, posting users, messages, departures and a
shutdown, which counts for two: two connections with two users who post, or with two
departures and a shutdown, are within it; only larger mixes are not, and the safety
properties are proved without any bound. Capacities of 1 or 2 instead of 256 and 100 make "full" and "one left"
happen within a few steps; the code never compares a capacity with anything but the
current length. Two connections suffice for one to be slow, gone or of the other
format while the other is not; in `hub_live` four messages fill the subscriber, the
loop and the broadcast buffer and leave a request waiting. Two requests suffice for
every lock conflict of a registration; the proofs of its safety properties are for
any number. With one crash two initial invites are valid at once.
`GRUNT_INITIAL_INVITE` is unset in `registration` and set in
`registration_cold_start`; the proofs cover both. A history limit of 1 makes the
oldest messages fall out of it at once; with a third message one can be in the
history, one on its way and one on the stream. In `sessions`, one key and one
user without a row are enough for a key that is made, used, revoked and presented
again, and for a key of a name that nobody has yet. In `sse`, four failures pass the
retry cap, 4 standing for 128; two sources are one that fails and the one that
replaces it. In `requests`, five events make one request in flight, two queued
behind it and an abort of one that is itself aborting. In `nodes`, three swaps make
content that is replaced, and content that gets content, before it settles; two of
the 125 ways to give three elements their triggers have every trigger in them,
polling once above and once below another.
Symmetry is used for passwords, requests, senders and equal connections, in
safety runs only. Deadlock checking is off, where it is, because these bounds, and a
stopped hub or a panicked process, do end the behaviour; that nothing waits for
ever is stated by the liveness properties instead.

**Fairness.** A goroutine that can run does (weak fairness). A `select` picks a
ready case at random and channel waiters are served in order, so a case that is
ready again and again is taken (strong fairness on the cases of `Run`'s select,
on `PumpDone` and on the blocking send of `BroadcastMessage`). A write to a
connection whose client is gone returns. Nothing is assumed of clients that stay
and do not read, of new requests, of errors, crashes or `Stop`; the hub's
liveness properties end with `stop`, because after it nobody receives from
`register`, `unregister` and `broadcast` any more. `MessageReachesReader` has
its own premise, that the client keeps reading; `StreamOpens` has the
weaker one that no write hangs for ever. In `Client`, a reader that
keeps receiving is the premise of `HangUpEndsRange`. In `Registration` and `Send`
a handler that can take its next step does; errors, crashes, restarts and the
program's own steps need not happen. In the page the browser fires timers (`SSE`,
`Nodes`), and in `SSE` a connection attempt ends, with the faults bounded at last
by an open stream; nothing is assumed of the user, the scripts or what goes wrong.

## 4. Proofs

TLC checks the instances above; the theorems hold for every value of the
constants that satisfies the named assumptions of the modules (`ClientsAssumption`,
`BoundsAssumption`, `CapAssumption`; `NamesAssumption`, `EnvAssumption`,
`CrashAssumption`, `FlagsAssumption`; `UsersAssumption`, `NoneAssumption`,
`CredentialAssumption`; `ChanCapAssumption`, `CallAssumption`; `ElementsAssumption`,
`SlotsAssumption`, `NestingAssumption`; `ControlsAssumption`, `MixesAssumption`;
`LimitAssumption`; `PlacesAssumption`).

**HubProofs.** First `TypeCorrect`, `NoPanic` and `HubImplementsTopic`. Neither of
the first two properties is inductive.
`ControlOK` adds what the loop and the handlers hold at each program counter
(`peer` is a client while an event is due, `frame` is a frame and `todo` is within
the map during a fan-out, a saved request has an id). `SubscribedOK` is the heart:
a subscriber is in the map exactly from the moment the loop receives it to the
moment the loop deletes it, so a pump whose channel is closed is in the map only
while the loop is in `removing`, and never during a fan-out. `IInv` is their
conjunction; `NextIInv` has one step per action and one sub-step per conjunct.

For the refinement, the initial states agree, and each action of the hub is one of `Topic` under the mapping (`Save` is `Accept`,
`BroadcastMessage` is `Publish`, an event that is queued is `Announce`, `RunRegister`
is `Join`, `RunRemove` is `Leave`, each `RunDeliver` is `Serve`) or leaves what is
mapped alone (`Stutter`). `HeldOK` adds to `IInv` what the loop holds on its way
through a case of its select. Two lemmas on queues do the rest: moving the head of
`broadcast` to the end of `log` changes nothing in the two together.

Then, in the second half of the module, `AckedOnce`, `StreamsInOrder`, `StreamsComplete`,
`GroupingInStream` and `PresenceKnown`. `Messages`
says that the ids in the topic and in the hands of requests are apart, none above
`lastId`, and those of one sender ascending; `Events` that each connection's join
and leave are in the topic once at most; `Streams` that the frames of a stream have
places in the log, in order and not beyond what was served: order on a stream is
then order in the log. `LogOK` says what has become of each item offered since a
stream was registered: it is on the stream or among the drops, and never both,
which is so because no item is in the topic twice. With the order this makes
`StreamMatchesLog`. `GroupedOK` says that the message the next fragment will be
compared with is the last one on every subscribed HTML stream that has dropped
nothing, or, for those a running fan-out has yet to reach, that the one before is
(`Shown`). `Presence` matches the events with the arrivals and
departures the loop is done with.

**DeliveryProofs.** `RecvComplete` and `PageComplete`. Every step of `Delivery` is a
step of `Hub` or leaves the hub alone (`HubSteps`), so the invariants above carry
over. `ReaderOK` adds what a reader knows: its history is the newest of what was
stored when it asked, and `recv` asks only after it has been registered, since
the headers it waited for leave with the first frame. A message missing from
the history was then stored later, so broadcast after the registration, and
`StreamMatchesLog` accounts for it.

**RegistrationProofs.** `TypeCorrect`, `InvitesSingleUse`, `SnapshotsHold`,
`OnlyFirstIsAdmin` and `RerunsAreRefused`. A commit keeps `InviteLedger` only
because what the transaction read is still true, so `SnapshotStable` is part of
`IInv`; it is kept because a commit waits until no other transaction holds SHARED.
That only the first user is granted admin follows from `FirstOK`: whoever counts one
user after its own commit is that user (`OnlyOne`, from the library's facts on
cardinalities), and the first user stored is never removed. For the reruns, `SInv`
adds what a run knows of its own registration (`RunOK`), that only a run that
registered the user, or found the name taken before the invite was used, goes on
(`PassOK`), and that nothing is posted before (`PostOK`). 409 cannot come after the
invite was used because a transaction that reached the INSERT has seen it unused,
and by `SnapshotStable` that is still so. `Keeps` is what a step of the server
leaves of it, shown once for all server actions (`ServerKeeps`).

**SessionsProofs.** `TypeCorrect`, `ServedByCredential` and `PasswordlessStayOut`.
`CredentialDecides` speaks of a request that is being served; to get there,
`RequestOK` follows it through the middleware: while it has `arrived`, a credential
that was dead when it came is still not valid. That holds because a credential
never becomes valid again: whatever is in a table or the token map, and whatever a
request carries, has been issued before (`IssuedOK`), and only what has not been
issued is entered. `RequestOK` also says that whoever is between the two steps of a
login or a password change has registered, since only a password hash verifies
(`VerifiedRegistered`); from that follows `PasswordlessUseKeys`.

**ClientProofs.** `TypeCorrect`, `OneSessionNeverPanics` and `NothingIsLost`.
`Calls` keeps at most one caller between the first and the last step of `Close` and
says who has closed which channel; it is stated for clients that start, stop and
close once. `Reads` says where the events of the connection are, by the place of the
only pump: all taken ones are received or in the channel, but for the one it holds.

**SSEProofs.** `TypeCorrect`, `NeverTwoConnections`, `OrphansEnd`, `HeardOnce` and
`StreamShown`.
`OneConnection` is inductive with three facts: an element's data names a source made
for it (`Owned`), a live source was made for an element with `sse-connect`
(`Placed`), and one that was not processed has neither (`Unprocessed`). `OrphansEnd`,
an action property, follows: the source whose element has left the body is the one
in its data, so the event finds and closes it. For `HeardOnce`, `CountOK` says how often
a listener is registered on a live source: once for the source's own element; for
an element below it once from when it is processed, but on a source that replaces
a failed one not before `onopen`, unless the element was processed while that one
was connecting, and then once or twice. `PageOK` keeps an element's parent in the page
and processed before it. For `StreamShown`, the messages published so far are shown,
waiting at an open source, or missed, each in one of the three only, and what is
shown comes before what waits (`Shows`).

**RequestsProofs.** `TypeCorrect`, `RequestsNeverOverlap`, `WaitersHaveATurn`,
`IndicatorIsRight`, `NeverPostedTwice` and `CalmIsSent`. Because one event runs a chain of steps, the proof is about
operators on a page before it is about actions. `Settled` is what holds of a page
and one lock between steps (the lock names a request in flight for it, the only
one, and nothing waits when it is free or abortable), `Ending` what holds when a
request has ended and its lock has not. `SendSettles`, `EndSettles`, `AbortSettles`,
`AcquireSettles`, `EnqueueSettles` and, from these, `IssueSettles` take one to the
other; `Beside` is what such a step leaves to the other locks (`OthersSettle`).
`BecomesSettled` carries that to the state, with one lemma per action. All of it
holds of a lock from which a request has been turned away, too, as long as no control
uses `abort` (`AloneIn`), but for the claim that nothing waits when it is free
(`OrderlyIn`).

That no text is posted twice is about one composer at a time. `Fresh` says that it has
at most one request in flight, that such a request is newer than all the server has
got until it has been served, and that without one the text area is. `Keeps` is what one link of a chain leaves of `Fresh`; it is
transitive (`KeepsTransitive`) and shown of each operator beside `Settled`. For
`CalmIsSent`, a composer without `hx-sync` has its lock for itself (`OwnLock`); what
was entered while it was idle is sent by the event that follows, and a queued
request issued by the end of another is halted by the empty text area (`Textless`).

**NodesProofs.** `TypeCorrect`, `SettledWorks` and `NeverTwice`. What holds of one
element is in three parts: `Standing`, which nothing disturbs (one listener and one
polling timer at most, which the data knows of, a load trigger that has a timer, or
has been handled, or neither), `SetUp`, what works once it has been initialised
and while it is in the page, and `Steady`, what holds of one that is initialised
once at most. Whether it is depends on the page: `Forest` says that ancestors form
trees, and `CoverOK` that of the swaps still to settle at most one will process an
element, and none that has been initialised, unless it came into content not settled
yet (`early`). `OwnOK` says that whoever has been brought in is content of a swap to
settle or has been initialised, and that marks belong to swaps to settle; TLC checked
all of this before it was proved. `CoverOK` is why `early` must also remember content
of a swap that throws: what was put into unsettled content by its out-of-band part
stays there and is processed with it, and later swaps may process it again. The lemmas go by operator:
`InsertForest` and `RemoveForest` on trees, `DeInitOK` and `ProcessedOK` on an
element, `SwapWithStyleOK` and `SetTextContentOK` on a swap in progress, whose invariant `SwapOK` says
what it has done to old elements and to new ones; then one per action.

Only model-checked: all liveness, which is out of the prover's reach. Every
invariant and every other safety property of the passing runs is proved.

## 5. What the violated runs say

- *First admin* (README.md:29): count and grant follow the commit as statements of
  their own. A crash between them, a failing statement, or a second registration
  that commits before the first one counts, and no user is ever admin.
- *Cold start* (server.go:35): with `GRUNT_INITIAL_INVITE` and a database file, a
  restart before the first registration violates the UNIQUE constraint and exits,
  also when the old code has expired.
- *Client* (client.go:222): an early Close panics the pump.

Things the models show that contradict nothing written: concurrent posts may reach
live readers in another order than their ids (`StreamOrder` is about the posts of one
sender); a message stored while `recv` starts is printed twice; of two password
changes with the same old password both succeed; one login in 64^3 returns a token
that begins with `gk_` and is refused ever after; a client that missed the answer to
its registration is refused with 401 when it is run again, not let on with 409, and
never posts; and a text entered on the page while a post is in flight is lost with
the end of that post.

## 6. Not modelled

- HTML text, templates, styles, logging; date headers and the page's own grouping;
  the grouping at the seam between page and stream (a stale `lastMsg` shows a header
  too many or too few until a reload).
- Generated code, and of htmx: selectors, parsers, building of URLs, headers and
  bodies, `hx-preserve`, `hx-disable`, `hx-boost`, `revealed` and `intersect`
  triggers, throttle, view transitions and the history, none of which the templates
  ask for; focus and scrolling.
- The default `:memory:` database, where each pooled connection has a database of
  its own; `Registration` and `Sessions` assume a file.
- Registering and logging in at the same time as in `Registration` and `Sessions`
  together: the users of `Sessions` have registered before.
- Where a credential is read from (header, cookie or query), and logging out, which
  only clears the cookie.
- Avatars; the client library's requests for invites and settings, which keep
  nothing.
- `since` together with `last` in `SyncMessages`, a single query no reader of the
  repository sends.
- The page at the other end of the hub: `SSE` has a server of its own that numbers
  messages, since all it needs of the hub is the order `StreamOrder` and
  `ImplementsTopic` give.
- The emote watcher, a map that is replaced as a whole; the parsing of SSE lines,
  where a frame is passed on as a whole; handlers that still run while the process
  shuts down, for which `Crash` stands.

## 7. What is left

A client that connects, closes and connects again: `doneChan` is never replaced, so
`Client` is checked and proved for one session, and that a second Close panics is
listed as a hazard. `Nodes` with `hx-preserve`, should a template come to use it.
