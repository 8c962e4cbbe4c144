# A TLA+ model of jmapc

jmapc is a compiler for JMAP requests (`cmd/jmapc`, `internal/`) and the runtime
its generated Go clients use (the package at the root of `src/`). The runtime is
where several goroutines, a server that changes under them and connections that
fail meet; the compiler is sequential, and what is hard about it is that six
readings of one request file (the checker's, the editor schema's, the wire
builder's and three languages' generated code) have to agree. Both are modelled:
the runtime as state machines, the compiler as operators over request files,
driven by a small machine that loads schemas, compiles, builds and serves.

## The system

| Part | State it keeps | Operations | What makes it correct |
| --- | --- | --- | --- |
| limiter (`limit.go`) | the limit, the slots out, the callers waiting | hold, release, abandon | slots counted exactly; nobody waits beside a free slot; first come, first served |
| session cache (`client.go`) | the session, whether it is stale, the fetch in progress and how the last one ended | Session, RefreshSession, noteSessionState | nobody fails for another's context; never goes back; comes up to date |
| token holder (`token.go`) | the token, the source call in progress and how the last one ended | token, discard | a token refused is replaced once between all requests |
| retries (`retry.go`) | per request: attempts, whether a refused token may still be replaced | sendWithRetry | a request is carried out once; a revoked token costs nothing |
| event stream (`eventsource.go`) | the id to resume from, the id given, the silence timer | EventSource, Next, Close | no event skipped by resuming; a silent stream is noticed |
| watch (`watch.go`) | the state held, the id to resume from, whether the state is a resync's | Watch, settle | no change missed; only forward; returns when its context ends |
| push receiver (`push.go`) | verification codes, the keys, one subscription | ServeHTTP, Run | a subscription verified, kept, made again when lost, and none left behind |
| request round trip (`client.go`) and split gets (`split.go`) | none of their own | Do, post, planSplit, joinSplit | the joined answer is the one an unsplit call would have had at some moment |
| blobs (`blob.go`) | what is left of a part | Download | a part is placed where it was asked for, and is all there |
| request parser (`internal/request`) | none | parse, check | what it accepts no server refuses; what it refuses is refused for a reason |
| catalogue (`internal/spec`) | types, objects, methods | lookups, Extend | vendor schemas extend it in any order, and nothing of it is lost |
| editor schema (`internal/jsonschema`) | none | the schema of a request file | takes what the compiler accepts |
| wire, limits (`internal/wire`, `internal/limits`) | none | build, check | a built request is accepted by the server it was checked against |
| code generators (`internal/gen` and its `ts`, `rust`, `shared`) | none | functions, record types, verify, pages | the types fit every answer; a success is whole |
| examples (`example/client`) | none | the package generated for Go | as above, for requests people would write |
| test server (`jmaptest`) | answers and pushes waiting, requests recorded | ServeAPI, ServeEvents | back references resolved as a server does |

How they interact. A caller of `Do` reads the API URL from the session cache,
takes a slot of the limiter under the number the session states, and sends
through the retries, which put the token holder's token on every attempt. The
answer's `sessionState` goes back to the session cache. `Watch` opens event
streams (through the session cache and the retries) and calls the caller's
`catchUp`, which is a `Do`. `PushReceiver` is a `Do` on a timer beside an HTTP
handler the server posts to. They share memory under five mutexes
(`Client.mu`, `limiter.mu`, `tokenHolder.mu`, `EventStream.mu`,
`PushReceiver.mu`), each held for a few lines and never two at once, so what is
done under one hold of a mutex is one action. On the other side, the command
loads the schemas a project names onto the catalogue, parses the request files
against it, and hands what it parsed to the generators, to the editor schema, or
to the wire builder, which sends it through the client.

What is hard: waiting on channels others close, with a context that may end in
the same instant; state read under one hold of a lock and used under the next;
answers applied in another order than they were given; streams that end
anywhere; parts of one answer that are of different moments; a rule of the
language that one of its readers applies and another does not. `PROJECT.json`
lists each hazard at its line, with the properties that would catch it.

## The modules: the runtime

`Limiter` models `limit.go` and its callers. A caller reads the number the
session states (`ReadLimit`) and then calls `hold` (`HoldAtOnce`, `HoldWaits`):
the session may be replaced between the two. A waiting caller's `select` is an
action of its own (`TakeSlot`, `GiveUp`), because the channel may be closed and
the context ended when it runs; `abandon` then finds it in the queue
(`AbandonQueue`) or returns the slot (`AbandonSlot`). `handOut`'s loop is one
step, computed by `Given`. `SlotPool` is the abstract specification: a pool of
slots with one queue.

`SessionCache` models `Session`, `RefreshSession`, `fetchSession`,
`noteSessionState` and `getSession`'s outcomes. The server's session has a
version. A fetch is answered (`FetchEnds`), stored (`StoreFetch`) and its channel
closed (`CloseFetch`) in three steps, and a response may report any version the
server has had, in any order.

`Sender` models `sendWithRetry` and `tokenHolder` together: requests that take a
token, wait on each other's source call, are sent, refused, put off or lost. The
server accepts one token at a time, which is revoked or expires. `fetched` is
called after the lock is let go and takes it again, so it is a step of its own.

`EventStream` models `eventsource.go` line by line: `Next`'s two builders, the id
given and the id to resume from, the ping interval, and the timer with `lapse` in
a goroutine of its own (`Fire`, `Lapse`, `LapseCloses`). A connection is cut
anywhere in an event and the next stream resumes from where it stopped.

`Watch` models `watch.go`'s loop over a stream that hands on pushes and ends. A
catch-up's answer leaves the server in one step (`CatchUp`) and is taken in a
later one (`Settle`), so the server changes, pushes and forgets in between.
`Follower` is the abstract specification: a state held that moves only forward,
to states the server has reached, until the follower stops.

`PushReceiver` models `push.go`: `Run` (subscribe, `awaitCode`, verify, `keep`,
`renew`, destroy) beside `ServeHTTP`'s goroutines, which keep codes in a map of
limited size. A call of `Run`'s is carried out at the server in one step and
returns in a later one, so a code may be posted before the answer that names its
subscription and an answer may be lost. Time is what is left of each lifetime.

`Exchange` models one call of `Do`: `preflight`, `planSplit`, `groupParts`, the
round trips, `joinSplit` and `joinAnswer`, against a server whose records and
session change between any two calls it carries out. The limits are read one at a
time, each from the session held then, so a plan may be made under two sessions;
`had` is the sessions the server has had, and what is refused for its size counts
against `Do` (`refusedSize`) unless the server takes less than in one of them. The code's loops are steps:
`SplitCall` is one turn of `planSplit`'s outer loop and `SplitRest` one of its inner
one, `JoinSplit` joins one chunk. The parts are not stored but read off the further
calls, `perRequest` at a time from `start` on (`Toward`, `PartEnd`). A call id is its
text and the numbers after each `~`, which is what `unusedCallID` writes. The server
may answer fewer calls than it was asked, in the order of the calls, and a session
that states a limit of 0 states none.

`Download` models `Download` and `partReader` under a caller that writes what it
reads where it asked for it, resumes what broke off and starts again where
`IsRangeIgnored` says to. The server answers as it likes: another part than was
asked for, a part where none was, a body that is not as long as it says, or one that
says nothing of its length and ends short as if it were all there. `Download`
compares a part with what was asked for only where a range was asked for, so the
history `unplaced` is how much of the file came in a part of the other kind: the
properties say nothing of where those octets belong, and what the code does there is
named below. Sums of two int64s wrap (`Wrapped`). Its `DownloadInit`, `DownloadNext` and `stage` are what other
modules call `Init`, `Next` and `pc`: its proofs share a module with `Exchange`'s.

## The modules: the compiler and what it generates

`Catalog` is `internal/spec`: every registration function of the standard
methods, applied to the data types of which some check tells something apart.
`Extension` is `schema.go` over it: the names a schema claims, the types and
methods it adds, the panics and refusals, and the steps they are taken in
(`ExtendStep`: types first, then what each asks for, then the schema's own
methods). It has no recursion over data, so that it can be proved about: a
schema is loaded by a recursive function over its steps, and a type is looked
into four lists or maps deep (`NestingAssumption`). `Project` is the catalogue as
a state: the command's loop over the schemas a project names (`loadCatalogue`),
one `ExtendCatalogue` each, until one is refused.

`RequestFile` is the checker of `parse.go` and `value.go`, and the same checker
over a request that arrives (`incoming.go`). A JSON value is a node: its kind, its
text, and its members. The checker is a chain of steps that each hand on what is
known so far with the first error. `PropertySets` is `properties.go` over it.
`JsonSchema` is the schema written for editors, as what it takes: an operator per
function of the builder, applied to a node. Its `NotDescribed` names what the
compiler accepts and the schema does not describe, case by case: `header:`
properties written in a create or an `EmailBodyPart`, `Core/echo`'s own arguments,
a parameter as key of a map of an enumerated type, a parameter for a filter
operator's `conditions`, null among conditions, and comparators of a type with no
sort of its own.

`RecordTypes` is which generated calls share a type, what each type holds and
what of an answer each language reads. `Invocations` is the arguments with the
caller's values in them, as the wire builder and as the functions generated in
each language state them.

`Compiler` composes them: take a step of `Project` (`NameSchema`), parse a file and its sets, check it
against a session's limits, build it with values, and serve it call by call as
`jmaptest` does, resolving back references against the answers before.

`ClientTypes` is what the three generated clients share; `GoClient`, `TsClient`
and `RustClient` are their reading of a session, their function for a request and
their walk over pages; `Generated` is a program that verifies, calls and walks
with any of the three while the session changes and something refreshes the
client's copy. A response is, for each call, the sequence of its entries: none,
its answer or error, and what it implied (`Answers`). `Examples` is the package of
requests the repository generates and keeps, as its Go functions are: what each
asks of the session, its calls and what they refer to, what it returns and whose
refusals it reads; `PackageIsGenerated` checks the table its Verify is given, and the
refusals it collects, against what the model of the generator makes of the request.

Operators marked "mutant" in a module are the plausible bugs each property is
shown to catch; they are not part of the specifications.

## The runs

| Run | What it asks | Bounds |
| --- | --- | --- |
| `limiter` | `SlotsAccounted`, `NoIdleSlot`; `IsSlotPool`; `EveryWaiterAnswered` | 3 callers, each with any number of requests; numbers 0 (none), 1, 2 |
| `session` | `OnlyOwnContextEnds`, `NeverOlderThanHeld`; `EveryCallReturns`, `ComesUpToDate` | 2 callers, 3 versions, one of them without a state |
| `sender` | `OneRevocationSurvived`, `CarriedOutOnce`; `EachTokenFetchedOnce`, `EveryRequestEnds` | 2 requests, with and without a body that can be read again, 2 attempts, 3 tokens |
| `sender_empty` | *violated*: `token.go:159` tells a request of an empty token the source never returned | a source that does not fail, 1 attempt, 2 tokens |
| `stream` | `NothingSkipped`, `NoGap`; `LostStreamNoticed` | 3 events of 6 kinds, 2 streams, 1 ping, with and without pings asked for |
| `watch` | `CaughtUp`; `IsFollower`, `FollowsServer`, `EndsWithContext` | 3 states, 2 failed connections, 1 push about something else, 2 pushes waiting, with and without a resync |
| `push` | `OneSubscription`, `NoMissedCode`; `OneFailureSurvived`, `InForceAgain` | lifetimes of 12 and none, at most 10 granted, waits of 1, 1 code pending, 1 stray code, 2 troubles, with and without keys |
| `exchange` | `OneSnapshot`, `EveryIdAnswered`, `NeverTooLarge` | 7 requests of 1 or 2 calls, one of them with a call id that could be a part's, 3 records, 1 change of records, 1 of session, 4 sessions, one of which states no limit |
| `download` | `FileIsTheBlob`, `BroughtWhatWasAsked` | blobs of 0, 1 and 3 octets, lengths 0, 1, 2 and the word's largest (7), reads of 1 and 3, 3 downloads |
| `compiler` | `ReferencesResolve`, `BuiltIsAccepted`, `RepeatsAnswerTheSame`, `RefusedOnlyUnseen`, `AcceptedIsDescribed`, `AnswersFit`, `SameRequest`, `ExtensionHolds`, `SchemaOrderFree` | about 4000 files of 1 to 3 calls over every kind of method, sessions that state low limits, few capabilities or no account, up to 2 of 40 schemas |
| `generated` | `SuccessIsWhole`, `VerifyTells`, `WalkCovers` | 3 languages, the 27 functions of the examples and 4 other requests, 6 sessions, walks from -2, 0 and 4 over a list of 3 in 2 states, 1 change of session, 2 walks |
| `declared` | *violated*: `plan.go:26-28`; Rust and TypeScript declare a shared nested type once per call (`rust/func.go:322`) | files whose two calls read message parts in one shape |

What they show, beyond the names. `OneSnapshot`: whatever changes between the
parts of a split get, an answer `Do` returns without an error is one an unsplit
request would have had at some moment. `OneSubscription`: save where the
answer that told of one was lost, the server never holds two subscriptions of one
`Run`, and none once `Run` has returned. `RefusedOnlyUnseen`: a compiled request
that the limits allow is turned away only over what its file leaves to a parameter
or a back reference: a number of records, or an account. `SameRequest`: the wire builder and the three
languages state the same arguments for the same values. `SuccessIsWhole`: a
generated function that reports success has every answer it returns. `VerifyTells`:
for as long as the session is the one `verify` looked at, a request it finds
nothing wrong with is not stopped, and one it finds a problem with fails. One thing
it cannot promise: a server that answers a request without the calls the problem is
with has refused nothing, and a function that gives none of those succeeds
(`LeftOut`).

Why the bounds are enough. Three callers are the least where one leaves the queue
from the middle; two slots the least where one hand-out serves several. Three
versions, tokens and states are the least where something is replaced twice, so
that what is two changes old can come back. Two streams are the least for a
resumption, and three events for one before, in and after the cut. Two troubles
are the least where a renewal fails and the subscription is then lost. Two parts
with a change between them are the least a joined answer can tear at. A word of 7
makes `from + length` pass it. Two calls are the least for a back reference, and
three for a reference to something that was itself referred to. The constants
`MaxVersion`, `MaxToken`, `MaxState`, `MaxFailures`, `MaxOthers`, `MaxInbox`,
`MaxEvents`, `MaxPings`, `MaxWire`, `MaxTroubles`, `MaxChanges`, `MaxSessions`
guard only what the environment does, never a step of the code; `MaxStreams`,
`MaxAsks` and `MaxWalks` are how often the caller opens, downloads and walks. One
late `lapse` at a time is followed. `CHECK_DEADLOCK FALSE` is set where the
program really stops: a watch or a receiver that has returned, a stream closed, a
request answered, a file compiled.

There is no run of types alone: `Limiter` and `SessionCache` have a type
invariant because the proofs stand on it, and the proofs establish it; elsewhere
a value out of its type makes a property or TLC itself fail.

## Fairness

- `Limiter`: a goroutine that can run does, and an exchange ends, as `post`'s
  deferred release runs whether it was answered or failed. Nothing makes a caller
  start, a context end or the server state another number.
- `SessionCache`: every step of a call in progress is weakly fair; a fetch ends
  but nothing makes it succeed. `EveryCallReturns` adds that fetches are given up
  finitely often (`FetchesGivenUpFinitelyOften`), since a caller goes round again
  each time the one it waits on gives up; `ComesUpToDate` adds that the client is
  in use (`InUse`).
- `Sender`: every step of a request is weakly fair: the source, the server and the
  sleep return, as contexts and the HTTP client's timeout see to.
- `EventStream`: time passes, a timer that is due fires and its goroutine runs, and
  `Next` reads on. The server and the caller owe nothing.
- `Watch`: the watch's goroutine runs on, a call it makes returns, a delay passes,
  and a server pushes what it has to on a stream that stays open. Connections fail
  finitely often (`MaxFailures`): an outage ends.
- `PushReceiver`: `Run` goes on, time passes, the server carries out what it was
  sent, and `ServeHTTP` wakes who waits. Codes need not come, and calls may fail
  `MaxTroubles` times.

The other modules state safety only: one call of a sequential function.

## What is proved

Eight modules hold proofs, all for every value of the constants under the
assumptions named, which TLC evaluates for the constants of the runs. `PROJECT.json`
lists the theorems. Every safety invariant of a runtime component, both refinements,
two action properties and the three invariants of the generated clients are proved,
and so is what every catalogue made of vendor schemas keeps, and that the order a
schema's types are written in decides nothing.

`LimiterProofs` (`CallersAssumption`: finitely many callers; `LimitsAssumption`):
`TypeCorrect`, `SlotsNeverLost` (`[]SlotsAccounted`) and `NoLostWakeUp`
(`[]NoIdleSlot`). None is inductive as it stands: that `held` counts the owners of
a slot is kept by `abandon` only if whoever leaves without being in the queue has
a closed channel, and by a hand-out only if no one in the queue owns a slot
already. `IInv` adds the shape of the queue: it holds each caller once, exactly
those waiting or leaving without a slot handed over. `HandOutKeeps` is the lemma
the steps rest on. On it stands `LimiterIsSlotPool`, `Spec => IsSlotPool`: `hold` is
the pool's `Join`, `abandon` its `Leave` or its `Return`, the deferred release its
`Return`, and the select and everything callers do beside the limiter are stutters.
The invariant supplies what the mapping needs: that nobody asks who waits or owns,
and that the counter is the number of owners.

`SessionCacheProofs` (`VersionAssumption`, `CallersAssumption`): `OwnContextOnly`
(`[]OnlyOwnContextEnds`) and `NothingOlder` (`[]NeverOlderThanHeld`). The invariant
adds that one caller is making the fetch (`OneFetch`), what its answer is while
it has yet to return it (`AnswersKept`), that no session is newer than the
server's, and that a fetch is given up exactly where it failed with a context
(`ErrorsTold`).

`SenderProofs` (`RequestsAssumption`: `"none"` names no request):
`RevocationSurvived` (`[]OneRevocationSurvived`), `NeverCarriedOutTwice`
(`[]CarriedOutOnce`) and, as an action property, `FetchedOnce`
(`EachTokenFetchedOnce`). They stand on the order of tokens: whoever has the token
the server accepts has it from the holder, which still holds it (`GoodIsHeld`);
what the source has returned and nobody has stored is newer than any token a
request has (`AnswerIsNewer`), and what is held is no older than any
(`HeldIsNewest`). So a request refused the one time it is sent again has left no
first token about (`AfterRefusal`), and its second refusal is of a second
revocation.

`EventStreamProofs` (`KindsAssumption`): `ResumesWhereTold` (`[]NothingSkipped`) and
`ToldInOrder` (`[]NoGap`). What has been told is known where a line is read, and
the lines in between may be cut anywhere, so the invariant places the reader and
the server among the lines of the stream (`Places`): the lines on the wire lead,
each from the place before (`Leads`), from where the reader is (`ReaderAt`) to where
the server is unless the end was cut off (`Framed`). At its place the reader has
told of all that is due before it, holds no id beyond it, and has gathered just
what the lines of the event under way gave (`Gathered`).

`WatchProofs` (`BoundsAssumption`): `NothingSlips` (`[]CaughtUp`) and
`WatchFollows` (`Spec => IsFollower`), for any number of states, failures and
waiting pushes. The invariant says where the last push of an open stream is: no
newer than the state held or about to be, or still on its way (`PushKept`); and
that an answer is between the state held and the server's (`AnswersForward`).

`PushReceiverProofs` (`TimesAssumption`, `BoundsAssumption`): `NoneLeftBehind`
(`[]OneSubscription`) and `CodeHeard` (`[]NoMissedCode`), for any lifetimes, waits
and number of troubles. `OneSubscription` alone says nothing of when another may be
asked for; the invariant adds that `Run` is in the call its place says (`CallFits`),
that a subscription the server says it does not have, or has destroyed, is gone or
one `Run` cannot know of (`ToldGone`), and so that `Run` asks for another only then
(`AskedForOnceGone`). `RunGoes` and `BesideRun` are the lemmas for a step of `Run`
and for one beside it.

`RenewedInTime`, of the same module, is the action property `OneFailureSurvived`
under the hypothesis `LongEnough`: what is granted at most is long enough for a wait,
a renewal, its retry and one check interval for each trouble that may come, each
lifetime asked for is as long, and none is beyond five times what is granted. The
invariant `InTime` counts, at each place of `Run`, what is left at the server against
the timer, the failures so far and the troubles to come. The hypothesis cannot be
left out: TLC finds a subscription that lapses after one failed renewal with, for
lifetime, longest grant, verify timeout, check interval and troubles, 7, 7, 1, 1, 2;
8, 8, 2, 1, 2; 8, 8, 1, 2, 2; 8, 8, 1, 1, 3; 6, 6, 1, 1, 1; and, where much more is
asked for than granted, 60, 9, 1, 1, 2. The constants of the `push` run satisfy it,
and so do the defaults of `push.go` (a minute, half an hour) with a week for the
other two and a few hundred troubles.

`TransferProofs` holds two components' proofs, of a call of `Do` and of a download.

`Exchange` (`RequestsAssumption`: no two calls of a request have one id, which
`internal/request/parse.go:514` refuses; `SessionsAssumption`: limits are numbers;
`BoundsAssumption`): `AnswersAreOneSnapshot` (`[]OneSnapshot`), `NoIdIsLost`
(`[]EveryIdAnswered`) and `NothingTooLarge` (`[]NeverTooLarge`), for requests of any
number of calls and ids, any limits, any number of parts and of changes in between.
The properties speak of a `Do` that has returned, and say nothing of how the answer
came to be; the invariant follows it through the loops. `PlanCovers`: the calls
sent in place of a request's ask, with the further calls cut off them so far and
the ids left of the call at hand, for just the ids it asks for, and each further
call has an id of its own (`UnusedIs`: there is always one left to take, by counting).
`Sending`: what the server has is the part the loop is at, each of its answers is of
one moment since `Do` began, and answers what the call asked. `JoinedSoFar`: the
answer to each call is of all the ids its first part and the parts joined so far
asked for, unless an error says one was not answered, and of one moment, unless an
error says the state changed: joining two answers of one state is an answer of that
state (`OfBoth`). `Ending`: no error but those two comes from joining, and the loop
ends with every part joined. `SizesKept` is the invariant of `NothingTooLarge`: the
session held is one the server has had (`Known`), so each call that can be split is
within what the server once took (`SmallCalls`) and so is the number of further calls
in one request (`FewParts`), though perhaps of two different sessions.

`Download` (`SizesAssumption`: sizes and lengths are counted by the word;
`AsksAssumption`): `NoOctetMisplaced` (`[]FileIsTheBlob`) and `NothingMissing`
(`[]BroughtWhatWasAsked`). The invariant relates the octets still to come to the
place the next is written (`FollowsOn`, which exempts a part that no range asked
for) and their number to where the part ends, or without a range to the length stated
(`StillToCome`); `PlacedEnds` shows that a part `endsWhereAsked` accepts ends
where the request or the blob does, although the sum it compares with may wrap.

`GeneratorProofs`, of `Generated` (`GeneratedAssumption`; `RequestsAssumption`: every account a
request takes is one of its calls', and requests of one name are alike;
`SessionsAssumption`: a primary account is one of the session's, or empty):
`ResultsAreWhole` (`[]SuccessIsWhole`), `VerdictsHold` (`[]VerifyTells`) and
`WalksCover` (`[]WalkCovers`), for any requests and sessions, any answers, and a list
and changes of any length. Two lemmas per language come first. What a function
returns without an error is whole (`GoWhole`, `TsWhole`, `RustWhole`), whatever was
answered. And what `verify` finds (`GoFinds`, `TsFinds`, `RustFinds`) is complete and
grounded (`Finding`): everything the client stops a request for is found
(`AllStopsFound`), where nothing is found nothing stops it, client or server
(`NothingFound`), and where something is, it fails (`SomethingFound`). The invariant
joins them across time: the verdict is what the session it looked at gives, a call
that used one session holds that session's accounts and ends with what that session
says (`CallOK`), a walk's pages are chained and it asks on from where the last ended
(`WalkOK`), and the page awaited answers the window asked for (`Asks`), though the
records change and calls fail in between.

`GeneratorProofs`, of `Project` (`SchemasAssumption`: what is read from a file is
records and lists; `NamesAssumption`: a name `checkTypeName` lets pass holds no slash,
so a method's name tells its type and verb, and arguments and responses are not named
as filter conditions are; `StandardsAssumption`: the arguments and answers of the
standard methods, built from any type's name, have each field once;
`StandardAssumption`: the catalogue of the specifications is itself sound): `CatalogueHolds`
(`ExtensionHolds`, an action property) for any schemas, any number of them loaded
in any order, each with any number of types and methods. The inductive invariant
is that a catalogue that goes on is `Sound`. That one schema keeps it
(`ExtendKeepsSound`) is an induction over the steps of `ExtendStep`: after `n`
steps (`After`), the names the catalogue holds beyond those it began with are the
claims the steps so far have made (`Made`), so what the next step registers is not
yet there and nothing panics; the types are all there before the first method asks
for them; and what was known of a method stays known as objects are added
(`Includes`) and arguments appended (`FieldStays`). `reserveNames` is what the proof
stands on: without its comparison of a schema's claims with each other the
induction has no start, and TLC shows the panic. References are checked last, so
`TypesDefined` is the one part of `Sound` that fails in between.

`OrderFree` (`SchemaOrderFree`): every order of a schema's types, for any schema and
any catalogue a project has come to (`ExtendOrderFree`). A type, and in the second pass
its methods, read and write only what is theirs: the object of its name, what is named
after it, and the arguments of the methods it adds to (`TypeOnly`, `TypeAlike`,
`MethodsOnly`, `MethodsAlike`). Claims make what two types write apart (`OwnApart`,
`MethodsDisjoint`), so after each pass what is a type's is as the type would have made
it by itself, the rest is as it was, and the pass has gone on just when each type would
have (`Passed`, `PassIs`): that is one catalogue, whichever order they came in
(`ReachedOne`). That no two methods have their arguments in one object
(`MethodsApart`) is what keeps two types from adding to the same one, and is part of
`Sound` for this. The names claimed are the same in any order (`ReorderedReserves`).
The proof needs the types to come first, all at once: registered type by type, a
method finds the objects its filter needs in one order only, and TLC shows it.

Model-checked only. Everything under fairness: liveness and `ENABLED` are beyond the
prover. The compiler (`Compiler` and the modules it composes, but for the
catalogue): its readings of a file recurse over JSON values, the properties compare
two such recursions, and the library's induction cannot be instantiated.
`EmptyOnlyWhereEmpty` and `DeclaredOnce` are the two that fail.

## Where the code departs from what it says

Two departures are runs (`sender_empty`, `declared`) and are listed under
`findings` in `PROJECT.json`. The others were met while modelling; the modules do
what the code does.

- A request that read the limit before the session was replaced sets it back, so
  the count may rise above the number last stated (`limit.go:43`; `limit.go:18-19`).
- A stale notice is withdrawn by a fetch begun before it (`client.go:238`; `client.go:47-48`).
- Two attempts send again once, where the comment has sending again disabled below
  two (`retry.go:187`; `retry.go:56-57`).
- A lapse that runs late may close a stream that has just been heard from
  (`eventsource.go:205`; `203-204`, `275-281`).
- A 206 answered to a download without a range is handed on as the blob, with
  `Range` nil, which stands for the whole: `Content-Range` is looked at only where a
  range was asked for (`blob.go:270`, `274`, `287`; `42-44`). The restart
  `IsRangeIgnored` asks for is such a download, so a server that answers it with part
  of the blob has the caller write that part at the start of its file
  (docs/content/en/blobs.md, the example under `IsRangeIgnored`).
- Where a body says nothing of its length and only the connection ends it, a
  download without a range that stops short ends without an error, as any such body
  does; `partReader` holds only a part to a length.
- A record named twice in a split get is returned twice (`split.go:251`; `split.go:15-16`).
- A property set that extends one declared later is refused (`properties.go:214`;
  `156-158`), and one with body parts is refused as narrowing `bodyProperties`
  (`parse.go:661`; docs/content/en/properties.md:74-75).
- A Go function with `_returns` reports nothing where a call that is read only for
  refusals was not answered (`gen/func.go:124`; docs/content/en/errors.md:33-35, 91-93).
- A schema's type with `/get` and no `id` is taken, and its `/get` is said to return
  the id of every record (`standard.go:110`; `spec.go:292`); a method that a schema
  writes out is refused for the same (`schema.go:403-408`; docs/content/en/extensions.md:41).
  `MethodHolds` exempts it.
- The types of a schema's extra sort properties are not checked (`schema.go`,
  `checkReferences`).
- A filter of an operator alone (`{"operator":"AND"}`) is accepted; a reference
  with `*` over a map or the index `-1` is accepted though no server resolves it;
  two keys of a map that come from parameters collapse where their values are one.
- Between the languages: a Go iterator ranged twice, or a TypeScript parameter
  object used again, starts elsewhere (docs/content/en/paging.md:67); TypeScript with no `_returns` reports
  success although a `/get` was never reached, and does not check what it is
  answered; TypeScript and Rust report refusals only where no call failed, Go joins
  both; Go takes an empty primary account id, the others treat it as missing; a
  capability that is missing surfaces as a missing account; the refusals of an
  implied second response are nobody's; a paged query with `anchor` beside
  `position` is accepted; Go sends null for a nil slice a method requires.

## What is left out

- Lengths of delays (`backoff`, `doubled`, `Retry-After` in seconds), except the
  silence timer's and the receiver's; the bytes of lines, bodies, headers, errors
  and pushes; positions, wording and order of messages.
- In `Sender`: a source that returns a token already expired, a refused request
  whose token cannot be read back, and a `RetryPolicy` of the caller's own.
- In `SessionCache`: what a session holds. Versions listed in `Stateless` are
  sessions without a state; a response without one changes nothing.
- In `Watch`: the lines of a stream, which are `EventStream`'s, and what `Session`
  and the retries do inside `EventSource`, which fails, is refused or opens.
- In `Exchange`: a client without the core capability, `createdIds` (a split part
  drops them), observer reports, and `do`'s timer on an event source connection.
- In `Download`: `Upload` and `UploadFrom`, one exchange each.
- In the compiler's modules: `shape.go`, collations and the size checks of
  `limits.go`, duplicate keys and JSON syntax. The tables of `internal/spec` are cut
  down to types and methods that differ in kind; a `Dynamic` set of names is the
  names it stands for; lists of properties are compared as sets. What a server
  answers with (`Sample`, `Samples`, `Stated`, `Fetched`) is external: any answer its
  response type allows, of a few. An extension that fails leaves the catalogue
  partly changed in the code, and the command abandons it.
- In `Invocations`: what tells the wire builder, Go and Rust apart. They state an
  argument alike, so one operator stands for the three, and `SameRequest` compares
  TypeScript's reading of `undefined` with it and, in all four, which arguments may be
  left out.
- In `Generated`: the watch and blob helpers generated beside the functions, and
  the steps of a session fetch in TypeScript and Rust, which is one step. `LookUp`
  takes the primary accounts from one session in one step, where TypeScript and Rust
  await the session once for each capability (`ts/body.go:28-31`,
  `rust/body.go:30-38`) and may read two sessions; `VerifyTells` speaks only of a
  session that has not changed, and no other property compares accounts.

### Not modelled

`pushcrypto.go` (cryptography over one message), redaction and the observer (they
change no state of the client), `types_gen.go` (7362 lines of declarations), the
flags, files and output of the command, the examples in TypeScript and Rust, the
end-to-end tests and the site.

## Plan

1. `createdIds` across the parts of a split request; the timer of `do` beside the
   response it races.
2. Lemmas about the single steps of `RequestFile` and `JsonSchema` that need no
   recursion, towards `AcceptedIsDescribed`.
3. `shape.go` and the collations of `limits.go`; the generated watch and blob
   helpers, composed with `Watch` and `Download`.
