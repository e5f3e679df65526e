# p4runtime-go-controller: a TLA+ verification project

`p4runtime-go-controller` is a Go SDK with which a controller keeps a P4Runtime
session with a switch: one gRPC connection, one bidirectional `StreamChannel`
that carries mastership arbitration, packets and digests, and unary RPCs that
write table entries and install pipelines. This directory models the parts of it
in which several goroutines, contexts and a remote target interact, and the pure
parts on which the meaning of what is written depends.

## Inventory

| Part | State | Operations | Hard because |
|---|---|---|---|
| Stream supervisor (`internal/stream/supervisor.go`) | mastership state and its change channel, send queue and send gate, graceful-close request, stop channels, the current stream | `Send`, `CloseGracefully`, `Close`, the main loop (dial, arbitrate, serve, back off), one receive goroutine per stream | callers, the main loop, receive goroutines that outlive their stream, expiring contexts and the target all interleave |
| Client session (`client/client.go`) | the `once` of `Close`, the client's context | `Dial`, `Close`, `CloseGracefully`, `BecomePrimary` | racing closers, lost wake-ups, a `Dial` that gives up half way |
| Mastership events (`setState`, `forwardEvents`) | two bounded channels | publish, forward, read | drops, closing without a reader |
| Stream dispatch (`client/stream.go`) | four handler maps, an id counter | `On...`, cancel closures, `dispatch` | handlers that change the maps while they are being run |
| Unary RPCs (`client/write.go`, `client/pipeline.go`) | none of their own | `Write`, `Read`, `SetPipeline`, `GetPipeline` | check-then-act on mastership, per-update error association, fallback after an unsupported action |
| Pipeline (`pipeline`) | a private P4Info, eighteen maps of definitions | `New`, lookups by name, alias and ID, `Tables` | pointers into shared definitions, colliding keys, cyclic messages |
| Digests and packet I/O (`digest`, `packetio`) | the ID a subscription's closure holds, the packet headers | `Subscribe`, `OnPacket`, `Send`, `Ack` | filters that run inside the dispatch, maps by name against lists by ID |
| Arrays (`counter`, `meter`, `register`, `internal/resourceindex`) | none of their own | `Read`, `Write`, `WriteData`, `Reset` | index bounds, rate rules, recursive and shared types of register data |
| Pure parts (`internal/codec`, `client/electionid.go`, `tableentry`, `pre`, backoff) | none | encoding, comparison, validation | numeric edges |
| `p4ctl`, options, examples, mock target | none worth modelling | flags, printing | |

Components interact as follows. The client owns the context of the supervisor's
main loop and is the only caller of the supervisor's `Close`. The supervisor
calls the client's `receiveHandler` (the dispatcher) on its receive goroutines.
`BecomePrimary` waits on the supervisor's change channel; the events channel is
fed by `setState` and copied by a goroutine of the client. `SendStreamRequest`
checks mastership and then calls the supervisor's `Send`; `Write` and
`SetPipeline` check it and then call the target directly. The table entry builder
encodes match values with the codec; what it builds goes into a `Write`. A
`digest.Subscriber` registers a filter with the dispatcher; a `packetio.Subscriber`
encodes metadata and calls `SendPacketOut`. All of them look names up in a
`Pipeline`, which any number of goroutines share.

What makes each part correct: the supervisor must not show mastership it does
not hold, must not send a message in a tenure other than the one it was accepted
in, must tell each caller the truth about its message, must drain before it
half-closes, and must end whatever the target or a handler does. The client must
not return from `Close` before everything is down and must not lose a wake-up.
Dispatch must give each message once to exactly the handlers in force. `Write`
and `SetPipeline` must report what the target did, update by update, and must not
repeat or clear anything the caller did not ask for. An encoded match must match
what the caller's match does, and a key must name the entry that was built. A
`Pipeline` must behave like an immutable value and find each declaration under its
own keys only. A digest list must reach those who asked for it, packet metadata and
register data must be sent exactly when they are what P4Info declares, and a call on
an array must touch the cell it names and no other.

## Modules

| Module | Models | Rests on |
|---|---|---|
| `StreamSession` | the abstract contract of one device session | |
| `Supervisor` | `internal/stream/supervisor.go` | `StreamSession` (refinement) |
| `SupervisorInv` | the supervisor's inductive invariant | `Supervisor` |
| `Tenure` | a history of the mastership each Send has seen | `SupervisorInv` |
| `SupervisorProofs` | proofs about the supervisor and of the refinement | `Tenure` |
| `Client` | `client/client.go` and `SendStreamRequest`, composed with the supervisor | `Supervisor` |
| `Events` | the two event channels, composed with the supervisor | `Supervisor` |
| `ClientProofs` | proofs about both | `Client`, `Events`, `SupervisorProofs` |
| `Dispatch` | `client/stream.go` | |
| `DigestService` | `digest/digest.go` on the dispatcher | `Dispatch` |
| `DispatchProofs` | proofs about both | `DigestService` |
| `TableRPC`, `TableRPCProofs` | `Write` and `Read` of `client/write.go`, `errors/write.go`, and proofs | |
| `PipelineRPC`, `PipelineRPCProofs` | `client/pipeline.go`, `client/pipeline_error.go`, and proofs | |
| `ElectionID` | `client/electionid.go` | |
| `Powers` | powers of two | |
| `Backoff` | `nextBackoff`, `jitter` and their use in `run` | `Powers` |
| `Codec` | `internal/codec/codec.go` | `Powers` |
| `MatchField` | `encodeField` of `tableentry/builder.go` | `Codec` |
| `TableEntry` | the `Builder` of `tableentry/builder.go` | |
| `Replication` | `pre/pre.go` | |
| `Resources` | `counter`, `meter/meter.go`, `register/register.go`, `internal/resourceindex` | |
| `EntityProofs` | proofs about these three | `TableEntry`, `Replication`, `Resources` |
| `RegisterNumeric` | `register/numeric.go` | `Codec` |
| `RegisterData` | `register/data.go`, `register/headers.go` | `RegisterNumeric` |
| `PacketIO` | `packetio/packetio.go` | `Codec` |
| `NumericProofs` | proofs about numbers and byte strings | `ElectionID`, `Backoff`, `MatchField`, `RegisterNumeric`, `PacketIO` |
| `Catalog` | what a `Pipeline` promises: an immutable value | |
| `PipelineIndex` | `pipeline/pipeline.go`, `pipeline/copy.go` | `Catalog` (refinement) |
| `MessageGraph` | `pipeline/message.go` | |
| `PipelineIndexProofs` | proofs about both and of the refinement | `PipelineIndex`, `MessageGraph` |
| `MCSupervisor`, `MCDispatch`, `MCTableRPC` | symmetry sets and constant functions | |
| `MCValues`, `MCEntities`, `MCPipeline` | modules without common state side by side: a behaviour is of one of them | |

Definitions whose name starts with `Mut` are faulty variants of the definition
that follows them: each property of a run is shown to notice at least one.

### Supervisor

A call of `Send` or `CloseGracefully` is an element of `Senders` or `Closers`
and stands for its request and its context too. The main loop's program counter
is `mpc`:

* `top`, `dial`, `arbSend`, `arbWait`, `sleep`: `run` and `arbitrate`;
* `serve`, `sending`, `fail`: `serve`, `stream.Send` and `failPending`;
* `finish`: `finishStream`;
* `exit`, `exitFail`, `done`: the deferred calls of `run`.

`recv[s]` is the receive goroutine of stream `s`; it goes on after the main loop
has left the stream (`cur # s`). `sendRequest.state` is the channel that was
current when `Send` took the gate; since the code only compares it with the
current channel, the model keeps the set `current` of calls whose channel still
is. `wire` and `halfClosed` record what was given to gRPC.

`Tenure` adds a history that knows nothing of these channels: `since[p]` is the set of states
the supervisor has been in from the moment Send p took the gate until its message is given to
`stream.Send`. `SentInItsTenure` asks that it be `{"primary"}` when the message goes out. So
it is the channels that are being judged: a `setState` which does not replace the channel, or
a token captured at another moment, lets a message of an earlier mastership pass.

A step is one blocking operation and the local work after it. Joined steps are
those no other goroutine can tell apart; the module's header lists them. Durations are
left out: a timer may fire at any time. Backoff growth, jitter and logging are
left out of this module. The target is unrestricted: it may answer, fail, send
arbitration at any time, or hang. Contexts of calls in `Deadlines` expire at any time.

### StreamSession and the refinement

`StreamSession` says what the rest of the SDK may rely on, with no queue,
goroutine or context: mastership comes only out of a handshake; a message goes
out only while primary, once, before the half-close, and never after its `Send`
said that it did not; success of `Send` and of `CloseGracefully` is true; a
stopped session is disconnected. Its variables are variables of the
`Supervisor` module, so the refinement mapping is the identity.

### Client

`Client` extends `Supervisor`. Cancelling the client's context is the
supervisor's `ParentCancel`; the body of `Close` runs once (`once`), and every
call that ends in `Close` (`CloseCalls`: `Close`, `CloseGracefully`, a failing
`Dial`) waits for it. A handler that calls `Close` is one of the `Users`, and a
handler need never return. `watching` is the set of waiters whose captured
change channel is still current. The application can use the client only after
`Dial` returned it.

### Events

`Publish` is a supervisor step with the publication of `setState`: the steps
that call `setState` are recognised by the program counters they connect. The
error inside an event is left out.

### Dispatch

Each call of an `On...` function is an element of `StreamSubs`, `PacketSubs` or
`DigestSubs` (`OnIdleTimeout` is the same code as `OnDigestList`). Two
`Receivers` stand for the receive goroutine of the current stream and the one of
a stream that was left. Registering and cancelling may happen at any time, from
handlers too, since no lock is held while a handler runs.

### TableRPC and PipelineRPC

The target is external and keeps what the P4Runtime specification says it keeps:
a table and its own view of mastership, or a forwarding pipeline and a saved one.
A request is on its way until the target handles it, and its reply until the call
takes it; a call may end for a transport failure or its context first, with the
request still to be handled. Status messages are abstracted to what they are
about, so the code's lists of phrasings are taken to recognise their subject.
In `TableRPC` the details of a failed `Write` may be too few or not what was
expected, as the code allows for. In `PipelineRPC` targets implement any subset of
the actions, and `Plan` is the pair of actions `SetPipeline` tries.

### ElectionID and Backoff

Integers keep a width: `Half` is the number of values of half an election ID,
`MaxInt` the largest duration, and the sum and the doubling of durations wrap. The loop of
`run` is reduced to its delays: `Retry` is a failed attempt with its sleep, `Reset` a
successful arbitration, `fails` counts the failures in a row. The configured delays are any
two durations, as `WithReconnectBackoff` and `New` accept them: not positive, the first above
the second, and the largest ones among them. For the last two the documents promise more
than the code does; see Findings.

### Codec, MatchField and TableEntry

A byte has `ByteBits` bits. With eight, no instance that has several bytes could be
enumerated; with two, every alignment of widths and prefixes against bytes is.
The inputs of a call are the state and grow a bit or a byte at a time. Powers of two,
the number a string stands for (`Places`, from the last byte up) and the bits two bytes
have in common (`And`) are recursive functions, which the prover can use. The code's
`DecodeUint` reads from the first byte down (`ShiftIn`). `MatchField`
puts the kind of the field and of the value on top. `TableEntry` abstracts one
encoded value to what `MatchField` says of it (encoded, left out, refused) and
models the calls that collect the parts of an entry and those that build it.

### RegisterNumeric, RegisterData and PacketIO

A P4Data value is a tree of records whose `kind` is the branch of its oneof; types are
pointers (`Specs`) and names, so they may be shared and cyclic, as in P4Info.
The recursive calls of `normalize` are a stack (`calls`), each with the results of those it
made, and `active` is the code's map of marks. `Begin` is the call that a write makes,
`Descend` the next call for an original type or a member, `Return` a call's end with its
deferred deletion; an error ends all of them (`Fail`). `NormalizeExact` compares the result
with typing rules that know no marks: `Rule` shows a type and canonical form from those of
the members, `Forms[n]` is what n applications show, and `HasForm` applies it as often as
the depth of values and the number of specifications can ask for. In `PacketIO` a header is a list of fields and the caller's metadata a
function from names; `PacketExact` sends it, turns the list around with an unknown
field in front, and decodes it. The way back is claimed for headers whose IDs differ
(`DistinctIDs`), which P4Runtime asks of them; the code does not check it, and the instance
has a header with an ID used twice, for which the way out is checked alone.

### Resources

A behaviour is about one array as P4Info declares it. The target stores what is written
and takes a request without an index for one about all cells; an RPC may fail with or
without effect, and another controller writes too. `wrote` is a history of what callers asked
for, by call and value; what is sent for it is a message (`MeterConfig`, `Normalized`, the
counts), and what the target makes of that message is its own matter (`Stored`: a meter
without a configuration is as it was at first, one with a configuration of zeros is not).
`ResourcesExact` compares the cells with what was asked for (`Meaning`), and the answers with
the indices and values that are right for the array.

### Catalog and PipelineIndex

The heap is explicit: definitions, members and action references are objects at
addresses, the maps of the `Pipeline` and of each definition hold addresses, and a
lookup allocates copies as `clone` does. Callers write to every object they can reach
through lists and accessors. `Catalog` has no pointers: a published value, values given
to callers, and callers that change their own. `ValueSemantics` is the refinement with
the mapping that dereferences everything (`Shown`). The scalar fields of a definition
that are no keys are one field, `data`; that is what callers change.

### MessageGraph

The messages below a P4Info are a graph with nil pointers and typed nil wrappers; a
behaviour begins with any graph. `stack` holds the active calls of `visit`, each with the
children it has yet to meet, in any order, since protobuf ranges over fields and maps in
none; `seen` and `done` are the map of the code with its two values. `GraphExact` compares
the verdict with reachability, the least closed set. Every step takes a child from a
call, begins one or ends one, and each message is entered once (the clause on `count`),
so on a finite graph the search ends.

### DigestService

`Subscribe` looks the ID up and registers a closure with `Dispatch`; calling the closure
is the dispatcher's `Call` together with the filter. Lists of undeclared digests, and of
ID zero, come too.

### Replication

A group is what its ID and replicas are; a replica has the old egress field, or a
port, with backups. `Foreign` is another controller that stores any wire form.

## Runs

| Run | Instance | Properties |
|---|---|---|
| `supervisor_sends` | two Sends with deadlines, two streams, queue of 1, with `Tenure`'s history | `MastershipBacked`, `SentInItsTenure` |
| `supervisor_contract` | one Send, two graceful closes, deadlines, queue of 1 | `IInv`, `DrainedAtHalfClose`, `Implements`, `StoppedIsFinal` |
| `client_close` | Dial, one Close, one graceful close with a deadline, one Send | `Released`, `CloseReturns`, `CallsReturn`, `GraceEndsBackoff` |
| `client_primary` | Dial, one graceful close, two waiters | `NoMissedPrimary`, `WaitersReturn` |
| `events` | channels of capacity 1, one Send | `EventsTrackState`, `EventsClose` |
| `dispatch` | one stream handler, two digest subscriptions, two receive goroutines, two digests | `DispatchedOnceToAll`, `DigestsServed` |
| `table_rpc` | one Write of at most two updates, one Read, two keys | `OutcomeTrue`, `NotPrimaryUntouched`, `ReadWhole` |
| `pipeline_rpc` | one SetPipeline, one GetPipeline, two configs, every subset of actions | `FallbackJustified`, `SetOutcomeTrue`, `NotSetTrue`, `ForwardingKept` |
| `values` | election IDs with halves of three values; every pair of durations from -32 to 31, seven failures in a row; bytes of two bits, strings of up to three bytes, widths up to 6; 25 types, values nested twice; five packet headers | `OrderExact`, `NeverWraps`, `DelaySane`, `GrowsToMax`, `EncodingExact`, `PrefixExact`, `FieldExact`, `SignedExact`, `NormalizeExact`, `PacketExact` |
| `entities` | two match fields, one action with one parameter; three group IDs, one replica with one backup; counters and registers of size -1 to 2, meters of size 1, rates and counts 0 and 1 | `BuiltWellFormed`, `KeyOfBuilt`, `ReplicasRoundTrip`, `ResourcesExact` |
| `pipeline_index` | two callers, two declarations with every choice of keys, one P4Info of five kinds; every graph of three messages, every order | `IndexFaithful`, `GraphExact`, `ValueSemantics` |
| `backoff_max` | the same durations as in `values` | `UpToMax`, violated |

All pass but `backoff_max`, which checks what a document says (Findings). Each property's comment in
its module says what it means.

Bounds. A queue of one slot makes it full as soon as a second call arrives, which
is when `enqueue` blocks with the gate held. Two Sends are needed for one to be
queued or blocked while the other is being sent; a second stream lets a receive
goroutine of the first outlive it while the second is served; two graceful closes
give an owner and a caller that joins. Two waiters tell a broadcast from a
signal. Stream identities are reused once their goroutine has ended, so
reconnection is unbounded. The safety
results do not depend on the bounds: they are proved for all.

For the unary calls one call of each kind is enough, since calls share no state in
the client and the target's table or pipeline may already hold anything when they
start; a second update is what can be confused with the first, and a second
key what a Read can miss. The arithmetic instances have room for a carry, for an
overflow of the doubling and for widths on, before and after a byte's border; with durations
of six bits seven failures (`MaxFails`) double past the end from any start. Each
replica is validated, encoded and decoded by itself, so one with one backup has
every case.

A second digest subscription shares its map with the first, so a reused id shows. Two
declarations of one kind are what can collide; the code of the nine kinds differs only
in aliases, members and direct tables, and the P4Infos have one of each. Three messages
make a message that is shared, one that is in a cycle it is not the start of, and one
that is nil below either. The struct types of the register instance contain one new type
twice, one struct twice, and one struct in itself. Each element of a header or stack is
checked by itself, so one entry and two fields are enough. Indices run from -2 to the
largest size; the index check is one for all kinds of arrays, so counters and registers of
several cells stand for meters of several.

Fairness. `MainProgress` lists what the main loop does without the network: its
own branches, timers, and gRPC calls that return once their context is cancelled
(gRPC's documented behaviour). Callers, the body of `Close` and `forwardEvents`
are scheduled. Nothing is assumed of the target, the transport, handlers, readers
of events, or of contexts expiring. Weak fairness is enough because a Go `select`
with a case that stays ready, and a runnable goroutine, are eventually taken.

Deadlock is checked wherever something could wait for something; `Terminated` and
`ClientTerminated` are the only states of the session in which nothing is left to
do. In `values` and `pipeline_index` it is not checked: steps lengthen the
inputs, which ends at the bounds, a search and a normalization end with their result, and a P4Info that `New`
refuses is of no more use.

## Findings

* `backoff_max`. `docs/architecture.md:55` gives the delays as "`initial * 2^k` up to `max`".
  `run` sleeps the initial delay as it is (`supervisor.go:356`, `378`) and `nextBackoff`
  bounds only those after it, so an initial delay configured above the maximum is slept in
  full after every arbitration. `GrowsToMax` says what the delays are for every configuration.

A limit of the code that `DelaySane` states rather than hides: nothing bounds the configured
delays, and for one above 5/6 of the largest `time.Duration` (some 240 years) the sum in
`jitter` (`supervisor.go:669`) can wrap. The timer then gets a negative duration and `run`
retries without a pause. `DelaySane` says that this is the only way in which a sleep differs
from what was asked for by more than a fifth.

## Proofs

Every safety invariant of the runs, every action property and both
refinements are proved for all values of the constants: any sets of calls, streams,
subscriptions, entries, configs, fields, callers and P4Info messages, any capacity and
size, bytes of any number of bits, byte strings of any length, fields of any width, and
register values of any depth against any graph of types.

| Module | Theorems |
|---|---|
| `SupervisorProofs` | `Invariant` (`IInv` is inductive), and from it `TypeCorrect`, `MastershipBackedHolds`, `Drained`, `TenureKept`, `StoppedForGood`; `Refinement` (the supervisor implements `StreamSession`) |
| `ClientProofs` | `ClientDrivesSupervisor`, by which every theorem about the supervisor holds inside the client, `ClientReleased`, `NoPrimaryMissed`, `ClientTypes`; `EventsTrack` |
| `DispatchProofs` | `DispatchExact`, `RegistrationExact`, `StreamHandlersFirst`, `DispatchTypes`; `DigestsExact` |
| `TableRPCProofs` | `OutcomeIsTrue`, `NotPrimaryIsUntouched`, `ReadIsWhole` |
| `PipelineRPCProofs` | `FallbackIsJustified`, `SetOutcomeIsTrue`, `NotSetIsTrue`, `ForwardingIsKept` |
| `EntityProofs` | `ReplicasSurvive`, `ResourcesAreExact`, `BuiltIsWellFormed`, `KeyIsOfBuilt` |
| `PipelineIndexProofs` | `IndexIsFaithful`; `PipelineIsAValue` (the `Pipeline` implements `Catalog`); `GraphCorrect`, from `GraphInductive` |
| `NumericProofs` | `OrderCorrect`, `RaisingNeverWraps`, for halves of every width; `DelaysSane`, `DelaysGrow`, for every integer width, every pair of configured durations and any number of failures; `EncodingCorrect`, `PrefixCorrect`, `FieldCorrect`, `SignedCorrect`, `PacketCorrect`; `NormalizeCorrect`, from `DataInductive` |

Assumptions, each evaluated by TLC on its instance. `SupervisorAssumption` (Sends and
graceful closes are different calls, the queue has a slot), `ClientAssumption`,
`DispatchAssumption`, `TableAssumption` and `PipelineRPC`'s `PipelineAssumption` (the same
for their calls), `EventsAssumption` (a channel has a slot), `DigestAssumption` (digest IDs
are numbers, zero among them), `HalfAssumption` (a half has a value), `BackoffAssumption`
(New's default delays are positive durations; of the configured ones nothing is assumed),
`ReplicationAssumption` (a nil and an empty
port are no ports), `ResourcesAssumption` (a missing index is no number, a missing message no message), `EntryAssumption`
(a table has finitely many match fields, whose IDs differ), `CodecAssumption` (a byte has a
bit), `PacketAssumption` (headers are lists of fields and metadata are byte strings),
`RegisterAssumption` (a P4Info has finitely many type specifications, whose pointers and
names lead to declarations of the right shape, and values are trees of depth `MaxDepth`),
`GraphAssumption` (the messages are finitely many and nil is none), and `PipelineIndex`'s
`PipelineAssumption` (what `Infos` holds are messages: lists of declarations whose keys are
among the keys lookups may try, and no caller is the `Pipeline`). It does not ask that keys
differ: `IndexIsFaithful` says what is found where they collide, and more where they do not.

### The arguments

The supervisor. None of the safety properties is inductive. The
invariant adds: which mastership state goes with each point of the main loop
(`LoopInv`); that the gate has one holder and that a Send holding it has not
seen draining (`GateInv`); that what is queued is queued once, unanswered,
unsent, with the half-close last (`QueueInv`), which needs the gate; what the
result of a request says about `wire` (`ResultInv`), which needs that a queued
request has no result; and that a call whose message may still be sent has
returned nothing but its own context's error (`ReturnInv`), which makes the
abstract `Transmit` possible.

Tenures (`TenureInv`). A call whose token is current has seen one state only, the present one.
That is inductive because a token is captured in a step that leaves the state alone, and every
step that changes the state leaves no token current (`TokenStep`, which goes through every
action). With it, the comparison of channels in `serve` tells what the history says.

Events. `EventsTrackState` is inductive with the types and bounds of the channels, once
`OnlySetState` is known: a step of the supervisor that is not one of the callers of
`setState` leaves the state alone. That lemma goes through every action of the supervisor
and needs `IInv`; it is what a publication missing from a new code path would break.

Unary calls (`TableInv`, `PipelineInv`). What a call returned says nothing by itself of
what the target did: a request may still be on its way after its call returned. The
invariants say which answer each result goes back to, and that a result which claims
something of the target is only there once the answer is, after which the target does
nothing more for the call (`ResultInv`, `SetInv`); what the answer says of the verdicts
(`AnswerInv`); how far `SetPipeline` is with its plan (`PlanInv`), from which the fallback
is justified and `ForwardingKept` follows step by step; and that what a `Read` has gathered
and what is left of the stream make up the table answered with (`ReadInv`). `CallsApart`
reduces each step to the one call that takes it.

Entities. `ReplicationInv` says that under an ID which is still the client's the target
holds the encoding of valid replicas; the round trips are `EncodeDecode` and `DecodeEncode`,
one replica at a time. `ResourcesExact` is inductive with the domains of its histories, given
that the code's checks are the right ones (`ValidateRight`, and `ProtoSettable`, an
equivalence) and that what is sent means what was asked (`WriteStep`, `ResetStep`).
For table entries the invariant has types only, since `Build` is a function of the
builder's fields; the work is `OrderExists`, that any finite set of fields can be listed in
the order of their IDs, without which the `CHOOSE` that stands for the sort would mean
nothing. It is proved by a least counterexample.

Pipeline. `IndexInv` says that the index and the Pipeline's objects stay as `New` made them
(`Published`) and that a caller reaches nothing but objects allocated for it, each through
one definition and one place in it (`Own`): the accessors by name and ID of a copy lead
to members of the copy's own list. Without the last part a write through an accessor could
reach the `Pipeline`. `CopyShows` (a copy is the caller's own and shows what the original
shows), `OwnKept` (a definition whose objects are left alone shows the same) and
`EditShows` (a write shows in one place of one definition) then give both theorems:
`IndexFaithful` from `DefinitionDeclares`, `KeysFound` and `OneWriter`, and each step of the refinement.
A lookup is `Find` or `Miss`, `Tables` is `List`, a caller's write is `EditDef`,
`EditMember` or `EditRef`, and `New` is `Publish`; a failing `New` and a loader that changes
its message are stutters.

The arithmetic. `HighWins` (a larger high half outweighs any low half) carries
the order of election IDs. `NextIsDouble` and `JitterInRange` say what an overflow does, and
`DelayDoubles` that doubling and cutting the delay after k failures gives the one after k + 1;
then `DelaySane` and `GrowsToMax` are inductive together. For the digests the filters of the subscriptions a message was taken with are
fixed (`ClosureInv`): a closure holds the ID its name had, which is not zero, and only
subscriptions not yet registered can still be given one.

Byte strings. The provers cannot use the induction rules of the library, so the
inductions go by a least counterexample: the set of numbers that fail a claim, if it had
an element, would have a least one, whose predecessor holds and contradicts it. The same
way a recursive function is shown to satisfy its equation. A string is read place by
place: what `Places` says of the last k bytes, that it is below `Pow2[ByteBits * k]`, and
that equal numbers in canonical strings come from equal strings. From that,

* `EncodingCorrect`: stripping zeros keeps the number, and a number fits the width exactly
  when its string is shorter than the width's, or as long with a top byte that fits what
  is left of the width;
* `PrefixCorrect`: clearing the low bits of a string rounds its number down to a multiple
  of a power of two, the byte on the border included; a mask is all ones rounded down;
* `FieldCorrect`: for ternary fields each bit of a string is a bit of one of its bytes, so
  the conjunction of strings aligned at their ends is that of their numbers bit by bit;
  for ranges the first byte in which two strings differ decides which number is larger;
* `SignedCorrect`: a leading byte that repeats the sign adds nothing to the signed number
  (`StripSign`), and without such a byte the top byte says how many bits are needed, on
  both of the asymmetric ends of the range;
* `PacketCorrect`: in the list turned around the last entry of an ID is the only one.

Register data (`DataInv`). The marks are the specifications of the calls on the stack, which
are all different, so there are no more calls than specifications (`MarksOK`); each call was
made by the one before it (`ChainOK`); and every result given so far is the form of its
argument and a form of itself, shown in as many rule applications as the callers above
leave (`Settled`, `OutsOK`). When a call returns, `ReturnExact` goes through the kinds of
types: numbers by `SignedCorrect`'s lemmas, headers, unions and stacks element by element,
structs from the results of their members. When a call fails, nothing has the type that was
asked for, because showing a caller's type takes showing its callee's in one step less
(`Lower`), down the whole stack (`Sunk`). The hard case is the refusal of a specification
that is met again: two values of one specification whose types can be shown at all are shown
in the same number of steps (`SameHeight`), though their numbers differ, and a value inside
of another of its own specification would take fewer (`NoLoop`). So no value has a type that
contains itself and the marks refuse nothing that should be accepted.

Message graphs (`GraphInv`). A message whose visit ended has all its children among those
whose visits ended (`DoneOK`), so what it reaches is among them, and it is not, being
active until then: it does not contain itself. A message on the stack is reached from every
one below it (`Below`), so meeting one again is a cycle; and the children that an active
visit has met are done, but for the one being visited (`Met`). Begun visits are on the stack
or done, which makes a message that is not done but seen an active one. At the end the
root is done, so everything reachable is, and sound.

The invariants of the supervisor, the RPCs, the entities and the pipeline were checked with
TLC on the instances of the runs before they were proved; `IInv` is part of a run.

### Only model-checked

* The liveness properties `CloseReturns`, `CallsReturn`, `GraceEndsBackoff`,
  `WaitersReturn` and `EventsClose`: fairness and ENABLED are beyond the prover.

## Observed, not claimed

* A `CloseGracefully` call that read `grace` as nil just before the first caller
  set it can reach its `select` when both the gate is free and `stopped` is
  closed, and then returns `ErrStreamClosed` although the graceful close
  succeeded. No document promises otherwise.
* When a request's context expires while it is being sent, `failPending` gives
  that context's error to the other queued callers.
* A stream that is lost after a successful arbitration is reconnected without a delay.
* An LPM value with prefix length 0, and a ternary value with an all-zero mask, are
  left out of the entry before their width is checked.

## Not modelled, and the plan

Every part of the SDK with state or with rules of its own has its module. Left out:

* text: parsing of MAC, IP and hexadecimal literals in the codec, `Load` and `LoadText`
  of the pipeline, error wording. A model of them would spell the code out character by
  character;
* `p4ctl` and the examples: flags and printing around calls that are modelled where they
  are defined;
* client options (assignments before anything runs, except the backoff, which is
  modelled), error sentinels (constants), the mock target (test support: the models'
  targets are less restricted);
* `Builder.Metadata` and `Equals`, payloads, unknown protobuf fields: carried along
  unread;
* `digest.Subscriber.Ack`: an ID check in front of a stream request like any other.

What remains. New parts join the run of the modules they compose with, and deeper
properties replace shallower ones.
