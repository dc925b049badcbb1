# go-smpp in TLA+

Specifications of the SMPP stack in this repository: the concurrency of a session, of the
client and of the server, the codec, and the algorithms on the wire. TLC checks each module on
small instances; TLAPS proves nineteen properties of the request path, the responder, the client,
the server, the framer and the frame pool for every value of their constants. `PROJECT.json` lists
the runs, the source lines behind each definition, the hazards and the theorems.

## 1. The system

One SMPP **session** (`session/`) sits on a connection and is run by four kinds of goroutine.

* `rxLoop` reads octets, frames them (`codec.Framer`) and handles each PDU: a response goes to
  the pending request it answers, a request goes to the application's handler.
* `txLoop` takes items from the bounded channel `s.tx`, gathers them into batches, writes them
  and commits the lifecycle changes they stand for.
* `deadlines.run` keeps one heap of deadlines: the response deadline of every request, and the
  session-init, inactivity and enquire_link deadlines.
* Callers are inside `request`, `SendOneWay`, `RespondDeferred` or `Close`.

They share the lifecycle state machine (one mutex), the window of outstanding requests (a
semaphore with its own mutex), the pending table, the map of deferred replies and
`terminate`, which any of them may run and which only the first one executes.

A **client** (`client/`) owns one replaceable session and a lifecycle goroutine that redials,
rebinds and publishes. A **server** (`server/`) owns a set of sessions, an accept loop with
two limits, and the throttle for failed binds. **message** and **encoding** represent and split texts.

| Part | State | Operations that change it | Hard behaviour |
| --- | --- | --- | --- |
| Lifecycle machine | state, pending binds, unbinds in progress | Begin/Complete/Cancel Outbound and Inbound, Close | both sides change it; a reservation outlives a queue and a write |
| Outbound requests | window, sequence counter, pending table, TX queue, batch, deadlines | `request`, `SendOneWay`, `txLoop`, `handleResponse`, `expireRequest`, `terminate` | response, timeout, cancellation and loss race for one request; sequence numbers are reused |
| Inbound requests | reservation, response items, deferred replies | `handleRequest`, `queueResponse`, `txLoop`, `RespondDeferred`, `AbandonDeferredResponse` | pipelined peers, panicking callbacks, unbinds that cross, late answers |
| Supervision | three deadlines, two activity stamps, probes | `fire*Deadline`, `tryEnquireLink`, `noteInboundAt`, `noteActivityAt` | a decision is taken on a state that has moved on; probes share the window |
| Wire path | frame pool, TX queue, batch, read buffer | `get`, `put`, `EncodePDU`, `txLoop`, `DecodePDU`, `ownDecodedPDU` | a buffer is given back on a dozen ways out; two codecs per command must agree |
| Framing | pending buffer, expected length | `Feed`, `emit`, `fail`, `Finalize` | TCP cuts anywhere; the stream ends anywhere |
| Client | current session, bind profile, errors, changed channel | bind, `WaitConnected`, `Close`, lifecycle goroutine | loss during a bind, close during a publish, wakeups |
| Server | sessions, listener | accept loop, watcher, `Outbind`, `Close` | a limit checked before the session exists; close between two steps |
| Bind throttle | failures and lockouts per address, counters | `AllowBind`, `RecordBind`, eviction | stale clocks, a full table, window boundaries |
| Long messages | none (pure) | `SplitText`, headers, packing, parsing, joining | pairs cut in two, parts lost, repeated, reordered, mixed |

## 2. Modules

| Module | Models | Correspondence |
| --- | --- | --- |
| `StateMachine` | `session/state.go`, `state_cancel.go` | A machine is a record and a method an operator from machine to machine, since every method holds the mutex. |
| `RequestPath` (extends `StateMachine`) | `request`, `SendOneWay`, window, pending table, `txLoop`, response handling, response deadlines, `terminate` | One program counter per goroutine; a step is one critical section, channel operation or atomic. |
| `RequestService` | what the outbound half promises its callers | Abstract: a call is outside, held in the window, declined or settled, and completed once. `RequestPath` implements it (`ImplementsService`). |
| `Responder` (extends `StateMachine`) | `handleRequest`, `queueResponse`, the response half of `txLoop`, deferred replies, `terminate` | As `RequestPath`; the outbound half is reduced to what it does to the shared machine. |
| `Keepalive` | `liveness.go`, the deadline goroutine, and of the rest of the session the window and the lifecycle state | Time in ticks, kept as ages and remaining times. A bind or an unbind of our own is a request in the window like any other; an unbind that fails is rolled back. |
| `Framer` | `codec/framer.go` and the read loop of `rxLoop` | An octet is its position; `declared[p]` is the number a length field at `p` would spell. |
| `Codec` | the typed encoders and decoders of every command, `EncodePDU`, `DecodePDU`, the command registry, the size hints | An encoder and a decoder are two lists of steps, each written from its own Go function; nothing in the module makes them agree. |
| `WirePath` (extends `Codec`) | `pool.go`, `own.go`, and the buffers' way through `request`, `SendOneWay`, `queueResponse`, `txLoop` and the peer's `processFrame` | Composition of sender, pool, TX loop, wire and receiving session around the codec. A script says who sends which PDUs. |
| `Client` | `client/client.go` | A session is open, bound or dead; a critical section of `c.mu` is one step. |
| `Server` | `server/server.go`, `unbound.go` | A connection stands for its session. |
| `BindGuard` | `dispatchHandler.Handle` for binds, `ratelimit.go` | The clock is read before the lock is taken, as in the code. |
| `Segmentation` | `message/`, `encoding/` | Characters are classes, data is in septets, code units or octets. |
| `RequestProofs`, `RequestWindowProofs`, `RequestServiceProofs`, `ResponderProofs`, `ClientProofs`, `ServerProofs`, `FramerProofs`, `WirePathProofs` | | Theorems, section 5. |

`MC*.tla` give the sets of model values; `MC*.cfg` are the runs.

### What is abstracted, and how

* `terminate` is a thread of its own (`TermStep`) that any goroutine may start. In the code the
  goroutine that wins the `sync.Once` runs it; the model allows the same orders and more, since
  that goroutine may go on before terminate has finished.
* The completion of a request, from `finish` to the send on its channel, is split where another
  goroutine can see a difference. The send never blocks (capacity one) and is part of the last step.
* "Due" is a nondeterministic choice in `RequestPath`; `Keepalive` counts time. The response timeout
  is assumed to be enabled. The heap, the timer and the wake channel of `deadline.go` are in both
  modules the set of what is due, so a second push of the same item would not show.
* `MarkOutbound` has no caller outside tests; the `Actor`/`AllowedStates` policy of vendor commands
  is left out; the response rows of `standardRules` are never consulted inside the package.
* In `Client`, `closed` also stands for the cancelled context: both are set in one critical section.
* In `Server`, `sessions` also stands for `byHost`: both change together under `s.mu`.
* In `BindGuard` the limiter is the built-in one; `RecordBind` and the increment of the failure
  counter next to it are one step.
* In `Framer` the capacity of the pending buffer is what the code asks for; the rounding of Go's
  `append` is not modelled.
* In `Keepalive` what is due or runnable runs before the next tick. The documented times presume
  this, and a scheduler that starves a goroutine voids them. Configuration values are those after
  defaulting (0 is disabled). Whoever decides to end the session is in `ending` until `terminate` runs,
  so what happens in between is covered.
* In `Client` a policy is one `normalizeReconnect` can return; fractions are integers, the jitter in
  hundredths, and the code's millisecond is a constant.
* In `Codec` a string is its octets and a body a record of its Go type and its fields. A command
  length is below 65536, and the check that a TLV value fits 16 bits is present and never fails.
* In `WirePath` a buffer that is neither in the pool nor in use is free to be allocated; Go's
  `sync.Pool` may also drop a buffer at any time, which `get` allows by always offering a new one.
  A response's body refers to the read buffer until `ownDecodedPDU` has copied it, field by field; a
  field it does not copy, or a type it does not list, loses its value with the next frame. Lifecycle,
  window and deadlines are left to `RequestPath`.
* In `Segmentation` the limits are scaled down; an assumption evaluated by TLC ties the real limits
  (160/153/152 septets, 70/67/66 code units, 140/134/133 octets) to the 140 octets of a message.
  The receiver that collects parts is external: the library offers the parsing and the joining.

## 3. What is checked

| Run | Question | Properties | Bounds |
| --- | --- | --- | --- |
| `request_path` | Two calls of either role against every race | `ExactlyOnce`, `WindowAccounting`, `ReservationOwnership`, `DeadlinesExact`, `OneWayUnambiguous`, `NeverReopens` | five commands, window, table and queue 1, batch 2, two sequence numbers |
| `request_liveness` | Do callers return, and is the path the service it should be | `PendingCallReturns`, `WaiterIsServed`, `ImplementsService` | two calls, window 1 |
| `responder` | A peer that pipelines binds, messages and unbinds in any order, next to our own outbind and unbind | `AcceptedBindIsBound`, `BindReservationHeld`, `UnboundInProgress`, `UnbindIsLast` | three PDUs, queue 1, batch 2, a bind encoder that may panic |
| `deferred_replies` | Two goroutines answer and abandon | `NoExtraResponse`, `DeferredAccounting`, `RequestAnswered` | two PDUs with one number, table of 1, two callers |
| `client` | Binders, a waiter and Close against the reconnect loop | `NoOrphan`, `PublishedIsRebound`, `ReconnectingIsHonest`, `CloseCompletes`, `WaiterReturns` | three sessions, two binders, three policies |
| `server` | Limits and Close | `SessionLimit`, `UnboundLimit`, `LiveIsOwned`, `CloseCompletes` | four connections, two hosts, limits 2 and 1 |
| `bind_throttle` | The throttle with stale clocks | `OvershootBounded`, `GuessBudget` | two loops, three hosts, table of 2, six binds, 5 ticks |
| `framing` | Every cut of every stream | `FramesTile`, `NothingHeldBack`, `BufferBounded`, `CleanEnd` | up to 24 octets, PDUs of 3 to 9 octets |
| `supervision` | The documented times | `DroppedInTime`, `StalledPeerCut`, `ProbeSparesBound` | window 2, three settings of the timeouts, time unbounded |
| `segmentation` | Splitting and joining | `PartsWhole`, `JoinedWasSent`, `CompleteSetJoins` | two messages, three parts |
| `wire_path` | Does every PDU arrive as it was sent | `DeliveredAsSent`, `BuffersExclusive`, `Canonical` | two senders, four buffers, queue 2, batch 2, lists of up to 256 entries |
| `late_registration` | Does every registered call return (it does not, see below) | `RegisteredCallReturns` | two calls, window 1 |

The type invariants of `Responder`, `Client`, `Server`, `BindGuard`, `Keepalive` and `Segmentation` are
conjuncts of one of their properties; those of `RequestPath` and `Framer` are proved.

Why the bounds are enough. Two calls are the smallest number with a winner and a loser of every
race on a window of one. Each call draws one of two sequence numbers, so the counter wraps in no run: that
`ExactlyOnce` and `WindowAccounting` survive the reuse of a number rests on the proofs, which hold for every
`MaxSequence`. Three PDUs are two binds whose
answers overlap and a request that meets the result. Three sessions are the first one, its replacement and the
replacement of that; the policies have a `MaxBackoff` above and below the millisecond, and no reconnect.
In `bind_throttle` three addresses compete for two places, so the one to evict is a choice. In `framing` a read may be longer than a PDU, so it may hold several, and an
invalid length occurs in each position. In
`supervision` every age stops counting one past the bound it is compared with, so no behaviour is cut off;
of the settings one has probes that outlast their interval, one an inactivity timeout shorter than a bind
may take, and one both kinds of deadline. In
`wire_path` one field of one PDU is varied at a time, over the empty, longest and one-too-long
string, an embedded zero, 254 and 255 octets of text, empty, mixed and malformed destination lists,
lists of 254 and 255 destinations and of 255 and 256 unsuccessful ones, and six lists of TLVs, for every command and status; a second sender answers through the same pool
and queue; the peer has the same, an SMPP 3.4, a strict or a vendor's registry; bodies
of another implementation are the good ones cut anywhere or extended, and all short ones; one script has cancellations, full queues and failed writes. The pool's
capacities are scaled to 32 and 80 octets so that buffers are kept, replaced and dropped. `CHECK_DEADLOCK FALSE` is set because a
closed session, client or server stops, and the bounded calls, binds and streams end.

Symmetry is declared on sets whose members the specification does not tell apart, and only in runs
of safety properties; liveness runs declare none.

### Where the code and what is said of it differ

`late_registration` ends in a violation. It states what `README.md:93` says ("exactly-once terminal
request completion") and shows that a request which enters the pending table after `failAll` has
emptied it is never completed: its caller waits in `waitCompleted`, which looks at no context, and its
slot is lost. `PendingCallReturns` therefore speaks of the calls registered before `failAll`.

These were met while modelling. The properties state what the code does guarantee, with the exception
spelled out, so each run shows that there is no other exception:

* `CompleteInbound` matches by command (`state.go:362`): the queued refusal of an early bind clears the
  reservation of one sent before that refusal was out, whose acceptance then leaves the session unbound.
  `AcceptedBindIsBound` excepts exactly these binds (`overlapped`).
* A panicking encoder of a bind response leaves the reservation behind (`rx.go:211`), as does a response
  action a bind may not have (`rx.go:190`, where the session ends). `BindReservationHeld` names that one
  reservation (`stranded`); answering the next bind of its kind clears it.
* A deferred reply may be registered after `terminate` discarded them (`inbound_reply.go:37`, against
  `docs/SMPP_SIM_INTEGRATION_REVIEW.md:34`). `DeferredAccounting` says that nothing else is in the map then,
  and that the map's size is kept also then.
* A session lost before the only bind has stored its profile is replaced by an unbound one
  (`client.go:318`). `PublishedIsRebound` excepts a replacement dialled in that moment.
* With jitter the delay is at least a millisecond, also above a smaller `MaxBackoff` (`client.go:573`,
  against the comment at `client.go:563`). `ReconnectingIsHonest` allows that millisecond and nothing else.
* An outbind that fails returns a session to Open past the per-address limit (`server.go:288` says the
  count can only fall). `UnboundLimit` leaves out the sessions whose place was taken meanwhile (`over`).
* A full table drops a lockout before its time (`ratelimit.go:205`). `OvershootBounded` says for whom: every
  other place is held by an address that failed no earlier.
* Failures on both sides of a restart of the fixed window trigger no lockout (`ratelimit.go:193`).
  `GuessBudget` is twice the allowance.
* A full window makes the probe skip, and the stalled peer outlives the documented time
  (`liveness.go:156`) by at most one response timeout, as `StalledPeerCut` says.
* The inactivity deadline starts again when it finds the session not bound (`liveness.go:100`), so a slow
  bind or an unbind that is rolled back postpones it. `DroppedInTime` counts from the last PDU or from the
  moment the session became bound, `docs/TIMEOUTS_AND_LIVENESS.md` from the last PDU only.
* The init deadline acts on a state it has read before (`liveness.go:77`) and may end a session that has
  bound since; `DroppedInTime` says that this is the same instant.
* A probe decided on before an unbind began is refused by the state machine, and that error ends the
  session although the unbind may have failed (`liveness.go:156`). `ProbeSparesBound` names this case.
* A cancelled request completes by number (`session.go:503`). Were all 2^31-1 numbers drawn between two steps
  of one call, it would complete another call's entry. `ReservationOwnership` presumes more numbers than
  calls.
* `EncodePDU` accepts two things `DecodePDU` refuses: a success response without the mandatory fields
  of its command, and a bind response with a malformed `sc_interface_version`. `Readable` excludes
  them from `DeliveredAsSent`.

## 4. Fairness

* `RequestPath`: weak fairness of each call that is past its start, of `txLoop`, of the handling of a
  response, of the deadline goroutine and of `terminate`. The Go scheduler runs runnable goroutines; a
  conn whose write blocks is cut by `WriteTimeout`; a due deadline stays due. Nothing is assumed of
  new calls, of cancellation, of the peer or of the reader.
* `Responder`: weak fairness of the handling of a read PDU (the handler returns), `txLoop` and
  `terminate`. Nothing is assumed of the peer or of deferred answers.
* `Client`: weak fairness of the lifecycle goroutine, Close and the waiters' wakeups; strong fairness of
  taking the cancelled context in the backoff wait, since Go's `select` chooses uniformly among the ready cases.
* `Server`: weak fairness of the accept loop past Accept, of Accept failing on a closed listener, of
  Close's steps and of the watchers. A peer owes nothing.
* `Keepalive` states its times as invariants: a tick waits for what is due.

## 5. What is proved

The assumptions are the ones TLC evaluates in the runs (`RequestPathAssumption`,
`ResponderAssumption`, `ClientAssumption`, `ServerAssumption`, `FramerAssumption`,
`ScriptsAssumption`, `BuffersAssumption`): sizes are natural numbers, sets that are counted are finite.

`RequestProofs`

* **`TypeCorrect`**: `TypeOK` is not inductive: a step that reads the head of a queue or an entry of the
  table needs to know that what it finds is a call with a sequence number. `TypeInv` adds `Shape`, one
  conjunct per goroutine.
* **`SessionNeverReopens`**: `Spec => NeverReopens`, an action property. A late bind response would raise
  a closed machine, were its reservation still there; `Clear` says that a bind is reserved only while the
  session is unbound.
* **`CompletedOnce`**: `ExactlyOnce`. A goroutine that has taken an entry out of the table *claims* it
  until it has sent the result. `Once` says that an entry in the table is unclaimed and not completed, that
  a claimed one is not completed, and that no two goroutines (reader, deadline goroutine, `failAll`, a
  cancelling caller) claim the same one: the argument behind "delete under the lock, then complete".

`RequestWindowProofs`

* **`WindowExact`**: `WindowAccounting`. `Slots` says that the tokens are as many as the calls that own a
  slot, and which calls those are. A step keeps the owners, adds one or removes one.
* **`PendingHasRoom`**: a call with a place in the window finds room in the pending table, so
  `ErrPendingLimit` is never returned: every entry's call owns a slot, and the inserting one does too.

`RequestServiceProofs`

* **`PathImplementsService`**: `Spec => ImplementsService`. Each action of `RequestPath` moves at most one
  call to the next phase or completes one; `Once` and `Slots` give the abstract guards.

`ResponderProofs`

* **`NothingAfterUnbind`**: `UnbindIsLast`. `Ended` says that an accepted unbind is the last of its batch,
  and that `txLoop` has stopped once it is on the wire, also after a write that failed half-way.
* **`DeferredExact`**: `DeferredAccounting`, before and after `terminate`. The counters alone say nothing of who may still change them.
  `Owned` says that a caller between its claim and its settlement owns the busy slot of its number, alone.

`ClientProofs`

* **`NoSessionOrphaned`**: `NoOrphan`. The lifecycle goroutine overwrites `current` and its candidate;
  `Placed` says, for each point of its loop, that what it overwrites is dead or nil.
* **`ReplacementIsRebound`**: `PublishedIsRebound`. The profile is read after the dial and is never removed.
* **`ReconnectingIsTrue`**: `ReconnectingIsHonest`, for every policy `normalizeReconnect` can return.

`ServerProofs`

* **`SessionsBounded`**, **`UnboundBounded`**, **`LiveSessionsOwned`**: the limits are looked at before the
  session exists and used when it is inserted. `Room` is what makes that right: between the two nobody
  else inserts, and the counted sessions of the address only become fewer, a failed outbind apart. `Places` says where the
  connection in the accept loop's hands is.

`FramerProofs`

* **`FramesAreThePDUs`**, **`FeedIsComplete`**, **`BufferStaysBounded`**, **`EndIsJudgedRight`** follow from one
  invariant, `FInv`. Its conjunct `Place` relates the framer's two positions, in the data and in the
  pending buffer, to the end of the last frame at each point of `Feed`.

`WirePathProofs`

* **`OneOwnerPerBuffer`**: `BuffersExclusive`, for any senders, scripts, queue, batch and capacities. `Shape`
  says which program counters have a buffer or an item at hand; each step hands a buffer from one owner
  to the next.

`ExactlyOnce` and `WindowAccounting` concern completions and slots; `late_registration` is no
counterexample to them, since there a call is completed zero times and keeps its slot.

Only model-checked: every liveness property (fairness and `ENABLED` are outside the prover);
`DeliveredAsSent` and `Canonical` (what a recursive function computes for every input needs induction
over data); the properties of `Segmentation` (recursive definitions), `BindGuard` and `Keepalive`;
and of the remaining modules `ReservationOwnership`, `DeadlinesExact`, `OneWayUnambiguous`,
`AcceptedBindIsBound`, `BindReservationHeld`, `UnboundInProgress` and `NoExtraResponse`.

## 6. Not modelled

* The TLV half of the registry (`RegisterTLV`, `ResolveTLV`, `ParseTLVs`): no code of the session looks a
  TLV up. The builder's mutex: a registry is frozen before a session uses it.
* Version and capability negotiation: one atomic that lets a 5.0 command through or refuses it before
  it is sent; nothing else of the session depends on it.
* Delivery receipts: a parser of free text whose cases are the wording, which the models abstract away.
* The per-command methods of session and client: a call of `request` or `SendOneWay` and a type assertion.
* Observability: counters, events and traces that nothing in the session reads back.
* Transport: thin wrappers over `net` and `crypto/tls`; the models take a connection as a stream that
  delivers octets in order until it fails.
* Protocol definitions: types, constants and predicates; what the models need of them is in the modules that use it.
* Of the server's dispatch, the `submit_sm` branch, which calls the application and keeps no state; of the
  panic wrappers, those around observers and loggers, which change nothing but a log.
* The simulator and the examples: programs that use the library.

## 7. Running

In this directory: `tlc -workers 2 -config MCFramer.cfg MCFramer` for a run, `tlapm FramerProofs.tla` for
a proof module. `RequestProofs`, `RequestWindowProofs`, `ResponderProofs` and `WirePathProofs` take several
minutes each from nothing, the others about one.
