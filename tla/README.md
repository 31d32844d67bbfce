# Verification of Tee

Tee is a gRPC service that keeps a causal graph of hypotheses for several
agents. Agents merge hypotheses into one main graph (the Join phase) and
eliminate hypotheses per incident with tombstones (the Meet phase); the live
view of an incident is the graph minus its tombstones. This directory holds
TLA+ modules that model the service as it is in `src/`, the configurations
that check them with TLC, and proofs checked by TLAPS.

Paths below are relative to the root of the repository (`src/service.rs` is
the Rust file of that name); `memory.rs` is `src/store/memory.rs`.

## The system

| Part | State | Operations | What makes it correct |
|---|---|---|---|
| Handlers, `src/service.rs` | none of their own; a handler's locals | the eight methods of service `Tee` | a request is validated before the lock; an error maps to a status; a call withdrawn while it waits has no effect |
| In-memory store, `src/store/memory.rs` | `InnerState`: `nodes`, `edges`, `incidents`, behind one `tokio::sync::RwLock` | `merge_hypothesis`, `create_incident`, `merge_node_tombstones`, `merge_edge_tombstones`, four reads | a call works as if alone; nothing stored is ever lost or weakened; results are true and stay true; a repetition changes nothing |
| Validation, `src/schema/validation.rs` | none | one check per request message | what passes keeps the stored graph well formed |
| Conversions, `src/proto_convert.rs` | none | messages to domain values and back | numbers outside an enum are refused; equal provenance entries of one message collapse into one |
| Lattices, `src/domain/*.rs` | none | `merge`, `has_conflict`, `conflict_field` | the first value stays, conflicts show, provenance only grows, timestamps are kept |
| Lock (tokio, external) | holders and waiters | `read`, `write`, release, removal of a cancelled waiter | writers exclude everybody; waiters are served in order of arrival |
| `main.rs`, `config.rs`, `build.rs` | none | start the server with an empty store | a restart loses the state, at any moment |
| `domain/graph.rs` | none | `MapUnion` merges of whole graphs | the store is the join of the proposals where they agree |
| CMBS and the agents | outside the repository; CMBS: what it has learnt since it started | call Tee, give up, repeat calls; CMBS recovers after a crash | nothing acknowledged is forgotten, nothing eliminated comes back, eliminations add up |
| Neo4j store | described in `README.md`, absent from the code | - | - |

How the parts interact. tonic runs each request as a task. The task validates
the message (no await), then awaits the lock (the only await in a handler),
then works through its request without awaiting, and drops the guard when the
method returns. Tasks share nothing but the store. A client that goes away
makes tonic drop the handler's future, which can happen only at the await.

What is hard:

- several tasks on one lock: exclusion, fairness of the queue, cancellation in
  the queue;
- loops that stop in the middle: validation refuses the enum number 0 only, so
  an unknown number is found by the conversion after earlier items are stored;
- requests that name one identity several times, or contradict the store;
- answers that are lost, so that requests are repeated, perhaps after other
  clients have written;
- two rules for equal provenance entries: `collect()` keeps the last entry of a
  message, `SetUnion::merge` keeps the one stored first;
- tombstones that come before what they name;
- the order of the calls: first-write-wins is not commutative, all the rest has
  to be;
- clients that crash, give up on calls that Tee still serves, and piece the
  state of an incident together from two reads;
- result ids that are text.

`PROJECT.json` lists these as hazards, each with its line and with the
properties that watch over it.

## The modules

| Module | Models | Correspondence |
|---|---|---|
| `TeeDomain` | `src/domain/*.rs`, `src/proto_convert.rs` | A `BTreeMap` is a function on its keys. A `BTreeSet<Provenance>` is a function from (source, trigger) to the timestamp, because equality ignores the timestamp. `Top` is `Conflict(None)`. |
| `TeeSchema` | `proto/tee.proto`, `src/schema/validation.rs` | One record set per request message; enum fields are integers, as on the wire; `Valid` is the verdict of the validation function of the request's method. |
| `TeeStore` | `InnerState`, the read methods' filters, the classification of a tombstone | `LiveNodes`, `LiveEdges`, `NodesRead`, `EdgesRead`, `Marking`. |
| `TeeService` | `service.rs`, the methods of `memory.rs`, the lock | Below. |
| `TeeBatch` | reference definition of one whole request | `After`, `StatusOf`, `ReportOf`, `ViewOf`: functions of the store and the request, defined without the loops (first proposer of an id, items that agree with it, ...). |
| `TeeAtomic` | what callers may assume | Every call is served in one step, `Serve`, by the functions of `TeeBatch`. |
| `TeeCRDT` | what the documents promise of the state | Nodes, edges, incidents and tombstones only enter; a node keeps its type and label, a confirmed node stays confirmed, a recorded timestamp stays. |
| `TeeHistory` | `TeeService` with a history variable | `committed`, the store as of the last moment when no write was under way, on which the refinement of `TeeAtomic` is stated. |
| `TeeConvergence` | the order of the calls; `domain/graph.rs` | Several replays of Tee serve the same requests in orders of their own. `store[p]` is the store, `join[p]` the `NodeMap` and `EdgeMap` of all proposals, `told[p]` what callers were answered: for each node item of each request, accepted or conflict. |
| `TeeRecovery` | CMBS as a client, beside agents, on top of `TeeAtomic` | Below. |
| `TeeRestart` | restarts of the process, `main.rs` | `Restart`: a new, empty store, the calls in flight are gone. |
| `TeeEdgeId` | the text ids of results, `memory.rs:117` | Names are sequences of characters, `EdgeId` is the `format!`. |
| `MCTee`, `MCTee...` | instances for TLC | Requests and constants. |
| `TeeDomain_proofs`, `TeeService_proofs`, `TeeGrowth_proofs`, `TeeBatch_proofs`, `TeeHistory_proofs`, `TeeRecovery_proofs`, `TeeConvergence_proofs`, `TeeEdgeId_proofs` | - | Lemmas and theorems, see "The proofs". |

`TeeService` has three variables: `state` (`InnerState`), `queue` (the waiters
of the lock in order) and `task` (for each call in flight its program counter,
request, loop position, result entries so far and collections read so far).
Its actions:

| Action | Code |
|---|---|
| `Receive`, `Reject` | the validation at the start of each handler, `service.rs`; an accepted request queues for the lock |
| `Cancel` | a future dropped while it waits |
| `Acquire` | `state.write().await` or `state.read().await` returns |
| `CreateNode`, `MergeNode`, `ConflictNode` | one iteration of the node loop, `memory.rs:68-113`, with the three ends it has |
| `CreateEdge`, `MergeEdge` | one iteration of the edge loop, `memory.rs:116-131` |
| `TombstoneNode`, `TombstoneEdge` | one iteration of the loops at `memory.rs:219` and `:257` |
| `Unconvertible` | the `?` at `memory.rs:71`, `:119`, `:259`: INTERNAL, earlier items stay |
| `CreateIncident` | `memory.rs:144-160` |
| `IncidentMissing` | the `ok_or_else` of the five methods that name an incident: NOT_FOUND |
| `ReadNodes`, `ReadEdges` | the first and the second collection of a read method |
| `Return` | the end of a method: the guard is dropped |
| `Reply` | the answer is delivered, or lost; the task is free for another call |

`TeeRecovery` extends `TeeAtomic`, which the service implements (run `atomic`),
with a client. CMBS waits for at most one answer (`waiting`) and keeps what it
has learnt (`belief`: the eliminations it knows, the live view, and how far its
recovery is). `Send` asks what comes next: the incident's context, then the
live view, then an elimination, after which the live view is read again. `Hear`
takes an answer, `GiveUp` abandons a call that Tee may serve later, `Crash`
forgets the belief. `Agent` lets others start any request or end a call at any
time, `Work` is the step in which Tee serves a call. CMBS is not in the
repository: its part of the map is marked external, and the model assumes only
that it uses the answers as `proto/tee.proto` describes them. Two history
variables remember what CMBS was ever told (`acknowledged`) and how often Tee
has credited an elimination (`credits`).

A step is as small as a loop iteration although a handler does not await
between iterations: handlers run on several threads, and it is the lock, not
the scheduler, that keeps them apart. This is what `WritersExclude`,
`SnapshotReads` and `Linearizable` are about.

## The runs

| Run | Instance | Shows |
|---|---|---|
| `service` | two tasks, twelve requests covering the eight methods: proposals that agree, contradict and confirm, that repeat an id in one request, that stop at an unknown number, an invalid one; two incidents | `TypeOK`; writers exclude (`WritersExclude`); a read answers with one state (`SnapshotReads`); the stored graph is well formed, its types among those of the schema (`SchemaConformance`); results stay true (`ReportsStayTrue`) and one entry at most is credited with a change, of all calls and within each (`CreditedOnce`); a request that was answered is absorbed when it is repeated (`RetriesAreAbsorbed`); the service implements `TeeCRDT` (`GrowOnly`). 697 073 states. |
| `hand_over` | three tasks, one writer's and two readers' requests, fair | every queued call is answered or cancelled (`NoStarvation`). 10 377 states. |
| `atomic` | two tasks, ten requests that repeat and contradict themselves and fail at each kind of item | the loops implement calls that take effect at one instant as `TeeBatch` defines them (`Linearizable`). 281 504 states. |
| `converge` | two replays, seven requests: proposals that agree, differ in label and in type, repeat an agent with another time, stop half way; an incident, eliminations in any order with what they name | replays that have served the same requests agree on everything but the timestamps and the disputed nodes, and on which nodes those are (`StrongConvergence`); the store is the lattice join of the proposals, timestamps included, where that is no conflict, and below it elsewhere (`StoreIsJoin`); every proposed node is wholly in the store or contradicts it, and each of its callers was told which, request by request and item by item, unless that very request was answered with an error (`DisputesAreTold`). 75 078 states up to symmetry. |
| `recover` | three tasks, five requests: a proposal of an edge and its target, the incident, tombstones of a node, named twice, that may not be proposed yet, edge tombstones, one of which fails half way | a recovered CMBS knows every elimination that an earlier life of it was told is stored (`RecoveryIsComplete`); its live view shows nothing that it knows to be eliminated (`NothingResurrected`); Tee reports each node tombstone as new exactly once, an edge tombstone at most once (`CreditsAddUp`). 574 362 states up to symmetry. |
| `edge_ids` | four names made of the characters `a`, `b`, `-`, `>`, two with an arrow; two types | expected violation. |
| `boundary` | as `service` | expected violation, see below. |
| `undone` | as `atomic` | expected violation. |
| `unmatched` | as `service`, three requests | expected violation. |
| `order` | two replays, two contradicting requests | expected violation. |
| `restart` | two tasks, two requests | expected violation. |
| `anchor` | as `unmatched` | expected violation. |

Where the code and its documents differ:

- **`boundary`**: `README.md:110` and `docs/architecture-overview.md:74` say
  that malformed submissions are rejected at the boundary. Validation
  (`validation.rs:45`) refuses the type number 0 only; a number the enum lacks
  gets to the store and is answered INTERNAL from inside the loop.
- **`undone`**: `README.md:108` says that every write is a transaction. A merge
  that ends with an error keeps the items before the failing one
  (`memory.rs:71`). `RetriesAreAbsorbed` and `SchemaConformance` hold
  nevertheless: what is kept is well formed and a retry does not add to it.
- **`unmatched`**: `README.md:111` says that a tombstone for a node that is not
  in the main graph does not change the live view. Edges to such nodes are
  accepted, and the tombstone hides them (`memory.rs:304`).
- **`order`**: `docs/architecture-overview.md:73` and `README.md:107` say that
  the order of the writes does not matter. The first of two contradicting
  proposals decides a node's type and label, and the loser's provenance is
  dropped with it (`memory.rs:78`). `StrongConvergence` says what the order
  does not decide, which is all the rest.
- **`restart`**: `docs/architecture-overview.md:75` says that nothing is lost
  when Tee restarts. The only store there is lives in the process
  (`main.rs:18`). Clients that repeat all their requests rebuild it: that is a
  replay in the sense of `TeeConvergence`.
- **`anchor`**: `README.md:51`, `CRDT_Safe.md:101` and
  `docs/cmbs-incident-identity.md` say that an incident records its universe,
  which makes recovery exact. `create_incident` (`memory.rs:151`) records only
  the time, and newer hypotheses enter the live view of older incidents. That
  is what `README.md:32-33` ("computed at query time", "all hypothesis nodes
  minus node-tombstoned IDs") and `docs/architecture-overview.md:127` (an
  incident gets "not its own copy of the graph") describe: the documents
  disagree with each other.
- **`edge_ids`**: `README.md:106` says that results tell new writes from
  repetitions so that no further query is needed, and `proto/tee.proto:96` that
  `created_ids` are newly created. An edge is reported by its text
  (`memory.rs:117`), and validation lets a name hold an arrow: the edges
  `a -> "b->a"` and `"a->b" -> a` are both answered as `a->b->a:1`, and both as
  created. `PlainNamesSuffice` proves that nothing of the kind happens without
  arrows in names.

One difference has no run of its own: `README.md:242` has new nodes start as hypotheses,
while the code stores the flag as it comes (`memory.rs:109`), and a client that
leaves it unset sends false.

Operators whose comment begins with *Mutation* are not part of the
specification. Each is an altered form of the definition after it, a slip one
could make in the code (a timestamp kept as it comes, an incident created anew,
a merge in place). `PROJECT.json` pairs every property of the passing runs
with one of them that violates it.

### Bounds

There is no bound in the modules: state is finite because the requests are.
The requests name two nodes, edges between them, two labels, two agents, one
trigger, two instants (0, which is also what a missing timestamp becomes, and
1) and two incidents. Two values are enough for every comparison the code
makes (equal or not; present or not). Two tasks suffice for the properties of
pairs of calls; a task takes any number of calls in turn, so that histories of
any length are covered. `hand_over` has three tasks, so that one waits behind a
waiting call, with requests that take one or two steps under the lock.
`converge` compares two replays, because the properties speak of pairs; the
replays stay in step or not as they like. `recover` has three tasks, so that
an abandoned call, a new call of CMBS and a call of an agent can be pending
together; calls are atomic there, which `atomic` justifies, and all times are 0
because no property of it looks at them. `edge_ids` has the fewest names that
clash; names without an arrow are the subject of a proof.
The instant of `SystemTime::now()` is any instant: nothing is assumed of the
clock. Replays (in `converge`) and tasks (in `recover`) are declared symmetric:
no definition tells one from another, and these runs check invariants only.

In every reachable state some task can take a step, so deadlock is checked
in all runs.

### Fairness

`FairSpec` has weak fairness on `Acquire(t)` and on `Handler(t)` for every
task. The first is what tokio gives: releasing a permit wakes the head of the
queue, and a woken task is polled. Once the head's call can be admitted it
stays so until it is admitted or cancelled, hence weak fairness suffices. The
second holds because a handler does not await once it has the lock: it is
ordinary code that runs to its end. Nothing is assumed of clients: `Receive`,
`Reject`, `Cancel` and `Reply` are not fair.

## The proofs

All theorems hold for every set of tasks, every set of requests and any strings
and instants. The assumptions are:

- `DomainAssumption`: the empty string is not among the non-empty ones, the
  epoch is an instant, the special values `Top` and `None` are distinct from
  the others;
- `KeyAssumption`: the key of an edge, a tuple, is not a text. The code keeps
  the two in maps of different types; `TeeEdgeId` looks at what becomes of this
  when a key is printed into a result;
- `RequestsAssumption` (`TeeService`, `TeeAtomic`): clients send messages that
  `proto/tee.proto` can express, valid or not;
- `WriteAssumption` (`TeeConvergence`): the requests that are replayed are
  valid messages of the methods that write, the only ones that have an effect;
- `IncidentAssumption`: the incident that CMBS works on has a name.

The modules build on each other in this order.

`TeeDomain_proofs` has the lemmas on values: the last of equal entries exists
(`LastOfExists`, by the least upper bound of a non-empty set of positions),
what conversions and merges yield (`CollectProvenanceType`,
`ProtoNodeToDomainType`, `SetUnionType`, `NodeMergeType`), and that a merge
without conflict of two well-formed nodes is well formed
(`NodeMergeWithoutConflict`).

`TeeService_proofs`:

- **`TypeCorrect`** (`Spec => []TypeOK`). `TypeOK` is inductive. The proof has
  one lemma per action; `OneCall` says that an action changes one call at most
  and `RecordedStepType` reduces an iteration of a loop to the type of the new
  store and of the new result entry.
- **`MutualExclusion`** (`Spec => []WritersExclude`). `WritersExclude` is
  inductive together with `TypeOK`. The argument: a call that holds the lock
  after a step held it before or has just acquired it (`HoldersShrink`); a
  write acquires only when nobody holds it, anybody acquires only when no write
  holds it, and one step acquires for one task (`AcquireExclusive`).
- **`SchemaKept`** (`Spec => []SchemaConformance`). Not inductive alone, for a
  call under the lock might carry an invalid request. `Validated` (a call that
  waits or holds the lock passed validation) closes the gap. Then each write
  keeps it: a created item is well formed because it was validated
  (`ValidProvenancesAttribute`), a merged one because conflicts are not stored.
- **`ConsistentReads`** (`Spec => []SnapshotReads`). `SnapshotReads` says
  nothing of a read's position, so the second pass could start from anything.
  `ReadsInOrder` adds that a call gets the lock at position 1 and what the view
  is at positions 2 and 3. A read's own steps keep it; every other step leaves
  the call and the store alone or is a write, and a write is a step of the only
  call under the lock (`WriterAlone`, from `MutualExclusion`).

`TeeGrowth_proofs`:

- **`Growth`** (`Spec => GrowOnly`): the service implements `TeeCRDT`. The
  initial stores are the same; `StepGrows` maps each write to one step of
  `TeeCRDT` or to a stutter, with `SchemaConformance` after the step, because
  `TeeCRDT` lets only well-formed items in.
- **`AnswersStayTrue`** (`Spec => []ReportsStayTrue`). `Kept` says what one
  step preserves of a store, and follows from the same case analysis; an entry
  that holds of a store holds of one that keeps it (`HoldsOn`). The inductive
  invariant is `ReportTrue`: besides the property, a call with entries is a
  write whose incident is registered, without which the tombstones that an
  entry speaks of would not be defined.
- **`OneIsCredited`** (`Spec => []CreditedOnce`). An entry that is credited in
  a step is the last of its report and names an item that was not in the store
  (`CreditsStep`); what other entries, of this call or another, are credited
  with is in the store, by `ReportTrue` (`NewAndOld`); and one call writes in a
  step (`OneWrites`).
- **`RepeatsAbsorbed`** (`Spec => RetriesAreAbsorbed`). The invariant is
  `Progress`: for every write, also one that is still running, the store has
  absorbed the items before its position, that is, merging them once more
  changes nothing; an answered write was absorbed to its end, or to the item
  that stopped it. A step absorbs the item it is at (`WriteAbsorbs`), no later
  step of any call undoes it (`AbsorbedOn`, from `Kept`), and a repetition of
  the same request stops where the first one did.

`TeeBatch_proofs` relates the reference definition to one more item of a
request. `NodesUpTo` and `EdgesUpTo` are the maps after the first items of a
proposal, without a loop; for one item more they change exactly by that item
(`OneNodePut`, `OneEdgePut`), which is the first of its identity (`FirstNode`,
`FirstEdge`), agrees (`ConfirmedNode`, `EdgeAgain`) or does not
(`RefusedNode`).

`TeeHistory_proofs`:

- **`OneInstant`** (`HistorySpec => Linearizable`): the service implements
  `TeeAtomic`. The inductive invariant `OneAtATime` says that a write under the
  lock is `Midway`: the store and the report are what the definitions of
  `TeeBatch` make of the items before its position, on the committed store
  (`MergedSoFar`, `TombstonedSoFar`, `CreatedSoFar`); and that otherwise nothing
  is pending. No induction over the items of a request is needed, for the
  behaviour itself goes through them: an iteration takes the invariant from one
  position to the next (`NodeMidway`, `EdgeMidway`, `TombstoneMidway`,
  `CreateMidway`). At the end of a write the items before its position are all
  of them (`WriteServed`), or those before the first unknown number
  (`WriteStopped`), which are the items `TeeBatch` takes. The steps map as
  follows: receiving and rejecting is `Start`, cancelling and replying is
  `Finish`, the three ways to leave the lock are `Serve`, all others stutter
  (`StartMaps` to `StepMaps`).

`TeeRecovery_proofs`, about `ClientSpec`, that is, on top of the atomic service:

- **`NothingForgotten`** and **`DeadStayDead`** (`RecoveryIsComplete` and
  `NothingResurrected`), from the invariant `RecoveryInv`. It says what the
  answer that CMBS waits for tells (`Answer`): of eliminations, that they are
  stored; of the incident's context, that it has all that was acknowledged and
  nothing that is not stored; of the live view, that it shows nothing that CMBS
  believes eliminated. These stay true while the answer travels because
  tombstones only grow.
- **`CreditsBalance`** (`CreditsAddUp`), from `CreditsInv`: every credit was
  given once and is for a stored tombstone, and every stored node tombstone has
  its credit. An edge tombstone may have none: its call may have failed after
  storing it.

`TeeConvergence_proofs`:

- **`Converges`**, **`StoreEqualsJoin`** and **`NoSilentDrop`**
  (`StrongConvergence`, `StoreIsJoin` and `DisputesAreTold`), all three from the
  invariant `OrderForgotten`: what a replay has is determined by the *set* of
  requests that it has served. Of the lattice, `HoldsAll` says that each node
  and edge is the join of all the proposals of it (`IsJoin`), in terms that do
  not mention an order: its fields are the ones the proposals agree on, or
  conflicts; its authors are those of all of them. But for the instants there is
  only one such join (`JoinIsUnique`). Of the store, it says that it equals the lattice
  where nothing is disputed, is without conflict and below it elsewhere, and
  that the tombstones and incidents are those of the requests. `TellsAll` says
  of each node item of each served request that it is in the store or
  contradicts it, and that exactly this verdict was given to its callers. A
  later request keeps a stored node's type and label and only adds to the rest
  (`OldNodeAfter`), and whether an item conflicts depends on type and label
  alone (`MergeAgain`), so verdicts given before still stand (`ToldBefore`);
  those of the request that is served fit the store it leaves (`ToldNow`).

  A request is served in one step, so here the proof has to go through its
  items. `NodesJoined` and `EdgesJoined` are recursive functions; that they
  satisfy their equations is shown by the least domain on which they would not
  (`NodesJoinedSteps`, `EdgesJoinedSteps`). The store after the first items, as
  `TeeBatch` defines it without recursion, is then compared with the lattice
  after the same items, again by the first item at which they would part
  (`NodesTaken`, `EdgesTaken`). `RequestServed` and `AnswersTold` put the parts
  together, one for each conjunct of the invariant.
- **`NodeMergeLaws`** and **`NodeMapLaws`**: what `CRDT_Safe.md:5` calls
  associative, commutative and idempotent. The merges of a node and of the maps
  of `domain/graph.rs` are idempotent and associative. Commutative they are only
  but for the timestamps (`SetUnion` keeps the entry on the left), and the
  store, which throws conflicts away, is so only where nothing is disputed:
  `StoreEqualsJoin` and the run `order` say how far that goes.

`TeeEdgeId_proofs`:

- **`PlainNamesSuffice`** (`Spec => CreatedMeansNew` if no name has `-` next to
  `>`, which is the promise that the run `edge_ids` shows broken without that
  premise). An id has its arrow behind the source, where a name has none
  (`NameIsNoEdgeId`). In two equal ids the arrow of the one with the shorter
  source would stand in the source of the other or overlap the other's arrow
  (`SourcesNoLonger`), so the sources are equally long, hence equal, and with
  them the targets and the types (`EdgeIdsApart`).

The inductive invariants were checked with TLC on the instances of the runs
before they were proved.

Only model-checked:

- `NoStarvation`: liveness is outside what the prover handles.

## Not modelled

- The text of messages, and logging. Results name the node id or the edge key
  itself, except in `TeeEdgeId`.
- What CMBS computes from its beliefs, and how an agent finds its hypotheses.
- Several Tee instances (`README.md:109`): each would have a store of its own,
  with the consequences that `restart` shows for one.
- `proposed_value` of a conflict, which the code always leaves empty.
- The order of the entries of an answer to a read, which is that of the keys.
- `LatticeFrom`, which is the identity, and `IsBot` but for its use by
  `MapUnion::merge` on the maps of `domain/graph.rs` (`Solid` in
  `TeeConvergence`): the service calls neither.
- The provenance of a tombstone request after its validation: the code drops it.
- Start-up, configuration, code generation, the gRPC transport.
- A Neo4j store: `InMemoryStore` is the only one there is.

## Plan

Done, in this order: `TeeDomain`, `TeeSchema`, `TeeStore`, `TeeService` with its
safety properties, `TeeCRDT` and `TeeBatch`/`TeeAtomic` as the two abstract
specifications, `TeeHistory` for the refinement, liveness of the lock, and the
first four theorems.

Then `TeeConvergence` (order and repetition of calls, the lattice of
`graph.rs`), `TeeRecovery` (CMBS as a client), `TeeRestart`, `TeeEdgeId`, and
the run on the universe anchor.

Then the proofs: growth, reports, credits and retries of the service, the
refinement of the atomic service, what CMBS knows after a recovery, and that
the order of the calls does not matter.

Then the promise of result ids, for names without an arrow.

Left: the counterpart of `TypeCorrect` for `TeeAtomic`, and a run for the flag
that a client leaves unset.
