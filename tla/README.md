# Verification of the tea language

tea is a language for calculations over time series: a program is compiled to a
module, a host binds parameters and inputs to it, feeds it rows and gets a datum
back for each. This directory holds TLA+ models of the compiler, from the layout
of a text to the rows its program writes, and of the parts of the runtime that
keep state; the TLC configurations that check them on small instances; and
proofs for every value of the constants where they matter most.
Paths below are relative to the repository; unless they start with `docs/`,
they are under `src/`.

Tools: `tlasany M.tla` parses a module, `tlc -workers 2 -config X.cfg M` checks
it, `tlapm M.tla` checks its proofs.

## 1. The system

### 1.1 Parts, their state and how they interact

| part | state it keeps | operations | who it talks to |
|---|---|---|---|
| runtime heap (`runtime/js/heap.ts`) | slots with a payload and a version, a free stack, one transaction with pending writes and tentative cells, the root set, storage counters | begin, alloc, get, set, commit, abort, replaceRoots, collect | called by module state; identities (`Ref`) escape to values |
| module state (`runtime/js/context.ts`, `state-update.ts`, `series.ts`) | a tree of call frames, a history per binding, the current attempt, committed and intermediate values | step (init, main, commit), enter and leave a call, read, write | runs generated code; opens one heap transaction per attempt |
| `sync()` (`api/sync.ts`) | the queue of notifications, the buffer of the other side, two completion flags | source value or end, target notification or end, drain loop | used by requests; the consumer may call back from `next()` |
| requests (`api/node.ts`, RequestInput) | child results, the ones consumed, the pending parent row | child datum, parent attempt, completion | child Node upstream, module state downstream |
| Node (`api/node.ts`) | the binding, the set of observers, the one run they share, subscriptions | to, unsubscribe, dispose, pull-style streams | sources, requests, sinks |
| sinks (`api/sink.ts`) and the batch Recipe (`recipe/batch`) | a bounded queue, a drain timer, a completion; two file streams | write, complete, error; execute | observe a Node; a socket or a file |
| strategy library (`tea-lib/broker.tea`, `portfolio.tea`, `trade.tea`) | pending and active orders, position, lots, cash | submit, cancel, match a bar | tea code, run inside module state |
| GPU (`runtime/gpu/session.ts`, `codegen/wgsl`) | buffers on the device (states, results, effects), cursors on the host | createGpuExecution, runChunk, runAll, dispose | the compiler's WGSL artifact; a WebGPU device |
| language server (`lsp/server.ts`, `analysis.ts`) | open documents, cached analyses, debounce timers, watched files | open, change, close, file change, query | an editor; the import resolver |
| import resolver (`loader/loader.ts`) | packages by path, loads under way, cached errors | load | file system; the checker |
| scanner and parser (`syntax`) | a cursor, the indentation stack, what is pending before the next token; three flags of the parser | next token, speculate and restore, recover | the checker reads the tree |
| checker, noder, depth analysis (`checker`, `noder`) | scopes, functions already instantiated, what is known of a name, how much history each name needs | check, instantiate, node, resolve depths | `ir` trees |
| code generation (`codegen`, `ir/frames.ts`) | nothing between calls | the order in which a bar evaluates and writes, the calculation of a binding | module state, collections |
| collections and structs (`runtime/js/collections`, `struct-storage.ts`) | headers that share frozen storage | construct, read, mutate by replacement, iterate | one heap transaction; generated code stores the header |
| module binding (`runtime/module-binding.ts`, `params.ts`) | a tree of objects with values, fixed builtins and late facts | bind | the Node; generated binding code |

A tick travels source → `sync()`/requests → Node → module state (one attempt,
one heap transaction) → outputs → observers and sinks. Every arrow is a
synchronous call, so the code at the end of it may call back into the code at
its start: an observer disposes the Node that is delivering to it, a consumer
pushes into the `sync()` that is calling it. That, provisional rows (an attempt
that a later attempt of the same row replaces) and failures half way are what
is hard to test in this system. There are no threads: concurrency is the order
of callbacks, timers, promises, messages of the editor and, for the GPU, the
invocations of one dispatch.

### 1.2 What makes each part correct

* **Heap**: no stored `Ref` dangles, an old `Ref` never reaches the next tenant
  of its slot, an abort leaves no trace, the counters equal what is stored.
* **Module state**: a per-bar binding starts empty, a `var` from the last final
  row, a `varip` from the last attempt; histories advance once per final row
  even where a call was skipped; a failed attempt leaves nothing behind;
  everything a later attempt can read survives collection.
* **sync()**: notifications are served in order, no value is lost, and the
  output ends exactly when nothing more can be served.
* **Requests**: a row carries the child results its alignment documents, and a
  preview never consumes what the final row is entitled to.
* **Node**: observers share one run, which is released however it ends; a
  failure stops delivery to everyone.
* **Sinks, batch**: only what the policy names is lost; completion settles, and
  success means sent or written.
* **Broker, lots**: orders, position, ledger and fills tell the same story
  through reversals, refusals and cancellations.
* **GPU**: a row means what the program says, whatever the chunking and the
  cache; a chunk is delivered whole or not at all.
* **Scanner, parser**: a program is read back as it was meant whatever its
  layout, and an error stays in its statement.
* **Checker to code**: a script writes the rows its text means; what is accepted
  can be lowered and does not fail on a type or a second write; enough history is
  kept; what is called known does not change.
* **Collections**: they are values, although assignments share storage.
* **Module binding**: a bound module is what was asked for, and no other changes.
* **Language server**: what the editor shows in the end belongs to its text and
  its files. **Import resolver**: a result depends on the import graph only.

PROJECT.json lists all parts, the ones not modelled too, and the hazards at
their lines with the properties that would catch them.

## 2. Modules

| module | models | extends or instantiates |
|---|---|---|
| `ObjectStore` | what the heap promises: objects that are never confused, transactions, reachability | |
| `Heap` | `ArenaHeap`, one action per method | `Store == INSTANCE ObjectStore WITH ...` |
| `Context` | `Context.step` and `Step`: one attempt, over nested calls | |
| `ContextRows` | the same attempts told from the program: what a row starts from, what a history holds | `Context` |
| `Sync` | `sync()` with re-entrant consumers | |
| `Requests` | the alignment of child results to parent rows, and its definition from docs/requests.md's cases as the code has them | |
| `NodeRun` | the shared run and its observers | |
| `WebSocketSink`, `BatchRecipe` | the two ways out | |
| `ModuleBinding` | `bind()` over the tree of a program and its requests, with the calculation the program brings | |
| `Broker` | orders and the position portfolio under OHLC matching | |
| `Lots` | the lot broker, its lots and its ledger | |
| `GpuPlanner` | the binary search for the chunk | |
| `GpuKernel` | state layout, cache segments, one row of a kernel; the meaning of a row | |
| `GpuSession` | host and device of one execution | `GpuPlanner`, `GpuKernel` |
| `LanguageServer` | one session with an editor | |
| `ImportResolver` | `load()` over every import graph | |
| `Scanner` | one token at a time, with the layout tokens it makes up | |
| `Parser` | every production, speculation and recovery | `Scanner` |
| `Syntax` | a printed program, its layouts and damages | `Parser` |
| `Types` | types, qualifiers, known values, scalar operations | |
| `Checker` | names, types, functions by signature, promises about writes | `Types` |
| `Noder` | the tree that is lowered | `Checker` |
| `Depth` | how much history each name needs | `Noder` |
| `Machine` | what the generated code does in a bar | `Depth` |
| `Language` | a script from its tree to its rows, beside its meaning | `Machine` |
| `CollectionValues` | collections as plain values | |
| `Collections` | headers over frozen storage, struct fields, evaluation order | `Promised == INSTANCE CollectionValues WITH ...` |
| `HeapProofs`, `TradingProofs`, `ToolsProofs`, `GpuProofs` | theorems | `Heap`, `Broker` and `Lots`, `LanguageServer` and `ImportResolver`, `GpuPlanner` and `GpuSession` |
| `RuntimeProofs` | theorems about collections and `sync()` | `Collections`, `Sync` |
| `ContextProofs`, `RequestsProofs` | theorems | `ContextRows`, `Requests` |
| `OutputProofs` | theorems about a Node's run and both ways out | `NodeRun`, `WebSocketSink`, `BatchRecipe` |
| `MCRuntime` | constants for heap, context, requests | `Heap`, `ContextRows`, `Requests` |
| `MCTrading` | ... | `Broker`, `Lots` |
| `MCOutputs` | ... for what is around a run | `MCTrading`, `Sync`, `NodeRun`, `WebSocketSink`, `BatchRecipe`, `ModuleBinding` |
| `MCTools` | ... | `LanguageServer`, `ImportResolver` |
| `MCGpu`, `MCSyntax`, `MCLanguage` | ... | `GpuSession`; `Syntax`; `Language`, `Collections` |

Action names are those of the methods and handlers. A definition that exists
only as a plausible bug is marked "Mutated form"; PROJECT.json says which
property notices each. The reductions that hold everywhere: a value is a model
value, a small number or, in the heap, the set of references it holds; texts,
error messages and timing figures are left out.

### 2.1 Heap, ObjectStore
State: `cells`, `versions`, `free`, `length`, `tx`, `roots` and the counters,
with the fields' names. `ObjectStore` has identities that are never reused, the
committed store and the open transaction. The mapping sends a `Ref` to the pair
of its slot and version, so the refinement is the statement that the version
check is enough. Every method is an action with its limit checks as guards.

### 2.2 Context, ContextRows
An attempt is a sequence of actions: start, enter and leave calls, writes of
bindings, then commit, or failure of main or of the commit. `ContextRows` keeps
a log of the attempts and says from it what every binding must start from and
what every history must hold; `RowsAgree` compares.
Outputs, `readResult` and the inside of collections are not modelled.

### 2.3 Sync
The drain loop is a program counter, because `subscriber.next()` inside it may
run any handler again. `Project` is a constant: how many values a notification
takes, or that it must wait, or throws. `emitted` is a history: for each output
its notification, what the buffer held and how much had left it before.
`SourceComplete` and `TargetComplete` may come from within `next()`, as every
handler may; `completeIfDone()` then looks at the queue before the notification
being served has left the buffer, and the output may end there (see 6).

### 2.4 Requests
Child steps and parent attempts, each provisional or final, in any order;
`RowsAsDocumented` rebuilds every emitted row from the log of child attempts: a
row lists the arrivals at the positions its policy is documented to select
(`SelectedBy`), and `EachStepOnce` says what final rows take together.
Data without time on a source with time is not modelled.

### 2.5 NodeRun
Observers may join, leave, dispose the Node and throw, also from inside a
delivery, and the input may emit while `to()` is still subscribing. Streams
(`asStream()`), clocks, a `steps()` that fails to start, and sources
that emit from inside their own callbacks are not modelled.

### 2.6 Sinks and batch
`WebSocketSink` is the whole class against a socket that opens, drains, fails
and closes when it likes; `peerClosed` remembers that the server began to close.
`BatchRecipe` is `execute()` with the CSV sink: the
Node is a number of rows and an end. Backpressure (the promise of `write`),
quoting and the inspection of an existing file are not modelled.
`MCOutputs` extends these modules, `NodeRun`, `Sync`, `ModuleBinding`, `Broker`
and `Lots`, so their definitions have names of their own: `SocketSpec`,
`BatchSpec`, `NodeSpec`, `BrokerSpec`; the queue of the socket's sink (`pending`
in the code) is `queued`.

### 2.7 Broker, Lots
`Broker` runs a bar as the strategy coordinator does: pending orders, deferred
halves of reversals, exits, the strategy's own commands, and, when orders are
processed on the close, a second match. Each entry is one unit; fees, cash and
sizing are abstracted to "an entry may be refused" and "a rebalance may be
clipped". A bar that opens at its high and low stands for a trade at the next
open. Trailing exits, price paths (`match_path_*`) and the money of
`NetPortfolio` are not modelled.
`Lots` keeps the money: integer prices, full margin, a commission per fill and a
slippage of ticks. Quantity sizing and drawdown ratios are left out.

### 2.8 GPU
`GpuPlanner` is the loop of `planResources`, one action per turn; sizes are in
cells. `GpuKernel` is what the emitted WGSL does to the words of an execution:
the layout (frames are the tree of call sites in preorder; activation, scratch,
init flags and history descriptors at their offsets, history rings behind), the
cache segments ranked as `cacheManifest` does, and a row as three steps: reset,
body, commit. A value takes one word and 0 is the empty value. The program is
abstracted to what matters for state: the value of the input series decides
which frames a row calls, a call assigns that value to per-bar locals and counts
persistent ones up. `Meaning` tells every read of a row from the rows of the
series alone, without memory; comparing the two is the point of the model.
`GpuSession` adds the host. Invocations run beside each other, a row at a time.
What lies between two `await`s is one action, except delivery, which is one
action per row because it calls the application. A continuation of `runAll()`
may find another caller's chunk running and is then refused, as in the code.
`dispose()` from within `next()`, or after the readback, still lets the rest of
the chunk go out: the code has no check there, and neither has the model.
Not modelled: artifact validation, parameters, codecs, floating point, series
packing, and the lowering of expressions and loops.

### 2.9 LanguageServer, ImportResolver
Texts are model values: a plain one, one that imports, one the compiler throws
on. Documents reopen with version numbers they had before. The client may report
a changed file at any later time. Not modelled: a disposed connection, the
registration of watchers, the content of answers, callbacks of the host from
inside a request. `ImportResolver` covers every graph of the given files and
libraries; paths are canonical, and malformed spellings, error texts and the
implicit prelude are left out.

### 2.10 Scanner, Parser, Syntax
A source is a sequence of lines, each a width and its lexemes; a lexeme is its own
token. `Scanner` keeps the fields of the class: the stack of widths, pending
newline, indent and dedents, group depth. `Parser` is the recursive descent, one
operator per production, with the state of the scanner in it, so that
speculation saves and restores exactly what the code does; a loop that comes
round without having moved raises `spins`, which is how endless recovery shows.
`Syntax` prints a program, then lets actions lay it out anew (blank lines,
comments, breaks inside and outside groups) or damage it (drop or insert a
lexeme, move or empty a line). After each the text is read (`Read`), and the
properties say what the parser gives for it. What the printer puts down is the
documented meaning.

### 2.11 Types, Checker, Noder, Depth, Machine, Language
Each phase is an operator on trees; `Compiler` in `Language` puts them in order,
with the refusals of each, and the actions compile, bind inputs and run bar by
bar. What the compiler makes of each script is a constant, `Compiled`, so that
TLC works it out once; `LanguageAssumption` says that it is what `Compiler`
makes of it. Numbers are counted in
quarters, so that `/`, `%` and rounding have results TLC can hold; a script that
leaves that grid is not among the inputs. The checker's calls are instantiated by
signature (types, qualifiers and constants), which is where one call can be given
what another folded. `Machine` has frames and cells by call path, retention and
commit of histories, as `lower.ts` and `state-update.ts` do it.
The meaning (`Mean...` in `Language`) is a specification and not a translation:
it is read off the checked tree, folds nothing, gives every call a frame of its
own and forgets nothing of the past. It is not in PROJECT.json's map.
Left out: structs, methods, interfaces, enums and generics in scripts, requests,
packages, strings and colors; a default that refers to another parameter (the
noder evaluates it where it is called); the history of an input's alias; loops
with a float index and integer bounds; two inputs are told apart by their
default. Histories of a loop or block value are not read.

### 2.12 Collections, CollectionValues
A step is one statement. Headers (kind, size, shape, capacity) point to frozen
storage; a mutator allocates and returns a header to store, and the destination
was captured before the arguments. Types are settled by the checker; storage is
a small set of references, so that an allocation can fail at the heap's limit
(the arena is `Heap`'s matter, and statements that fail half way through a bar
`Context`'s). `CollectionValues` has no storage: a name holds a sequence, an
ordered map or a rectangle. What the checker guarantees is stated once: a script
is made of statements that are well typed (`WellTyped`) under one assignment of
kinds to names and fields. Iteration over a matrix is left out.

### 2.13 ModuleBinding
Objects with identities, so that sharing between a module and its copies would
show. An expression of the binding calculation is abstracted to what it reads:
a late fact is undefined until all of that is known. Parameters have kinds,
bounds and options (colors in several spellings); a value may be of a wrong kind
or name no parameter. The schema, its ABI, `requireConcreteModule` and native
modules other than through `bind()` are left out.

## 3. Runs

All finish within three minutes with two workers. `CHECK_DEADLOCK FALSE` is set
where a system may come to rest: programs end, sessions are disposed, and the
bounds stop the environment. Components that do not share state are checked in
one run by a variable `part`: a behaviour follows one of them and the others
stay as they begin, so that every part is explored whole. The liveness
properties of a part hold of the others by their resting state.

| run | parts | question | bounds and why they are enough |
|---|---|---|---|
| `runtime` | heap | do the arena's invariants hold, and does it implement `ObjectStore`? | two slots, each taken twice, three transactions, two payload sizes: reuse of a slot, an old `Ref`, an abort between two commits and every limit. Longer chains of references are left to the proofs |
| | context | do storage kinds, histories and retention mean what they should? | three attempts of up to three operations; a per-bar, a `var` and a `varip` binding in nested calls, a history of two rows: a provisional attempt, its replacement and the next row; a call that is skipped |
| | requests | does each row carry what its alignment documents? | five alignments, three event times, four child steps, three parent steps, provisional on both sides: a step before, at and after a boundary, refined after it was used |
| `outputs` | sync | order, nothing lost, ends when it should, over what? | five values, four notifications, five projectors: windows of two that leave one over, one that waits, one that throws; values, notifications and ends from within a delivery |
| | node | one run for all, released however it ends | three observers, so that one can act on another while a third waits; three emissions |
| | socket, batch | is only what the policy says lost, and does completion settle? | queue of two with five writes: empty, full and overflowing; three rows in a batch: header, one, more |
| | binding | is each bound module what was asked? | a program with requests two deep; three binds to any module there is: a branch from an older module, a failure in a child after its parent was written |
| | net | do orders and position agree? | four bars, up to three commands in each, pyramiding of two: an entry, its reversal deferred over a bar, an exit, a rebalance |
| | lots | lots, ledger and fills one story | two lots, six fills, three bars that gap over the stops |
| `tools` | session | does the editor end with the truth? | two documents, four edits, one change on disk |
| | imports | is a result a function of the graph? | every graph of two files and a library with up to two imports each; three requests: cycles of one and two, an error met inside a cycle |
| `gpu` | | does a chunked run deliver what the program means? | two bindings, three rows beside none or one; device limits that admit no chunk, one, two and three rows; no cache, four words, everything; a history of two rows over chunks of one; two callers |
| `syntax` | | is a program read back as printed, and does an error stay where it is? | 2,208 programs of one to three statements: every statement, every pair of operators both ways round, blocks in blocks; 45 of them laid out anew and damaged at every place |
| `language` | scripts | do the rows mean the script? | 2,200 scripts, each about one thing the compiler decides; an input bound to two values, three bars of two prices each: one bar beyond the longest history that is read |
| | collections | are collections values? | five statements over two arrays, two maps, two matrices, two owners of structs; three references, three elements: a push into room that another header sees, a pop from within a push, a full heap |
| `sync_reentrant`, `broker_replaced`, `syntax_blocks`, `language_depth`, `language_types`, `language_alias` | | violated, see 6 | as the run they belong to, with the scripts that show it |

The scripts of the three violated `language_...` runs are left out of `language`
and nothing else is: with them in, its properties would be those of another
program than the one it asks about.

Fairness, where a liveness property is checked, is only what the event loop, the
timers and the peers give: `sync` drains once entered and the emitting call
returns; a due timer fires, a socket that is opening opens or fails and what is
in its buffer goes out (`EventuallySettles`); file streams flush or fail and a
Node that runs delivers or ends (`ExecuteSettles`); the server receives what the
client sent and a debounce elapses (`EventuallyShown`); submitted GPU work
finishes and its readback resolves or rejects (`EverySettles`). No fairness is
assumed of an observer, an editor or a strategy: they may simply stop. The
parser's loops need none: `AlwaysEnds` is about what it returned.

What the properties say is written above each of them. The ones worth knowing:

* `ReferentialIntegrity`, `StorageExact`, `StoreSpec` (heap);
* `RowsAgree`, `RetainedLive` (module state), `RowsAsDocumented` (requests);
* `ServedInOrder`, `NoValueLost`, `DropsOnlyWithinNext`, `EventuallyEnds`;
* `SharedRows`, `RunReleased` (Node), `BoundAsAsked` (module binding);
* `PolicyKept`, `DrainedUnlessPeerCloses`, `ResolvedMeansWritten`,
  `EventuallySettles`, `ExecuteSettles` (sinks, batch);
* `ActiveMatchesPosition`, `StopRespected`, `OrdersConsistent`,
  `EveryFillApplied` (trading);
* `RowsMeanTheProgram`, `ChunksAreAtomic`, `LargestChunk`, `EverySettles` (GPU);
* `DependenciesReported`, `OutputIsCurrent`, `EventuallyShown` (language
  server), `OutcomesRight` (imports);
* `RoundTrip`, `AlwaysEnds`, `Contained` (syntax);
* `RowsAsMeant`, `CheckedIsLowered`, `RunsThrough`, `DepthSuffices`,
  `KnownWhenSaid` (compiler), `ValueSpec` (collections).

## 4. Proofs

**HeapProofs**, assuming only `HeapAssumption` (numbers of slots and versions,
limits and sizes are natural numbers; payloads hold `Ref`s).
Referential integrity is not inductive. An allocation must not disturb a `Ref`
that resolves, so the slot it takes must be empty: the free stack holds exactly
the empty slots (`FreeStackExact`) and nothing lies beyond the length
(`Grown`). An abort must not take away what committed storage needs: the
tentative cells are exactly the transaction's (`TentativeOwned`) and pending
writes are on committed cells only (`Pending`). With these, `IInv` is preserved
by every method, and gives `TypeInvariant`, `Integrity`, `FreeStack`,
`Ownership`. `Refinement` then maps every method to an action of `ObjectStore`
or a stutter; its hard steps are collection (marking from the roots over any
number of cells) and reuse (a version counts up, so the pair is new).
`Storage` adds the accounting: the bytes charged are a sum over all slots, so that
a change of one cell changes the sum by that cell is shown by induction over the
slots (`TotalIsSum`), and so is that an abort or a collection gives back what it
frees.

**ContextProofs**, for every tree of calls, every finite set of inputs, every
binding with its storage kind and depth and any number of attempts
(`ContextAssumption`: `Above` is a tree, values of different sorts differ):
`Retained` and `Rows`. That an object which a later attempt could reach is alive
is not inductive: within an attempt, values go from inputs and histories through
writes into objects and back. What is kept is that the committed heap and the
attempt's view of it are whole (what a live object holds is live), that the view
has the committed heap, and that writes and inputs hold what is in the view
(`RetainInv`); a collection then takes nothing away because what it starts from
is closed under what the heap points to (`ClosureIsLeast`, `SweptIsWhole`).
`Rows` compares what is read back with the log of rows. At rest, frames,
histories and starts agree with the log (`Settled`); within an attempt, what a
binding would start from is what the log says, and what the write set holds is
what the log will be told (`AttemptAgrees`). Its hard step is an accepted attempt
(`AcceptStarts`), by storage kind and by whether the binding was ever
initialized, since what the next row starts from is then decided by a
committed row, a carry, or nothing.

**RuntimeProofs**, of collections: `CollectionsAreValues`, that every behaviour
of headers over frozen storage is one of `CollectionValues` (`ValueSpec`), for
any names, owners, structs, references, elements, limits and scripts.
`CollectionsAssumption`, which TLC evaluates for the instance it runs, asks that
references are a finite set of numbers, that na, the free mark and headers are
told apart, and that each script is well typed under some assignment of kinds;
the checker accepts no other. One invariant is kept for it (`Kept`):

* *Typed*: every header that a name or a live field holds is of the kind the
  checker settled for its place, its storage is there, and its size, shape and
  capacity agree with it (so no receiver is ever `fatal`); a map's storage
  keeps each key once, as `canonicalKey()` gives it, and at most `MaxElements`
  entries. The bound is needed because `map.keys` makes an array, which checks
  it, and the values promise that this check cannot fail; so is uniqueness,
  since `map.remove` takes the one entry it finds;
* *Tidy*: a field that holds something is of a struct some owner holds, which
  is what a step's collection leaves, and what makes a fresh struct fresh.

Storage is never written once a header points to it, so whatever a statement
allocates leaves the meaning of every header as it was (`GrownKeeps`): that is
the whole reason why sharing cannot be seen. The rest is one lemma per statement
(`AssignFollows`, `MakeFollows`, ..., `ForEachFollows`): it fails with the
error the values promise, or runs out of references, or stores a header whose
meaning is the promised content. Two steps are hard. A mutator whose argument
pops from the same place, or makes its owner hold another struct, still writes
where its destination was captured and from the header it then finds
(`ChangeIs`, `TurnDoes`). A loop pushes to, or removes from, a place that may
be the one it runs over: after `i` turns the place means what it did with `i`
elements added or keys gone (`TurnsDo`, `ArrayLoopFollows`,
`MapLoopFollows`), by induction over the turns. A recursive function of the model
(`Turns`, `Without`) is reasoned about as any function with its recurrence:
one exists, by induction over the length, and two agree (`TurnsAre`,
`WithoutIs`).

Of `sync()`, for every projector and number of values: `TypeInvariant`;
`Order` (what was emitted, what is being emitted and what is queued together are
the notifications in order); `Values` (no source value is lost, repeated or
overtaken: `NoValueLost` is inductive, because it says of every output how many
values had left the buffer before it, and of the buffer that it goes on from
there); `Quiescent` (at rest and open, nothing servable
waits, because every handler that could make something servable enters the
loop); and `DroppedWithin`: a step over which the output completes while a
notification waits comes after the end of the source, and then either what is
left cannot serve that notification, or the step was taken from within `next()`
with both sides at their end. The second case is the disagreement of
`sync_reentrant`; the theorem says that it is the only one.

**OutputProofs**, of a Node's run, for every set of observers and number of data: `Shared` and
`Release`. `SharedRows` speaks of the times when no call is under way; what it
rests on is what holds in the middle of a delivery, where any observer may join,
leave, dispose the Node or throw: those that rxjs has yet to reach are exactly
one datum behind, and one that joined during the delivery starts after it
(`Received`). For the release, the run is built once, by the first `to()`
(`OneRun`), and an output that ended while `to()` was still subscribing keeps its
Context only until subscribe() returns (`Released`).

Of the WebSocket sink, for every `Capacity`, `HighWaterMark` and `MaxWrites` that
`SinkAssumption` admits: `Policy` and `Drained`. The invariant `StreamInv` is
about the stream, what was delivered followed by what the socket holds and what
is queued: it rises, and no row in it is newer than the last one written. Both
halves are needed. A flush cuts the queue in two and hands one part to the
socket, which leaves the stream alone (`Cut`, `Moved`); a write may drop rows
from the front of the queue and puts `written + 1` behind what is left, which
is why the bound by `written` has to be kept (`Newest`). That a sink which
rejects stays rejected rests on a settled sink being stopped, so the two are
kept together: a close event may only change a completion that has not settled.
`Drained` (a completion that resolves leaves nothing behind, unless the server
began to close) is not inductive: what `onClose` resolves over was decided
earlier. The strengthening is `ClosesDrained`: a socket that is closing without
the server's doing was closed by a flush that left queue and socket empty after
`complete()`, and nothing is written after that.

Of the batch Recipe, for every number of rows, whichever the sink
rejects and whatever fails: `Written`. As long as the sink has not failed, the
file followed by what is on its way to it is what a complete run of the rows so
far leaves (`NothingMissing`); a row extends both (`AtTheEnd`), a flushed line
moves from one to the other (`Flushed`). That only a sink with nothing on its
way resolves, and only after the Node has ended, are `Resolved` and `Stopping`.

**TradingProofs**, of the broker, for every set of commands, kinds of bar and any number of
either: `Orders`, `StopsRespected` and `Agreement`. What the properties say of a bar that
is over rests on what may still be due while it is matched, so the invariant is
told by phase: a bar begins with older orders only; between the halves of a
reversal the account is flat, its order was triggered and a fill is left for it;
after the bar's own matching a market order is new. `Agreement`, that the entry
the broker remembers is the one whose position the account holds, assumes
`OneSidePerId`: an id names entries of one side, and no rebalance. Without it
the code does otherwise (see 6), so the assumption is the theorem's
precondition and one of the model's instance, not a fact about the code.

Of the lots, for any bars, capacity, sizes, stops and number of commands, and
margins of 0 or 100 (`LotsAssumption`): `FillsApplied`. What a command does to the
accounts is followed from call to call: `GoodBook` holds of the book before it, and
of what `Opened` and `Closed` make of it (`EntersGood`, `ClosesGood`). The ledger
says that cash is what the account began with plus results less the cost of the
open lots, a sum over a sequence from which a close takes one lot and puts the last
one in its place (`TotalLess`). That the portfolio's defensive guards never drop
a fill follows from unique ids and from the broker having checked the capacity of
the same book. A reversal is an induction over its walk (`ReversedGood`): it closes
the last lot there is each time, so all are gone or one close was refused, and
then no entry follows. `Funded` had to be stated for what the code does: an entry
at full margin leaves cash at or above zero, but a later close by stop may owe its
commission, so an account that is long may owe at most the commissions of its
closes.

**RequestsProofs**, for any set of requests, any times and any number of
attempts of either side in any order: `RequestRowsAsDocumented`. The two sides
are tied by how far the buffer has left the arrivals behind (`Consumed`): what is
buffered is the end of what arrived (`Buffer`), and the steps consumed are those
the final rows have taken (`TakenInTurn`, `Upto`). How `Consumed` relates to the
last final row differs by policy and is what each proof turns on: a whole number
of groups (`ConsumedInTurn`); what was opened by the last final time, refinements
of the last step aside (`ConsumedByTime`, where the check for late children is
needed); or all but the newest step opened (`ConsumedButOne`, which also says
what sparse fill remembers). Times and steps go together because each side is
checked as it arrives (`Timely`, `Sides`), and rows already emitted keep their
meaning when more arrives (`Stable`). Serving a parent attempt is common to the
policies (`ServeKeeps`); a policy has to show what it lists and what it consumes.

**ToolsProofs**, of a language server session, for any finite set of documents, any texts and any number of
edits and changes of files: `Reported` and `UpToDate`. The cache is keyed by a
version alone, so that its answers are current rests on the editor's messages:
those on their way lead from the document the server has to the one the editor
has, each to a newer version or over a close (`Lead`; the invariant says that
such a path exists, `Longer` and `Shorter` extend it and take its first step);
and a close empties the cache before a version can come again (`Fresh`).
That a closed document ends with nothing shown rests on the order of what was
sent (`SentMore`, `SentLess`).

Of import resolution, for any packages and any imports between them:
`ImportsResolved`. That an outcome is true of the import graph, and that the
files recorded are all it depends on, are one invariant: whatever is remembered
or returned is true of *every* graph that agrees with the real one on the files
asked for (`Alike`, `ResolverInv`), so no other content of a file nobody asked for can matter.
In the middle of a load the stack is a path of imports (`Way`), which makes a package
met again on it one that reaches itself (`ClosesCycleIs`), and every import
before the one at hand can be loaded; so a load that comes to its end has only
imports that can be loaded, and `LoadsAll` says that this is enough. What a
package reaches is defined as a least closed set, so that no induction over
paths is needed (`ReachedLeast`, `ReachedFirst`).

**GpuProofs**, for every number of bindings, channels, effects per row and
every limit: `SearchInvariant` (up to `low - 1` fits, nothing above `high`
does) and `Largest`. The lemma it rests on is that what fits is downward
closed, that is, that a product of natural numbers is monotone.

And, for any series, bad timestamps and callers, what the host of a session
does: `Chunks` and `InOrder`. All bindings have run the same `k` chunks, or to
their end, and none of those rows was bad (`InStep`); while a chunk is being
delivered the same holds of `k + 1`, because it was published only after all of
it was judged. What waits in the outbox goes on, for every binding, from what
that binding was given (`Waiting`); that a published outbox is such, is an
induction over the bindings whose rows it joins (`ItemsJoined`). A call
resolves only when every cursor is at its end, which no failed or running
session reaches (`Ending`).

What the device computes is `KernelRow` and `RowsMean`. `KernelRow` is the
kernel alone: if a memory holds the first `n` rows of a series (`Holds`: every
frame's activation, every init flag, and in every ring the rows a read may still
reach, under `row % capacity`), then reset, body and commit leave it holding
`n + 1`, change no word of another execution, and the row's result and effects
are `Meaning`. It rests on the layout (`FixedIs`, `HistoryIs`, `InitialIs`: named words and
rings lie apart, and the descriptors say where), for any tree of call
sites. `RowsMean` carries this through a session. `DeviceIs` says, per binding
and at every point of its invocation: which memory it sees (`Seen`, part cache,
part state buffer) and how many rows that holds (`Progress`), that its results are
those of the rows done and `Absent` beyond, and that its records, taken by row,
are those rows' effects unless it overflowed. It is inductive only with the
buffers laid apart (`Packed`, `StatesApart`, `CellsAre`, `SlotsAre`: no
invocation touches another's words, cells or records); with `ResultCapacity`
never one row (`CellsAre` needs that `FinalOnly` cannot hold); and only while no
chunk has failed, for then the device may be ahead of the host. `MeaningInv`
adds that what was delivered is `RowMeaning`; a chunk that overflowed is never
published, so its records never matter. The hypothesis `Channels # 0` leaves out
programs without outputs, for which `emitKernel` takes another path that the
model does not have.

**Only model-checked**: all liveness and `ENABLED` (`EventuallyEnds`,
`EventuallySettles`, `ExecuteSettles`, `EventuallyShown`, `EverySettles`).
The library's induction theorems take an operator as a parameter, which no
installed prover instantiates; `Induction` (HeapProofs and others) gets the
natural numbers from a well-founded minimum instead, so a recursive function of
a number is within reach. A recursion over trees is not: the compiler's phases
(`RoundTrip`, `RowsAsMeant`, ...) and `BoundAsAsked`. Neither
are definitions by `RECURSIVE` operators, which cost tlapm its SMT backend.

## 5. Not modelled, and what comes next

Left out for good: CLI, documentation server, generators, editor scripts,
logging (no state worth a model); `ta.tea`, `geometry.tea` (floating point);
text of generated code, spelling of literals, wording of diagnostics.

Next, in this order:

1. Structs, methods and requests in scripts; packages; loops and effects in the
   GPU kernel, against the same meaning.
2. Node binding and refresh, `asStream()`, clocks; the schema of a module.
3. Artifact validation of the GPU session.
4. Trailing exits, price paths and `NetPortfolio`.
5. Proofs: `BoundAsAsked`, by a well-founded order on the tree of requests.

## 6. Where code and documents disagree

With a run: `broker_replaced`. Replacing the order of a reversal whose second
half was deferred leaves `reversalPending` set, so the new order fills at the
next open whatever its stop (`tea-lib/broker.tea:310`; docs/strategy.md:159: "Gap
matches use the open; intrabar matches use the trigger"). `StopRespected` in run
`outputs` is the same statement without that replacement.

`syntax_blocks`. A statement whose value ended with an indented block is over,
says the parser (`syntax/parser.ts:64`), but `postfix()` and `binary()` go on
reading: a next line that begins with `[`, `(` or an operator is taken for an
index, a call or an operand of the block's `if`. `RoundTrip` in `syntax` leaves
out programs where such a line follows.

`language_depth`. The depth analysis puts the argument of a call in the place of
a parameter, also where the body assigns the parameter first, so that one row
too few is kept (`noder/depth.ts:445`; the comment at line 55 has demands known
at bind "evaluated exactly").

`language_types`. A block that closes with an assignment has the type of what is
assigned, and the value of the name, which may be wider; nothing converts and
the row fails with `VALUE_LAYOUT_MISMATCH`. A default wider than the parameter of
a free function fails the same way (`noder/noder.ts:1544`).

`language_alias`. A block that closes with `z = close` is `na`: the name is an
alias that nothing writes, and the end of the block reads it as a name
(`noder/noder.ts:883`).

`sync_reentrant`. Over a queued notification the output may complete when the
"source has completed and the projector returns `wait()`" (`api/sync.ts:89`); the end
of both sides is not enough ("no notification is still queued", line 62). A consumer that ends both sides from within `next()` makes it complete over a
notification that what is buffered would serve: `completeIfDone()` (`api/sync.ts:300`
and `318`) sees the queue while one notification is being served. In run
`outputs`, `DropsOnlyWithinNext` says that it happens nowhere else.

Met while modelling, described here only:

* WebSocket sink: when the server closes after `complete()`, `onClose` resolves
  completion with rows still in the socket's buffer (`api/sink.ts:403`), while
  the class comment has completion resolve "after queued messages and the socket
  buffer drain". `DrainedUnlessPeerCloses` is that promise with this exception
  and no other.
* Node: `dispose()` from a datum that arrives while `to()` is still subscribing
  leaves the input subscribed (`api/node.ts`, against its comment at line 158).
* Broker: with one id for both directions, `submit_exit` takes the side of a
  pending opposite entry, and the exit doubles the position (`broker.tea:336`).
  Cancelling a pending reversing entry leaves its contingent exit attached.
* Lots: `entry()` closes the opposite lots before its own entry may be refused;
  a test is named after the opposite for immediate reversals.
* Batch: when `bind()` throws, the sink's completion is rejected before anyone
  waits for it.
