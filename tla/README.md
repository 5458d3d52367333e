# luaml in TLA+

luaml is a script engine: the frontmatter of a script holds patterns, an event (a map of typed
fields) that matches them runs the script's Lua body, and bodies dispatch further events. This
directory holds models of it in TLA+, the TLC configurations that check them, and TLAPS proofs.
Paths such as `lib.rs:374` are below `src/crates/luaml/src/` unless they name `luaml-service`, which
is `src/crates/luaml-service/src/`.

## Inventory

| Component | State | Operations | What is hard about it |
|---|---|---|---|
| dispatch engine, `lib.rs` | cascade context (budget, visited signatures), statistics | `dispatch`, recursive `dispatch_inner`, `set_cascade_config` | one shared budget and mark set over a recursion with three early returns |
| script registry, `registry.rs`, `lib.rs`, `extension.rs` | scripts in order, tracked roots | register, replace, unregister, clear, register_dir/roots, reload, add_root | files change under the calls that read them; partial failures; manifests |
| file watcher, `watcher.rs` | debouncer thread, channel of changes | watch, unwatch, drain in `dispatch` | reports are late; files differ when they are read |
| frontmatter parser, `parser.rs`, `pattern.rs` | none | lines to blocks and clauses, texts to patterns | what a line means depends on the others; delimiters in bodies; quotes and brackets |
| matcher, guards, queries, `pattern_match.rs`, `guard.rs`, `registry.rs` | none | match, query_subset, evaluate_guard | three pieces of code that decide whether a clause accepts a value |
| clause environment, `executor.rs`, `api.rs` | Lua globals, API bindings, id counter | execute_clause, register/replace/unregister of APIs | all names live in globals that outlive a clause |
| service connection, `luaml-service` `connection.rs`, `remote_api.rs` | an engine, one stream in each direction, call ids | requests, api_call back to the consumer | two readers of one stream; late, doubled and missing answers; disconnects |
| service listener, `luaml-service` `server.rs` | a socket file or a port, the backlog | look for a stale file, remove it, bind, accept; a thread per connection | the file of a live service is removed too; services crash and restart |
| promises and waiting, `stdlib/promise.rs`, `thread.rs` | a task handle each | await, try_await, poll, wait_all, wait_any | a handle is consumed once; several waits share promises |
| child processes, `stdlib/process.rs` | child, its pipes | exec with timeout, handles | pipes, timeouts, handles taken by pending calls |
| JSON-RPC client, `stdlib/rpc.rs` | id counter | call, notify, batch, each also as a promise | answers in any order, doubled, missing, of other exchanges |
| sockets, `stdlib/tcp.rs`, `udp.rs` | a slot per handle, tasks that hold or share sockets | bind, accept, connect, read, write, send, receive, close, each also as a promise | handles taken by pending calls, results nobody awaits, close under a receive |
| files, `stdlib/fs.rs` | the disk; watches with a channel each | read, write, append, copy, rename, remove, each also as a promise; watch, next, close | a call is several system calls; others act in between; a watch calls back from its thread |
| HTTP client, `stdlib/http.rs` | none | requests, responses, downloads | options, bodies and headers that override one another |
| value conversions, `executor.rs`, `json.rs`, `rpc.rs`, `http.rs` | none | Lua to field values and JSON and back | several hand-written copies of one conversion |
| pure library, `codec.rs`, `crypto.rs`, `math.rs`, `path.rs`, `time.rs`, `url.rs`, `vec.rs` | none | encodings, paths, statistics, vectors, times, encryption | boundaries; twins that should agree |
| bindings, `regex.rs`, `console.rs`, `env.rs`, `mod.rs`; test support | none of their own | wrappers | none |

Interactions. A dispatch drains the watcher, asks the registry for the matching clauses, which asks
the matcher and the guards, and gives each clause to the executor; what a body emits comes back to
the dispatch. An API namespace that a connection binds turns a Lua call into a message to the
consumer and reads the answer from the stream that the connection's loop reads. The engine's calls
exclude each other (`&mut self` and one thread per engine), so the interleavings that matter are
those with the file system, the debouncer, the consumer and earlier clauses.

What makes the parts correct, in one line each: a dispatch reports the whole cascade tree in
pre-order and ends; no edit is lost between file and registry; an answer reaches the call it is for,
and no two sides wait for each other; a clause starts with what is bound for it now; a script runs
exactly when what is written in it says so; what a script was promised by the library (an outcome, a
datagram, a connection, a message) has one holder and is handed over once.

## Modules

| Module | Models |
|---|---|
| `Cascade` | `dispatch_inner` with its recursion unfolded into the stack `frames`; one action per way an activation goes on or ends: refuse (depth, cycle), enter, execute a clause, feed an emission, exhaust the budget, finish. |
| `CascadeContract` | the promise to the caller: the outcomes are a pre-order record of the tree, grown from left to right by what is due after each outcome, without the engine's stack and marks |
| `CascadeProofs` | theorems about `Cascade` |
| `HotReload` | registry, tracked roots, watcher, files. Calls that read several files (`register_dir`, the drain, `replace_file`) take a step per file, so edits interleave. |
| `RequestService` | abstract specification of a connection: one request at a time, answered in order, at most once; given up by the consumer, or by the service for what is not text |
| `Connection` | the thread of a connection, its engine, `RemoteApiHandler::call`, the two streams, a consumer that may misbehave; refines `RequestService` |
| `ConnectionProofs` | theorems about `Connection`, among them that each of its steps is a step or a stutter of `RequestService` |
| `ServiceListener` | services that start, find or miss a socket file, bind, accept, crash and start again; consumers that connect, wait and leave |
| `ClauseEnv` | `execute_clause` and the API bindings; a value for each path of the Lua globals |
| `ClauseEnvProofs` | theorems about `ClauseEnv` |
| `Patterns` | values, patterns and the matcher; the recursion on the parts of lists and maps is closed by the instance (`MatchPart`) |
| `Registry` | what the registry answers of parsed scripts: `match_clauses`, `query_subset`, the scope of API bindings |
| `RegistryProofs` | theorems about `HotReload` and `Registry` |
| `Guards` | the tokenizer of guards over characters, the parser from tokens on, the evaluator |
| `PatternText` | the parser of pattern texts, and how a pattern is written |
| `Frontmatter` | the parser of a file, from lines to clauses |
| `Matching` | `Registry` fed with files: from written blocks through their lines to clauses, to matches and query results |
| `JsonRpc` | one JSON-RPC client: its ids, its calls on their way, the taking apart of answers, a server that says anything of the requests it got |
| `Promises` | the tasks behind promises, and the calls that poll, try, await and wait for them |
| `PromisesProofs` | theorems about `Promises` |
| `Process` | a child and its two pipes, `exec_to_completion` with its timeout, `spawn_child` and the methods of `ChildHandle` with the task of `wait_async` |
| `Tcp` | listeners and streams as slots, the tasks of `accept_async` and `connect_async`, the backlog and the ends of each connection |
| `Udp` | sockets shared by tasks, receives pending at once, queues that overflow, a lossy network |
| `Files` | names, inodes, and calls of scripts and tasks system call by system call: a write may put a part and fail, and the pieces that `append_async` and downloads hand to tokio's `File` may land after the call is over |
| `FileWatch` | watch handles with their callbacks, channels and dropped watchers |
| `StdlibProofs` | theorems about `JsonRpc` and these four |
| `LuaData` | Lua values, field values and JSON: what a value is, and how the engine's become Lua's and come back, with the signature of events; the recursion on members is closed by the instance (`MemberToLua` and its like) |
| `Values` | every converter between Lua values or field values and JSON, blocking and through promises |
| `Requests` | options to an HTTP request, and what is sent; how a body is encoded is a constant, `HttpJson`, which the instance takes from `Values` |
| `Paths`, `Numbers` | path algebra, and what a loop over a text does (`Along`); statistics and vectors |
| `Encodings` | encodings byte by byte, times and the framing of encryption, and one question to these, `Paths`, `Requests` or `LuaData`: what comes back of what was encoded, where paths lead, what is sent of what was asked for, and which events come back through Lua |
| `Library` | one question to `Values`, `Numbers` or `Encodings` at a time, and what the answers should be |
| `LibraryProofs` | theorems about `Process` and `Encodings` |
| `Recursion` | induction and recursion as facts about sets and functions, for the proofs |
| `MC...` | instances for TLC; `MCWaits` has `Promises`, `Process` and `ServiceListener` in one specification, `MCScripts` has `Matching` and `ClauseEnv`, `MCStdlib` has `JsonRpc`, `Tcp`, `Udp`, `Files`, `FileWatch` and `Library` in one, a behaviour being of one of them |

State and actions keep the names of the code; `PROJECT.json` has, for each definition, the lines it
stands for. A definition whose name starts with `Slip` is the next one with a plausible bug: it is
not part of the model and serves to show that a property would notice.

What the models leave out, and why it is safe to:

- *Cascade*: a Lua body is its result (it fails, or succeeds with a list of emissions), chosen anew
  each time, since Lua state outlives a clause. An event is its canonical signature, which is all
  that cycle detection compares. `Matches` is a constant: `Matching` models it.
- *HotReload*: a text is a model value with what the code asks of it (readable, parses, declares
  which extension). The registry is the sequence of texts registered for each path, as a path that
  is registered again is there twice; the order across paths is in `Matching`. How often a path is
  registered is bounded by `MaxEntries`. The drain of a dispatch applies the changes of a batch one
  at a time, with edits between them. A `watch` that fails changes nothing and is no step. Manifests
  that do not parse, errors of the debouncer and lost events of the operating system are left out.
- *Connection*: lines are records, or what is not UTF-8; the engine is whether it has a script and
  an API; a dispatched script makes calls and fails as it likes, at most `MaxCalls` times. The
  channels are unbounded, so full socket buffers are out. A consumer whose request ids are above
  1,000,000 is out.
- *ServiceListener*: the kernel's backlog is unbounded; a thread that cannot be spawned and the
  parsing of the address are out.
- *ClauseEnv*: which clause a pattern covers is a constant (computed in `Matching`); tables are not
  aliased, and a body assigns or emits a bounded number of times between clauses.
- *PatternText, Frontmatter*: a line is the kind its first marks give it, and a text of a pattern is
  a sequence of marks and words; spaces, single quotes and negative numbers are out. A quote on its
  own as a value, at which `pattern.rs:83` panics, is taken for an error.
- *Patterns, Guards, Matching*: floats are out. A body is its lines. The tokenizer of `Guards` is
  asked on its own (`ReadAsWritten`): a text made of tokens is read as these tokens.
- *JsonRpc*: what is asked and answered is the request it is about; the conversions between Lua and
  JSON are out. The server does not put one request's id to what it says of another: no client could
  tell. There is no HTTP timeout, so an answer may never come and no liveness is stated.
- *Promises*: a value is the promise it comes from; entries of a list that are no promises are out.
  One script waits at a time, as Lua is one thread; the tasks run beside it.
- *Tcp*: one address. `read` and `write` hand over what the system says, an error among it, and
  move no socket: what goes over a connection is out, and with it that a `read` of nothing and the
  end of a stream look the same to a script (`tcp.rs:169`). Queries (`poll`, `local_addr`) change
  nothing and have no action. *Udp*: a datagram is its name and whether it is text; every error of
  the system is one. A blocking call that raises changes nothing and is no step; a pending receive
  that fails ends its promise.
- *Files*: a directory one deep; queries and links are out. Any call may fail, at its start or after
  any part of what it writes. *FileWatch*: which event an edit causes belongs to notify; a message
  is its number.
- *Values*: strings and floats are representatives, an integer beyond 64 bits is the float next to
  it. *Numbers*: exact, scaled by their denominators, so rounding is out. *Encodings*: ideal
  algorithms; texts are byte sequences, with letters of one and two bytes. *Requests*: the
  exchange itself, redirects and TLS belong to reqwest.
- *Process*: data is its amount, stderr is like stdout, exit codes are out. One child per behaviour.
  Reading is as much as the pipe holds: the buffer of 8192 bytes is taken to be larger.

## Runs

Passing runs, each over all interleavings of its instance:

- `cascade` (162,190 states). Three events and four clauses in three scripts whose bodies fail, emit
  nothing, a diamond, themselves, or longer cycles; six configurations that cut a tree at depth 0 to
  4 and budget 0 to 6; two dispatches, so that what the first leaves behind shows. Shows that marks
  equal the stack, the depth is bounded, an exhausted budget is final, outcomes and statistics are
  those of the pre-order tree (`ReportMatchesTree`), and every dispatch returns.
- `hot_reload` (343,829 states). Two files in overlapping roots and overlapping extensions, good,
  malformed, unreadable and missing, two edits. Two edits are enough for an edit between a report
  and its application, and for a removal followed by a creation; a path may be registered twice
  (`MaxEntries`), as often as there are roots. Shows `ChangesReachRegistry`, that pending changes
  are applied or dropped with their watcher, and what a reload leaves (`ReloadMirrorsDisk`): a file
  below two tracked roots is registered once for each and runs twice for an event, until an edit
  replaces both by one; roots whose extension is incomplete add nothing; and a file that is edited
  during the call is there with texts it had during the call, no more often than it has roots.
- `connection` (339,479 states). Five lines from the consumer and two calls: enough for register,
  register_api, dispatch, a pipelined request and junk, and for the answer to a failed call to come
  late. A line may also be no text, which ends the thread where it reads it, in its loop or within a
  call, with requests left unread; `RequestService` lets the service give up only then. A closed
  connection stops, so deadlock is not checked; `ThreadEnds` and `NoCrossWait` say what a deadlock
  check would. Also checks that `Connection` implements `RequestService`.
- `scripts` (363,056 states). A behaviour is of one part: what scripts are read as and run for, or
  what their clauses find in the environment.
  *Matching*: six scripts of one to three blocks, up to two registered in any order, and four files
  that do not parse; every event with or without each of four fields, of several types; every query
  of at most two fields; about 240 guard cases; 4,077 patterns, two levels deep; up to three tokens
  of every kind, with blanks between them and without. One question is asked of each registry, since
  an answer changes nothing: a registry that has answered stops, so deadlock is not checked. A
  script is written out as lines and read by the model of the parser. `ReadAsWritten` compares what
  is read with the blocks: bodies with delimiters alone and in pairs, annotations in every position,
  an extension, inherited fields. It is stated for layouts beyond doubt (`WellLaid`): no delimiter
  in a body is followed by what could be a block, and no string in a list has a bar or a bracket. It
  also says of patterns and of tokens that they are read back from their texts, of tokens without
  blanks just when no two next to each other `Glue`. `MatchesAsWritten` compares the whole chain of
  reading, merge, join, match and evaluate with a definition of what a script means that uses none
  of it: some assignment of values to its variables makes every field line fit and every guard line
  true. It is stated for `PlainSources`: no pin, no doubled key or variable, no bare `or` beside
  another guard line. `ApiInScope` holds for all scripts, and so does `FoundIsWhatCanRun` in one
  direction: a clause that an event runs is found by any query for fields of the event; that a
  clause found by a query could run is for `PlainSources`.
  *Environment*: two clauses, a namespace and one inside it, a variable with a
  namespace's name, a library name, a handler and a failing builder, two bindings ever registered.
  `OwnNames` says that a clause starts with its own bindings, the namespaces bound for it now and
  its own emitter, whatever earlier clauses left under these names.
- `stdlib` (780,564 states). A behaviour is of one part: the parts share no state, and each property
  is about one, so their product would show nothing more. A script may stop anywhere and a question
  leads to no other, so deadlock is not checked.
  *JSON-RPC*: two calls of any kind, blocking or not, batches and answers of up to two items, each
  with a result, an error, both or neither, under an id or none: enough for two exchanges whose
  answers are confused, an answer in reverse order, one item said twice. `OwnAnswers`,
  `NothingLost`.
  *TCP*: two listeners for one address, two connections that come and one that is dialled. Enough
  to bind while the listener of before is with a task, and for a result that is dropped with its
  stream. `OneHolder`.
  *UDP*: one socket with a queue of two, three datagrams, three receives: an overflow, receives that
  overtake or fail, a close under them. `OneTaker`.
  *Files*: two names, three inodes, a script and a task, three calls of contents of up to two bytes:
  two calls interleaved and one before or after. A call is over only when what it handed over has
  been written or given up. `AloneIsAtomic` compares the disk with what whole calls would leave,
  unless calls overlapped; where one raised with its file open, and after an `append_async`, it
  allows for any first part of the bytes, as nobody is told how much got there. `AppendsOnlyAdd`
  holds whatever overlaps: bytes are taken from a file only by a write, a copy or a download, or by
  the piece that a failed download left on its way. The theorems are about any number of scripts
  and tasks.
  *Watches*: two handles, three messages. `ToldInOrder`.
  *Library*: each question over small values chosen to be awkward (nothing, NaN, numbers of too many
  bits, strings that are not text, tables with gaps and mixed keys). `TwinsAgree` compares copies
  and blocking and async twins, `EchoIsACycle` what a body emits with what it was given,
  `RoundTrips` encoders with decoders and times with their texts, `RequestAsAsked` a request with
  its options (for a content-type see `content_type` below), `LeadsThere` relative and joined paths
  with where they lead.
- `waits` (150,236 states). A behaviour is of one part, as above. *Promises*: three; lists with some
  of them in both orders, one twice, all, and none. Enough for two waits that share promises, a
  wait_all cut short by a failure, and its leftovers waited for again. Nothing is assumed of the
  script. `WaitsReturn` excepts what the code cannot return from: a wait_any whose promises were all
  awaited before. *Listener*: two services for one socket file, one for a port, two consumers,
  restarts. `EveryoneTakenIn` says that who waits in a backlog is accepted or loses the service.
  *Process*: eight children (at once gone, echoing, reading all before they write, writing first,
  flooding, hanging), pipes of two bytes, input of up to three: output and input fill their pipes,
  separately and together. `CallsReturn` names in `Blockable` each case in which a call may be
  stuck, and shows there is no other. A script may stop, and a stuck call is one of those cases, so
  deadlock is not checked.

The state counts of `scripts`, `stdlib` and `waits` are of all parts together. Types (`TypeOK`,
`TcpTypeOK` and their like) are stated in each module and proved where the module has proofs; no run
spends a property on them.

Runs in which the code does not do what its documentation says (see `findings`):

| Run | The documentation | The code |
|---|---|---|
| `replace_fails` | `replace_file` swaps atomically, `lib.rs:274` | a text that does not parse removes the old script |
| `scope` | the pattern decides who gets a namespace, `README.md:149` | it stays in the globals for all later clauses |
| `killed_on_timeout` | a timeout kills the child, `stdlib/process.rs:21` and `:42` | the child is dropped and runs on |
| `guard_lines` | guard lines are ANDed, `README.md:96` | they are joined as text, and `or` binds weaker |
| `gaps_as_object` | a table that is no array is encoded as an object, its keys made strings, `stdlib/json.rs:30` | integer keys are refused (`:212`) |
| `content_type` | a content-type of the script's own wins over that of an encoded body, `stdlib/http.rs:46` and `:551` | both are sent (`:577`) |

Divergences seen and not checked by a run: an emission beyond the budget drops the clauses left at
its level, where `lib.rs:352` promises an outcome per matched clause and that a bad clause cannot
stop its siblings (`ReportMatchesTree` says what the outcomes are then); a field that a block
declares again without annotations keeps those of the first block, where `parser.rs:134` says a
re-declaration overrides them; `["a|b"]` does not parse, since `find_pipe` does not see quotes; the
error of `call` for an error answer has not the prefix `rpc: ` of `stdlib/rpc.rs:33`, and is raised
before the id is looked at, so it may be that of another request (`OwnAnswers` speaks of values); a
second `watch` drops the changes the first has not delivered, where `lib.rs:358` says pending
changes are always applied; the watcher ignores manifests, which prevent partial loading according
to `extension.rs:7`; a dispatch is answered as a success whatever failed, where `README.md:261`
gives -32000 for a Lua error (the models of all three do what the code does); `README.md:43` says a
pin matches an existing binding, and in the code it never matches (`pattern_match.rs:58`);
`README.md:286` documents a `process_pending` of the watcher that does not exist; a variable used
twice in a pattern is bound to the last of two different values (`pattern.rs:293`);
`remote_api.rs:16` says a call blocks until its response arrives, which a pipelined request cuts
short.

In the library: `accept_async` takes the listener for good, where `stdlib/tcp.rs:286` says awaiting
restores it and `:415` that it is dropped; the promise of `append_async` resolves before the bytes
are in the file, and an error of that write is told to nobody (`stdlib/fs.rs:38`); a copy of a file
onto itself empties it, and a failed download leaves a part, whose last piece may land after the
call has raised (`stdlib/http.rs:632`), over what was written meanwhile (`AppendsOnlyAdd` and
`AloneIsAtomic` name the case); a starting service removes the socket file of a live one
(`server.rs:74`); a table with gaps becomes an object in an HTTP body, where `json.encode` refuses
it (`gaps_as_object`), and an empty one is not the same in all three encoders; an enum comes back
from Lua as a string, so an event that is emitted again escapes the check for cycles (`EchoIsACycle`
says which events do); `path.relative(".", "a")` is `"../a"`; of a response header that comes twice
the last value is kept (`stdlib/http.rs:654`), where `:54` says the first; a timeout of `math.huge`
is zero; `vec` says that holes are an error, and reads only up to the first; no associated data and
empty data are the same to `aead`; `env.list` says it skips what is not UTF-8, and panics; strings
in guards have no escapes, and `"10"` and `"10.0"` are neither equal nor ordered there
(`guard.rs:363`). The models do what the code does, and the properties name these cases.

Fairness. `Cascade`: `WF` of a step of the running dispatch, as it runs on the embedder's thread;
calls have none. `HotReload`: `WF` of each debouncer report and of the call in progress, `SF` of a
dispatch, which is the embedder's part of the contract (`dispatch` is what drains the queue) and
could otherwise be always postponed by other calls. `Connection`: `WF` of the service thread, of the
consumer's reading, and of its answering of calls, which is its part of the protocol; none for its
sending or closing. `Promises`: `WF` of the end of each task and of the waiting call, which the
runtime schedules; none for the script's calls. `Process`: `WF` of the child, of the call in
progress with its timer, and of the task of wait_async. `ServiceListener`: `WF` of each service's
accept loop; none for starts, crashes or consumers. `MCWaits` has these three together. `MCScripts`
and `MCStdlib` have safety properties only.

## Proofs

All for every value of the constants under the named assumption of the module (`CascadeAssumption`,
`HotReloadAssumption`, `RegistryAssumption`, `PairsAssumption`, `ClauseEnvAssumption`,
`ConnectionAssumption`, `PromisesAssumption`, `ProcessAssumption`, `JsonRpcAssumption`,
`TcpAssumption`, `UdpAssumption`, `FilesAssumption`, `PlainAssumption`, `EncodingsAssumption`,
`FieldsAssumption`), which TLC evaluates on the runs.

- `Recursion`: no theorem that takes an operator can be used, so an induction over numbers is about
  the set of those for which the claim holds, and a recursive function is the one built of its
  restrictions. The other modules cite it wherever a function walks a sequence.
- `CascadeProofs`: `TypeCorrect`; `StackSafety` (marks are the stack: inductive with the type
  invariant, because every way out removes one mark and no event is on the stack twice);
  `DepthSafety` (uses both, and that an activation starts only from a frame above the limit);
  `ExhaustionSafety` (the budget only sinks, and a refusal needs it to be zero). `ReportsTheTree`:
  what the contract says is due after the outcomes so far is what the activations on the stack still
  owe, innermost first, until a budget is refused (`RecordInv`); each outcome takes the head of what
  is due, so at the end nothing is. The statistics are counts over the outcomes (`CountInv`).
  `StepsNearTheEnd` is the argument behind `DispatchReturns`: each step lowers a measure (budget, a
  start pending, clauses waiting, activations), whatever bodies emit. That a step is possible, and
  fairness, stay with TLC.
- `RegistryProofs`, of `HotReload`: `TypeCorrect`; `ChangesReachTheRegistry`.
  `ChangesReachRegistry` alone is not inductive: a change in the queue may say "removed" of a file
  that exists again. The strengthening `NothingLost` adds that only watched files are reported
  (`OnlyWatched`), that the last report in the queue for a file that is not dirty agrees with the
  disk (`LastReportFits`), and that the text `replace_file` holds is the file's unless a change is
  pending (`HeldFits`). `ReloadsMirrorTheDisk` speaks of the end of a reload only; `ReloadFits` says
  of each moment that a file is registered with texts it had since the call began, at most once for
  each root walked so far, and, if nobody disturbed it, once for each of these that registers it,
  the root under way included when the file is no longer among what that root has still to do.
  Of `Registry`: `MatcherIsExact`, by induction over how deep patterns nest. `Describes` says what a
  pattern means, of the values of its variables as a whole, where the matcher collects bindings part
  by part: what is described is matched, with those bindings; the other way needs that no variable
  is bound twice (`Unambiguous`), as the code keeps the last of two different values. From it
  `RunsTheFirstDescribed`: of each script the first clause that describes the event and whose guard
  holds runs. `PairsAssumption` says that the recursion is closed, and TLC evaluates it for the
  scripts and events of `scripts`, with `Fits` of `Matching` for the parts; `FirstDescribedRuns`
  itself is no run's property, as `Unambiguous` asks for a set of pairs.
  `ApisStayInScope` and `RunsCanBeFound` hold for whatever matches the parts of lists and maps and
  whatever guards mean. The answer is the one these scripts give (`Answered`), and a clause that
  runs accepts each of its fields; what is left is where the code looks differently at a field:
  `query_subset` at the first of a key, `PolicyToFieldMap` at the last literal, `match_fields` at
  all, and at `:global:` not only as a value but as whatever a field may be.
  `FoundIsExact` is `FoundIsWhatCanRun` with both its halves. `Sample` gives each plain pattern a
  value it accepts, by induction over how deep it nests: the list of the samples of its items, the
  sample of its head before that of its tail (which has to be a list, hence the sorts of tails in
  `PlainAssumption`), the map of those of its fields. A clause that a query finds then runs, but for
  its guard, for the query completed with samples, since a query asks of a field what a match does.
- `ClauseEnvProofs`: `TypeCorrect`; `OwnNamesHold`. Only the start of a clause makes `Starting`
  true, so the proof is about what binding leaves: after the first k bindings each has its handler
  unless a later one of these is at or above its path (`Placed`), and what no binding is at is as
  before (`Untouched`); paths are bound one prefix at a time. `IdsAreUnique`: ids are below the
  counter, unique in each list, and no local binding has one of the engine's.
- `ConnectionProofs`: `TypeCorrect` and `AnswersAreFresh` are one induction, as that the consumer
  hears no more calls than were made needs the order of the calls on their stream (`CallsInOrder`),
  and an answer the id of its call (`Serials`). `PoliteAnswers`: `Politeness` names the seven states
  that a polite consumer and the thread can be in together, by where the one request is.
  `NobodyWaitsForEver` is inductive with the types. `ResponsesInOrder` is the safety of
  `KeepsPromise`. The mapping reads the ids of requests and responses off the streams by recursion.
  What it computes of a stream with one line more or less is proved by induction over its length.
- `PromisesProofs`: `TypeCorrect`; `EachDeliveredOnce`, inductive with the types: a handle is in its
  promise, with the call, or gone, and each action moves one. `WaitAllInOrder` rests on it: the task
  joined now is not among the results, since theirs were handed over and its was not.
- `StdlibProofs`, of `JsonRpc`: `TypeCorrect`; `AnswersAreOwn`. That an answer's item is the
  request's own follows from ids alone, so the strengthening is about ids: each id given out is
  below the counter, and no two requests of any calls have the same one. `BatchesAreComplete` adds
  that an answer that has an item under an id has a last one, by well-foundedness of the places
  counted from the end. Of the others: `SocketsAreHeldOnce`, from an invariant that says where each
  socket is: a listener in its slot or with its task, a connection in the backlog, a result, or a
  slot, and its end open or not accordingly. `DatagramsAreTakenOnce`: a datagram is with its sender,
  in a queue, in a result or handed over, in one of them at most, and what came to an open socket is
  what left it and what waits, in order. `AppendsAdd` needs the types only: of all steps, those that
  take from a file belong to calls that truncate, or to the piece that such a call left.
  `AloneAsOneStep`: while calls do not overlap, each name holds one of the contents the calls so far
  admit for it, except the name of the one call under way, or of the one piece left on its way
  (`AloneInv`). The bytes of a call under way are three parts, one after the other: in the file,
  handed over, and to come; so a failure or a piece that is given up, wherever it happens, leaves a
  first part of them. That the piece of a download lands where the file ends is what overlapping
  calls would break. `TellsAllInOrder`: what a handle was told, what is in its channel, with its
  callback and to come are numbers that rise from one to the next, and all since its start unless it
  was dropped or lost some.
- `LibraryProofs`, of `Process`: `TypeCorrect`; `ExecIsComplete` and `ReadToTheEnd`, both from
  `Accounted`: while the output has a reader, what was written is what was read and what is in the
  pipe. The answer alone does not say why its claim stays true; `Accounted` adds that the pipe is
  empty and its writer dead. `PathsLeadThere` is `LeadsThere`, for all paths. Its parts are
  `NormalFormsLeadThere`, `PathsAreMadeOfTheirParts`, `RelativePathsLeadThere` and
  `OthersLeadElsewhere`. What is folded over a path is one recursive function, `Along`, and each
  fact an induction by appending a segment (`Appending` of `Recursion`). The first rests on the
  shape of what `Descend` has made so far (`Normal`: names, and before them the `..` of a relative
  path): only names are taken back, so that a step up undoes a step down. No bound on how far up the
  paths go is needed, as above the root there is nothing. The third adds that as many `..` as names
  lead back to where the names led from, and that the longest common prefix is a prefix. The fourth
  is about how deep a walk is: a path with a `..` or a `.` left over ends less deep than one of as
  many names, so that the two differ, in a directory deeper than the paths go up (on a shallower one
  both may end at the root). `EncodingsComeBack` is `RoundTrips`, for all strings, URLs, times and
  arguments of crypto. What a loop appends is a concatenation of pieces (`JoinedOf`), so an encoder
  is proved place by place: hex and the characters of UTF-8 by the pieces, percent coding by what
  the decoder has taken after each piece (`PercentComesBack`; what looks like a triplet in the text
  was itself encoded). Base64 is no loop in the model: a symbol is six bits of a group of three
  bytes, a byte is put together from two of these, and what is left over is zeros. That the alphabet
  is found out by trying is harmless, because a text that both alphabets take means the same in both
  (`SameEngine`). Times are division with remainder (`NearestIs`); the carry at a whole second is
  the case that fails without it. Of crypto it is proved that the framing keeps apart what differs:
  the algorithms themselves are ideal by construction, which is an assumption and no result.
  `RequestsAreAsAsked` is `RequestAsAsked`, for tables of any size and whatever `HttpJson` makes of
  a body. That both ways make the same is a comparison of two sets of requests. What is sent of the
  headers is those of the script, each with its key (`PairsOf`), and the library's content-type
  beside them; the statement is about the content-type only where the script gives none, since with
  one of its own both are sent. A form's pairs come in any order, each once (the sequences that list
  a finite set without repetition); decoding keeps the last of a name, so that it has each name and
  nothing else. `EchoesAreCaught` is `EchoIsACycle`, for all events, by induction over how deep a
  value nests: what comes back of a value is a set, never empty, and it is the value alone just when
  all in it is good (`Echoes`). The case that a test would miss is a list with a nil in it: its
  table has a gap, and of the lengths that Lua may find for it the first is shorter than the list
  (`LengthsOfArray`). Signatures are no weaker than values (`SignaturesDiffer`), so what is not the
  event has not its signature. `FieldsAssumption` says that `Fields` holds the events with their
  members and what comes back of them, and that the recursion is closed.

Only model-checked: liveness (`DispatchReturns`, `ChangesDrain`, `ThreadEnds`, `WaitsReturn`,
`CallsReturn`, `EveryoneTakenIn`) and with it the fairness of `KeepsPromise`, which the provers do
not do; what rests on the parsers of files, patterns and guards (`ReadAsWritten`,
`MatchesAsWritten`, `GuardPrecedence`) and on the converters to and from JSON (`TwinsAgree`): these
are RECURSIVE operators over trees, of which the provers take neither the declaration nor the
induction. `TwinsAgree` also compares statistics and vectors, by sums over lists of any length,
nonlinear in their members.

## Not modelled

- `stdlib/regex.rs`, `console.rs`, `env.rs`, `mod.rs` pass their arguments to the regex crate, the
  standard streams and the environment: nothing of their own can go wrong in an order or a bound.
  `testing.rs` and `error.rs` are a builder and error types.
- Of `fs.rs`: `stat`, `exists`, `readdir`, `glob`, `walk`, directories and links, which change
  nothing or keep nothing. Of `http.rs`: the exchange, which belongs to reqwest. Of the math
  modules: rounding, random numbers and clocks. Of `pattern_match.rs`: matching with a context,
  which no caller uses.

## Plan

1. Guards as recursive functions over places, for a proof of `GuardPrecedence`.
2. A run for pins (`README.md:43`) and for repeated variables; bounded socket buffers for
   `Connection`.
3. Directories of `fs.rs`, and `walk` and `glob` while others change them.
