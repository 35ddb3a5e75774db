# mless verification project

TLA+ specifications of mlessd, the daemon of mless that runs AWS lambda
functions in local containers, with the configurations that model-check them
and machine-checked proofs of their safety properties. Paths below are relative
to the repository root (`src/...`).

## 1. The system

A proxy in AWS forwards every invocation of a lambda function to mlessd over
HTTP. mlessd looks the function up in a SAM template that the developer is
editing, finds or starts a container that has the function's code (which the
developer is editing, too), hands it the event and returns its answer.

    proxy --HTTP--> server.invokeHandler (a goroutine per request)
                      | functions.Refresh, functions.Get      formation.Functions
                      | run.Get                               mlessd/run
                      |    hashDir, runners, debuggerReservations
                      |    runtime.New --> stdiocont | nodecont   (lambda.Invoker)
                      | Invoke --> jproc --stdin/stdout--> runtime-mock.py
                                   http + stdout        --> awslambda-mock.js

### Inventory

| Component | State | Operations | What makes it hard | Correct if |
|---|---|---|---|---|
| run pool, `mlessd/run` | `runners` (a concurrent map), `debuggerReservations` under a mutex, the containers | `Get`: hash, look up, close the outdated, reserve, start, watch, store | every request calls it at once; code is edited meanwhile; containers die; a start fails half-way | requests run current code, as far as its hash shows; a runner matches its request; one owner per debugger, never leaked; nobody's request is cut off |
| json process, `util/jproc`, `runtime/stdiocont.go`, `runtime-mock.py` | a mutex, two pipes, `err` and `Done`; the mock's `_GLOBAL_*` flags | start-up exchange, `Send`, `Close`, the waiter | untagged replies in order only; the process dies or is killed at any point; functions hang | each call gets its own answer or an error; faults are attributed to their invocation; every call returns |
| node container, `runtime/nodecont.go`, `awslambda-mock.js` | a mutex, an http connection and its pool, stdout; a server that serves one request and is re-armed | `Invoke`, `Close`, the waiter; `_recieve`, `wait`, `reportDone` | two channels of different timing; the function cannot end while the connection is open; functions may write on stdout | the same, and no call is run twice or lost |
| container interface, `lambda.Invoker`, `runtime.Container` | - | `Invoke`, `Close`, `Done`, `Err` | two implementations | serialized; at most one run per call |
| template, `formation/functions.go` | the table, `modTime`, a mutex, a ticker | `New`, `Refresh`, `Get`, `Close` | Stat and Open are not one step, the editor writes in between; modification times are coarse | requests see a fresh table; it follows the file; it never goes back |
| environment key, `util/envstr` | - | `Encode` | special bytes, the map's random order | two environments have one key only if they are the same |
| http server and daemon, `mlessd/server`, `cmd/mless` | the global `functions` | `mlessd`, `Start`, `invokeHandler`, `jsonHandler` | template, code and containers change between the handler's steps | an answer comes from what was on disk when the request was accepted, or newer |
| runtime set-up, `runtime.go`, `python.go`, `nodejs.go`, `debugger.go`, `prepareEnv`, `fix`, the `START` scripts | the configuration of a container: image, code directory, handler, environment, debugger | parse the debugger, merge the environment, make key and hash, write the environment file, build a command line | what a container is made of goes through a table, a key, a hash, a shell script and a message | a reused container is what a new one would be; the configured handler runs in the configured environment |
| stderr, `util/jproc/stderr.go` | a pipe, the scanner's buffer | `StdErrCallback`, `StartWithStderr` | the pipe and the line length are bounded, the process may end at any byte | the log is what was written; logging does not block a function; the goroutine ends |
| loggers, process attributes, proxies, examples, vendored code | - | - | - | not modelled, section 7 |

`PROJECT.json` lists every hazard at its line with the properties that cover it.

## 2. Modules

| Module | What it is |
|---|---|
| `RunnerPool` | `run.Get` step by step for concurrent requests; containers as a process and a mutex; the developer's edits |
| `Invoker` | abstract: what `lambda.Invoker` and `runtime.Container` promise |
| `JsonProcess` | jproc, stdiocont and the python mock; refines `Invoker` |
| `NodeContainer` | nodecont and the node mock; refines `Invoker` with refusals |
| `Template` | `formation.Functions` and the file it follows |
| `EnvKey` | `envstr.Encode` |
| `RuntimeSetup` | what becomes of a definition and an environment on their way into a container |
| `StdErr` | the stderr pipe of a container, `StdErrCallback` and its scanner |
| `Mlessd` | the daemon: start-up and `invokeHandler`, composed of Template and RunnerPool |
| `RunnerPoolProofs`, `TemplateProofs`, `JsonProcessProofs`, `NodeContainerProofs`, `RuntimeSetupProofs`, `StdErrProofs`, `EnvKeyProofs`, `MlessdProofs` | the theorems about the module of that name and their proofs, section 5 |
| `MC*` | the values of constants for TLC (Template, StdErr and Invoker need none) |

Every module says in its header what it abstracts. An operator whose comment
begins with "Mutant" is not part of a specification: it is the next definition with a
plausible bug, and documents which property notices that bug.

### RunnerPool

A call of `Get` starts at most one container, so a container is named by the
request that started it: `proc[r]`, `loaded[r]`, `serving[r]`; `key[r]` and
`hash[r]` are what it is cached under. `pc[r]` walks through the code:

    idle -Arrive(k)-> hash -HashFile..-> load -Load-> check -Reuse-> invoke
      check -Outdated-> close -CloseOld-> (Miss)   check -NotRunning-> (Miss)
      Miss -> reserve -Reserve-> launch   reserve -ReservationRefused-> load (no debugger)
      launch -Launch-> handshake -Handshake-> store -Store-> invoke
      launch/handshake -LaunchFailed/HandshakeFailed-> failed or panicked (GiveUp)
      invoke -Begin-> busy -Respond-> replying -Reply-> replied
      busy/replying -InvokeFailed-> failed

Each step is what lies between two accesses to shared state: `hashDir` reads
one file a step, `runners.Load`, the `IsRunning` check and the close of an
outdated runner are steps of their own, `reserveDebugger` is one because of its
mutex. After a start the container goes `up -> crashed/killed (Crash, CloseOld)
-> done (Reap) -> gone (Watch)`. A reply that was written (`Respond`) is decoded even if
the process has died since (`Reply`), and a call may fail although the process lives
(`InvokeFailed`): NodeContainer shows how.

A start that fails gives the reservation back at once (run.go:70), whatever became of
the process: python's was sent a kill and has yet to die (`"doomed"`,
stdiocont.go:48-54), node's is left as it is, dead or alive (`"orphan"`,
nodecont.go:68-73). Neither has a watcher.

`code` is the version of each file, `stamp` what `hashDir` sees of it without reading
it (hash.go:21): its size, mode and mtime, named by the version they are from. `Edit` may
leave the stamp as it was: a save of the same size within one tick of the file system's
clock, or with an mtime set by hand. `HashFile` reads stamps; the content of a runner's code is
the versions its container loaded (`LoadFile`), which it does before it answers a
first event. Not modelled is a stamp that goes back to an older one: a file of the old size,
restored with its old mtime, which `hashDir` cannot tell from the old code.
A request comes with any key of `Asked`, the keys that the template can make of the
function; `Mlessd` says which.
`want` and `arrival` are ghosts: what the request asked for, and the stamps on
disk when it came. FreshCode promises code as new as these stamps: a save that
`hashDir` cannot see is its exception, as `hidden` is in Template.

DebuggerExclusive counts every container with a debugger that lives, those a failed start
left behind included. Of those that share a resource, at most one is not
`Abandoned`, that is, can be handed to a request; the code does not promise more, since a doomed or
orphaned process may still hold the port when its successor starts.

### Invoker, JsonProcess, NodeContainer

`Invoker` has a call `ready`, then `serving`, one at a time; `Run` (the function, once),
`Answer` with what it did, `Fail` only when the container is down - or, if
`MayRefuse`, when the function was not run; `Stop`, after which its `fate` is `"closed"`, only
when no call is served; `Crash`, after which it is `"dead"`, at any time. That `Close`
waits for the call being served is thereby part of what the refinement shows: the refinement mapping
(`Fate`) makes a container closed from the kill of a `Close`, and dead from a death of its own.

In `JsonProcess` the goroutines are `Starter` (newStdiocont's exchange), the
calls and the closers; `Lock`, `Encode`, `Decode`, `Kill` are the statements of
`Send` and `Close`; `Waited` and `CloseDone` those of the waiter; `ReceiveStart`,
`ReportRunning`, `InitDone`, `ReceiveInvoke`, `ReportFault`, `ReportDone` are the mock's
functions in the order its bootstrap calls them. A message in a pipe is the
call it belongs to; a reply has the `errors` flag; a process that dies in the middle
of a line leaves `Cut`. `Exit` may happen at any step.

In `NodeContainer` the request goes over `conn`/`wire` (`Dial`, `Refused`,
`Receive`, `Posted`, `PostFailed`, `IdleTimeout`) and the answer over `stdout`. `armed` is
the listener, `msg` a request that came before `waitForInvoke`. `FunctionEnds` is enabled only
without a connection, as nodejs.go explains (13-20). The functions of `Chatty` calls may write on stdout: an object that
decodes (`Stray`) or text that does not (`Junk`, on which the decoder stays stuck); `chatty`
is the set of those that may, fixed in an initial state. ImplementsInvoker is claimed
for the behaviours where it is empty, OwnReply and CallReturns for all of them.

### Template

The file has a content (a version, `Bad`, `Missing`) and a modification time;
`Write` is the developer. A refresher (`Opener` in New, the ticker, requests) goes
`refresh -Refresh-> stat -StatNew-> open -Open-> assign -Assign->`, or leaves at
`StatFailed`, `StatSame`; requests then do `Get`. The `Ticker` is a goroutine of its
own: `Range` reads `ticker.C`, `Fire` is the timer, `Tick` takes a tick, `Panic` is a `Close`
that was there first. The clock may stand still between two writes (file systems of
the time kept seconds): the mutex orders the refreshers, not the editor, and a write
that keeps the time of the one before is invisible to `Stat`. The ghost `hidden` marks that
state, and FreshDefinition and Reloaded promise nothing for it.

### EnvKey

The loop of `Encode` visits the variables in any order (`Visit`), then sorts and
joins (`Return`): sort.Strings leaves any arrangement of the list (`Arranged`) that is
`Sorted`. `Variables` is a reader of the key, the reference that shows that nothing is
lost; `Listings` is the reference for the order.

### RuntimeSetup

`Function`, `ParseDebugger`, `PrepareEnv`, `RunnerKey`, `HashDir`, `EnvFile`, `New` are the
functions of the code on abstract data: a directory is its path and a version, the value of a
variable is the sequence of its words. `EnvFile` is the lines that `writeEnvFile` may write, in
any order, that of `_HANDLER` last. `Sourced` is what the `START` scripts make of them:
of `export k=v w` the first word of the value is given to `k`, as the shell expands it (`Expands`:
`$`, a backslash, a glob), and a later word that reads `name=value` (`Assigns`) is an assignment of its own, which may
overwrite a configured variable, restore one that `prepareEnv` cleaned away, or set
`_HANDLER`. Each assignment is overwritten by later ones. Words that end a command or join words
and lines (quotes, `;`, `&`, `|`, newlines) and later words that are neither a name nor
`name=value` are outside the model. `New` is the set of containers that may
result, as the function sees them (image,
code, handler, environment, debugger and where it is reached). `Invoke` is a request from
the table to its container; `Change` is one edit of the entry, of the code, or of the
lambda's configuration. Whether a debugger is still taken is left open (the last disjunct of `Invoke`):
that is RunnerPool's matter.

### StdErr

A call writes one line or none, unit by unit, into `pipe`; the scanner moves any part of it
to `buf` (`Read`), passes lines on (`Token`), and stops at a line longer than `TokenSize` (64 KiB in
bufio) or at the end of the text (`TooLong`, `Eof`). `Exit` may come at any unit.

### Mlessd

`template` and `pool` are instances of Template and RunnerPool over disjoint variables;
a step belongs to one of them or to the server, except `Found`, which is both: `functions.Get`
of the template and, with the definition of that moment, `Arrive` of the pool. `Close` and `Panic` of
Template are left out, since the daemon never closes the template.

## 3. Runs

| Run (cfg) | Bounds | Shows |
|---|---|---|
| `pool` (RunnerPool) | 2 requests, 2 debuggers of a node function that share a port; 2 files, each edited once, visibly or not, at any point of the walks; 1.86M states | TypeOK, FreshCode (torn hashes included), RunnerMatches, DebuggerExclusive, ReservationAccounted, NotCutOff |
| `pool_live` (RunnerPoolLive) | 2 requests that compete for a debugger of a python function, one edit, fairness; 92 thousand states | DebuggerExclusive (doomed processes; orphans are in `pool`), Answered, DebuggerReleased |
| `json` (JsonProcess) | 3 calls (2 with one request id), 1 closer, fairness; 18 thousand states | TypeOK, OwnReply, FaultAttribution, KillsBetween, ImplementsInvoker, CallReturns, CloseEnds |
| `node` (NodeContainer) | as `json`, and one of the calls may write on stdout; 173 thousand states | the same for node, without faults but with ServerProtocol and NoReuse |
| `template` (Template) | 1 request, the ticker, New, Close; 2 versions, 2 writes, a clock that may stand still; fairness | TypeOK, FreshDefinition, TableMovesOn, Reloaded, StopsRefreshing |
| `env_key` (EnvKey) | names and values of at most 2 of the bytes `; = A \`, at most 2 variables | Unambiguous, Canonical |
| `runtime_setup` (RuntimeSetup) | 2 requests and 1 change between them; every entry of 2 directories, 3 runtimes, 2 handlers, 6 environments (with values that expand and that assign), 4 spellings of the debugger; 236 thousand states | NoAssertion, HandlerRun, ConfiguredEnvironment, Transparent |
| `stderr` (StdErr) | 3 calls, lines up to twice the scanner's longest, a pipe of 2 units; fairness | LinesInOrder, Unblocked, LastWords, ReaderEnds |
| `mlessd` (Mlessd) | 2 requests, the ticker, start-up; one edit in all, of the template (2 versions) or of the code (1 file); 1.27M states | UpToDate |

Why the bounds are enough to be interesting. Two requests are a holder and one that
finds its code outdated, its debugger taken, its mutex taken or its entry
overwritten. A request runs once, so a longer history is another request: the
proofs of section 5 hold for any number of each.
One edit makes a runner outdated; two files and two walks make torn hashes. Three calls give
a reply left behind by one, taken by a second and missed by the third. Two
writes let the file go broken and good again, or take two versions within one
tick of its clock; two bytes reach every
combination of escape and delimiter. One change between two requests meets every part of a
definition on its own; the environments assign to a variable of the template, to a cleaned one and
to `_HANDLER`. Lines are shorter than, as long as and longer than the scanner's
limit and the pipe. One edit falls anywhere between accepting a request and loading its
code in `mlessd`; more of them are in `pool` and `template`, each on its own. All deadlock
checks are on: each module has an explicit
idle step for the states in which the system may rest.

Runs that are expected to fail state what a comment of the repository says
and show the behaviour of the code that contradicts it:

| Run | Statement | What happens |
|---|---|---|
| `pool_panic` (StartErrorReturned) | run.go:76 checks the closer, run.go:70 does not | a start fails after a refused reservation: nil call, panic |
| `setup_words` (EnvironmentKept) | README.md:22-23, the function runs with "its configured environment" | a value is written unquoted (runtime.go:77) and sourced by a shell: node gets its first word, expanded, and what later words assign |
| `stderr_long` (EachLine) | jproc.go:36-37, a callback "for each line of stderr" | a line of 64 KiB ends the scanner; no later line arrives, and the function blocks when the pipe is full |

### Limits of the code that the models keep

The models do what the code does here, too, and the properties are stated so that they
hold anyway.
- run.go:82: two Gets that miss at once both start a container, and the later `Store`
  hides the earlier one, which lives on unused and unclosed.
- jproc.go:57 and 71: Close waits for the mutex of a call whose function hangs; the deadline of
  the request is no timeout. CallReturns and CloseEnds assume that functions terminate.
- nodecont.go:146: Invoke closes the idle connections of `http.DefaultTransport`, but its request
  went over the package's own transport (nodecont.go:32-42): the connection that
  nodejs.go:20 speaks of stays open until its `IdleConnTimeout` (`IdleTimeout`), and the function cannot
  end before that. Without the timer CallReturns fails.
- nodecont.go:149: after text on stdout that does not decode, every later call of that container
  fails, and the container is not replaced.
- runner.go:26: a runner is running until `Wait` returned; one that is dead and not
  yet reaped is handed out, and its request fails (`InvokeFailed`).
- hash.go:21: a save that changes neither size nor mode nor mtime keeps the outdated
  runner in use, until the next save that does (`Edit`, FreshCode).
- run.go:69-71 with stdiocont.go:48-54 and nodecont.go:68-73: the reservation of a failed
  start is given back while its process may live: python's until the kill takes effect, node's
  for good (`LeftBehind`). The next owner may find the port taken; DebuggerExclusive says that no
  request is ever handed the one left behind.
- runtime.go:77: the environment file is not quoted. A later word of one value may overwrite another
  variable, a cleaned one, or `_HANDLER` if it is the handler's own (`Overwritten` in ConfiguredEnvironment,
  the hypothesis of `RightHandler`).
- awslambda-mock.js:173/184: the answer is written before the listener is armed again; a
  call that is fast enough is refused and fails though the container lives
  (`Refused`; `Invoker` with `MayRefuse`).
- functions.go:73/82: the ticker starts before New's own Refresh.
- functions.go:77: a `Close` before the goroutine's first step makes it panic on
  a nil ticker (`Panic`). mlessd calls `Close` nowhere today.
- functions.go:28: "reload itself when needed" looks at the time only (`hidden`).

## 4. Fairness

Liveness is checked under what the code and its platform give:
- a goroutine that can go on does (weak fairness of its steps), and one that
  waits for a mutex gets it if it is free again and again (strong fairness of the
  lock steps): the Dockerfile builds with Go 1.9, whose mutex hands itself to a
  starving waiter;
- a reply in the pipe is decoded and a call on a dead process fails (`WF_vars(Reply)`,
  `InvokeFailed` on a process that is not up: its pipes and its port are closed);
- the kernel reaps dead processes, timers go off, the ticker ticks while it is
  not stopped, node and the python loop run what is ready;
- separately named, because nothing in the code enforces it: containers answer
  the handshake or die, load their code and answer (`ContainersRespond`), functions terminate
  (`FunctionTerminates`, `WF_vars(Function)`). The deadline of a request is sent to the
  container but is no timeout.

In StdErr the scanner's goroutine and the function go on. Mlessd states no fairness: it
is checked for safety only.

Deaths, edits, arrivals and failures are never assumed to happen.

## 5. What is proved

Each theorem holds for every value of the constants: any number of requests,
calls, closers, functions, debuggers, files, edits, variables, and any sizes. TLC has
checked the properties, and the invariants below, on the instances of section 3
first. The assumptions are the named ones of the modules (`PoolAssumption`,
`TemplateAssumption`, ...): that constants have their types, that the special
values are none of the others and, in RuntimeSetup, that `prepareEnv` removes
`_HANDLER` from the environment.

| Module | Theorem | Property |
|---|---|---|
| `RunnerPoolProofs` | `TypeCorrect`, `Freshness`, `Matching`, `Exclusion`, `Accounting`, `NoCutOff` | TypeOK, FreshCode, RunnerMatches, DebuggerExclusive, ReservationAccounted, NotCutOff |
| `TemplateProofs` | `TypeCorrect`, `Freshness`, `MovesOn` | TypeOK, FreshDefinition, TableMovesOn |
| `JsonProcessProofs` | `TypeCorrect`, `RepliesMatch`, `FaultsMatch`, `KillsOnlyBetween`, `Implementation` | TypeOK, OwnReply, FaultAttribution, KillsBetween, ImplementsInvoker |
| `NodeContainerProofs` | `TypeCorrect`, `FreshConnections`, `AssertionsHold`, `KillsOnlyBetween`, `RepliesMatch`, `Implementation` | TypeOK, NoReuse, ServerProtocol, KillsBetween, OwnReply, ImplementsInvoker |
| `RuntimeSetupProofs` | `Transparency`, `AssertionsHold`, `RightHandler`, `RightEnvironment` | Transparent, NoAssertion, HandlerRun, ConfiguredEnvironment |
| `StdErrProofs` | `LogIsWritten` | LinesInOrder |
| `EnvKeyProofs` | `ReadBack`, `OneKey` | Unambiguous, Canonical |
| `MlessdProofs` | `Components`, `EndToEnd` | Template's and RunnerPool's specifications; UpToDate |

None of the properties but the type invariants is inductive. What has to be
added says why the code is right.

### RunnerPool

The invariant `IInv` (theorem `Invariance`) adds:
- `StageInv`: a request has no process before it launches one, and its process
  is starting exactly while it waits for the handshake;
- `KeyInv`: a key is the one asked for or that key without its debugger, and a
  container keeps the debugger it was started with;
- `OwnerInv`: from its reservation to its release, a container that wants a
  resource is the one that `debuggerReservations` names; a resource has one owner,
  whence `Accounting`;
- `LeftInv`: what a failed start left behind is in no entry of `runners`, and no request looks at
  it, since it never came to `Store`. With `OwnerInv` this gives `Exclusion`;
- `PointerInv`: an entry of `runners`, and the runner a request holds, was started
  under that key, and its hash is equal once the request has compared it;
- `FreshInv`: file by file, the stamp at arrival is at most the stamp the
  request hashed, which is at most the version its container loads, which is at most
  the version on disk now: stamps and versions only grow, and a stamp is never ahead of
  its file. A reused runner has the
  hash of the request, hence code as new as the stamps at the request's arrival. `Arrive` may come with another key of `Asked`
  than the one before it: the lemma `OwnerRekey` says that a request without a process owns nothing,
  so its key is free to change. This is why the order hash, look-up,
  start, load matters, and why a torn hash does no harm;
- `ServingInv`: a process serves the request that holds its mutex, so a `Close`
  that has the mutex kills nobody's request.

### Template

Who is between `stat` and `assign` holds the mutex and is alone there
(`LockInv`). Versions and times grow together (`VersionInv`, `TimeInv`), so the version
that the holder read is at least the table's, and the table never goes back
(`MovesOn`). `CurrentInv`: when the time on disk is the remembered one and nothing is
`hidden`, the table is the file - which is what entitles `StatSame` to skip the read.
`RequestInv`: a request has an arrival time such that any table read at that time or later
is as new as what it could see, and when it comes to `Get` the table is one of those -
whoever it was that refreshed it.

### JsonProcess and NodeContainer

Replies have no tags, so that a reply is the caller's own depends on the whole
exchange. In JsonProcess the invariant describes where the one exchange that may
be going on is: with the holder of the mutex, and at one place of encoder,
request pipe, mock, reply pipe, decoder; every pipe is otherwise empty or
cut off by a death, and a container whose streams are out of step is never
used again (`ExchangeInv`; `WorkerInv` for the `_GLOBAL_*` flags of the mock). NodeContainer's has three
layers. `ProtocolPart`: who holds the mutex, whose request is on the connection, and that the listener is
closed from the receipt of a request until it is armed again. `RunPart`: a call runs
once, after it was posted, and a reply that names a call tells that call's outcome; this
holds for functions that write on stdout, too. `NodePart`: unless functions do, at most one
exchange is under way, that of the goroutine that waits. `Implementation` shows each initial state and each step to be one of
`Invoker` or a stutter: a call is answered with what its own run of the function
produced, and fails only when the container is down or, for node, when it was not run.

### RuntimeSetup

A runner is reused when key and hash agree. `SetupInv` says of each runner in the
table that its container is `Made(key, hash)`, the one that any request with this key and this
hash would make (`Transparency`): nothing of a request reaches a container except through the two,
`rid` and a debugger's fallback included. For the environment, the invariant gives that the container's is one
of `Environs`, and the rest is about what a shell makes of a file. The line of `_HANDLER` is the
last, so that nothing comes after its assignment (`HandlerLast`): `RightHandler`, with a hypothesis that
nothing in the code checks, that handlers are one word and not one the shell
expands. A name that no later word assigns to is set by its own line or not at all
(`Undisturbed`), and a plain value is delivered as it is (`Delivered`): `RightEnvironment`, which is, for
node, about the variables whose values are plain and to which no other value assigns. For the others see the
`setup_words` run.

### StdErr

`TextInv` says that what is in the pipe and the scanner's buffer is gapless: each unit is
followed by the next of its line or, after a newline, by the first of another,
and it begins with a line. A cut at the first newline is hence a whole line
(`FirstIsLine`), however `Read` divided the text. The log is a sequence of
sequences, and its length has no bound: that FlattenSeq of a longer log is FlattenSeq of the
log and the new line (`FlattenAppend`) is proved by induction, with a set in place of a
predicate (`Induction`: a set that has 0 and with n also n + 1 has all of Nat), from
the well-foundedness of `<`.

### EnvKey

What the loop has built is a list of items of different names, and they are the ones it has
come to (`ListInv`); the result is the join of a sorted arrangement of it (`ResultInv`). The rest is
about strings, by induction over them (`SeqInduction`, from `Induction` as above). The reader,
in any state between two bytes, takes a string as it was before `Replace` (`RunReplace`),
therefore an item as its name and value (`ItemRun`) and a joined list as its variables
(`RunJoin`): `ReadBack`. For `OneKey`, different names have different items, since the reader tells them
apart (`ItemInjective`); of two strings one comes before the other (`Total`), so that two sorted
listings of a set cannot differ at a first place (`SortedUnique`); and a listing as long as
the set leaves nothing out (`ListingsAll`).

### Mlessd

`Components`: every step of the daemon is a step of Template or leaves it alone, and
the same for RunnerPool. The theorems of both hold in it therefore, as
instances of the proof modules. `EndToEnd` adds `HandlerInv`: a request is in the
pool with the key that its definition gives, and that definition is at least as
new as the template was when the request came (template's Freshness); the pool's
Freshness gives the code. The exceptions of UpToDate are those of the two: a save of the template
that Stat cannot see or that cannot be read, and saves of code that `hashDir` cannot see.

## 6. What is only model-checked

- Liveness (`Answered`, `DebuggerReleased`, `CallReturns`, `CloseEnds`, `Reloaded`, `StopsRefreshing`,
  `Unblocked`, `LastWords`, `ReaderEnds`): TLAPS handles neither fairness nor ENABLED.
  Every invariant and every action property that a passing run checks is proved.

## 7. Not modelled

- loggers, text of errors and messages: no state of the system depends on them.
- kingpin's flags and defaults; the images, the lambda bootstrap and the mlab launcher: external,
  their behaviour is taken from how the mocks, the `.mlab` scripts and mlessd use them.
- what ends a command or joins words and lines in the environment file (quotes, `;`, `&`, `|`,
  newlines), and words the shell refuses to export: such a file may do anything.
- a code file restored to an older size together with its older mtime.
- `http` status 500 of the node mock: it answers a request that does not parse,
  and `json.Marshal` writes none.
- `rid`'s wrap-around at 2^32 containers.
- proxies, examples, vendored libraries. goformation, syncmap and net/http
  appear as what the code uses of them: a read of the file, an atomic
  Load/Store, a connection that goes idle.

## 8. Plan

Done: the run pool, the two containers against one abstract specification, the
template, the key, the runtime set-up, stderr, the daemon as the
composition of template and pool; all of their safety properties are proved.

Next: RunnerPool's containers replaced by `Invoker` (INSTANCE), so that the pool's
container is the one that JsonProcess and NodeContainer implement.
