# Bass in TLA+

Bass is a small Lisp whose values describe commands ("thunks") that a container
runtime runs. This directory holds a formal model of the parts of it that are
hard to test: goroutines that are started, stopped and awaited; files that
several processes share; channels that are combined; services that must be up
before they are used; connections that fail and are made again; values that
share memory; and the evaluator, reader and analyzer of the language, whose
state only a long sequence of steps brings into trouble. Every definition is
translated from the code, and `PROJECT.json` names the lines it stands for
(`map`), what each TLC run checks (`runs`), the changes of the code that each
property would catch (`mutants`), and the theorems that TLAPS proves
(`theorems`).

## 1. Inventory

The code is about 20,000 lines of Go (`pkg/bass`, `pkg/runtimes`, `pkg/cli`,
`pkg/lsp`, `cmd/bass`) and 1,000 lines of Bass (`std`). In the table, *M* is
modelled, *p* partly (section 6 says what is left out), and *-* is not.

| component | state | operations | what is hard | correct when | |
|---|---|---|---|---|---|
| run tracker `runs.go` | WaitGroup, stop functions, errors | Go, Stop, Wait, record | Stop and Wait race with Go; reuse of the WaitGroup | Stop reaches and Wait awaits every run, no error is lost | M |
| started thunks, `thunk.go` Start/Open, `cli/run.go` | goroutines, contexts, handler results | start, join, (wait), (read), the end of a script | cancellation through derived contexts, waiting for oneself | the program ends with all runs ended and reported | p |
| lock file memos `memo.go` | bass.lock on disk, flock, globalLock | Store, Retrieve, Remove, (memo) | two locks, crashes while writing, merges with duplicates | it is an atomic table, up to named faults | M |
| `bass --bump` `bump.go` | a copy of the lock file | read, recompute, rewrite | it takes no lock | it only ever replaces results | M |
| across `across.go` | a channel per source, last values | update goroutines, Next, Close | select order, end of sources, interruption | no value is skipped, the end is the end | M |
| host writes and cache `host_path.go`, `cache.go` | files | Write via `.new`, Cache via a temp file | concurrent callers share `.new`; stat then rename | readers see whole files only | p |
| buildkit runtime `buildkit.go` | services, their checks, containers | Run, Read, Export, Publish, Start, Build | services that exit, fail or are stopped in any order | callers get a live service, all goroutines end; images are what the thunk says | p |
| SSH runner `forward.go`, `cmd/bass/runner.go` | connection, error group | Dial, Forward, Wait, retry | keepalive against timeout, partial set-up, one client for all connections | a failure ends everything and is retried | M |
| gRPC runtime `grpc.go` | streams | Resolve, Run, Read, Export, ... | progress and data on one stream, which may end anywhere | an incomplete answer is never taken for one | M |
| protocols `protocol.go`, `pipes.go`, `json.go` | position in a stream | Next | output that ends in the middle of a value | the values are those of the output | p |
| thunk values `thunk.go`, `thunk_*.go` | immutable by convention | With*, Append*, FromValue, ToValue | slices shared between copies | a thunk never changes | M |
| serialisation `proto.go` | - | MarshalProto, UnmarshalProto | parts that a message has no room for | what is sent does the same elsewhere | p |
| command resolution `command.go` | mounts, args, env, services | resolve values to mounts and strings | two sources with one target, relative paths | an argument names where its path is mounted | M |
| paths `path.go`, runtime pool `pool.go` | - | Extend, Clean, FromSlash; Select | `..`, absolute paths, trailing slashes | see the thunk modules | p |
| sessions, custodians `session.go`, `custodian.go` | module cache, closers | Load, run, AddCloser, Close | check-then-act; a closer added after Close | a load returns whole modules, files are closed | M |
| evaluator `operative.go`, `bind.go`, `ground.go`, ... | scopes, continuations | Eval, Bind, Call, Trampoline | a language in continuation-passing style | it means what a direct semantics says | p |
| traces `trace.go`, `continuation.go` | ring of frames | Record, Pop, Reset | overwritten frames, errors that are caught | what is shown are calls under way | M |
| reader `reader.go` | position | Next | comments, meta, unclosed forms, the end of a text | see the evaluator and the analyzer | M |
| REPL `cli/repl.go` | unread input | ReadLine | lines that are read again | see traces | p |
| language server `pkg/lsp` | documents, scopes, analyzers | didOpen, didChange, definition, completion | shadowing; forms are seen innermost first | answers are lexical | p |
| scope printing, shim, CLI, progress, buildkitd, TLS, generated code, docs | terminals, processes, files | I/O, presentation | external tools | - | - |

**Interactions.** `cli.Run` puts one `Runs` into the context; `(start)`,
`(wait)` and handlers find it there (shared state under two locks), and every
operation of the buildkit runtime makes another `Runs` for the services it
needs. `(memo)` calls `recall-memo` and `store-memo`, which open a `Lockfile`
each time; bump loads the same file from another process. Sources meet in
`across` over unbuffered channels. Contexts carry cancellation from a goroutine
to those it made. A thunk is built by builtins, hashed by its message, run by
the runtime of the pool that fits its platform, which may be a gRPC client of
one that `bass --runner` forwards over SSH; the buildkit runtime resolves it to
a command, starts the services that the command needs, and builds an image.
What it writes comes back through a pipe, and a protocol reads values of it. A
Bass thunk without a platform is run in the process by a session, which loads
modules; reader, evaluator, scopes and the trace serve scripts, the REPL and
the language server alike.

## 2. Modules

### Runs and StartedThunks

`Runs.tla` has one operator per critical section of `runs.go` and is meant to be
composed with program counters: `GoSpawn` (wg.Add and the `go` statement),
`GoAppend` (the stop function, appended only afterwards), `StopLock`,
`StopCall`, `StopUnlock`, `Record`, `RunDone`. The WaitGroup is external code:
a counter, the goroutines asleep in it and those it has released and that have
not resumed. A released goroutine that finds the counter raised again panics, as
Go's does.

`StartedThunks.tla` composes it with the main goroutine of `cli.Run`, the runs
of `Thunk.Start`, and readers: the goroutines of `Thunk.Open` and `(export)`,
which nobody tracks. A program counter says where in the Go code a goroutine is
(`go`: between the two halves of `Runs.Go`; `handle`: the thunk has returned,
the handler has not been called; `record`, `leave`: the tail of the goroutine).
A context is the set of goroutines whose cancellation reaches it. What Bass code
does is open: in `code` a goroutine may start, open, join, wait, return or raise
at any time. A handler is Bass code too and may do all of that. A combiner is a
value that anyone may get hold of: whoever is in `code` may call that of any
thunk that was started, its own handler and the thunks that it joins included
(`Join`), and waits in it until the handler is through (`Joined`), whatever
contexts are cancelled meanwhile. An error of a call either leaves the code
(`Raised`) or is swallowed by a `(bind)` around it (`GoesOn`).

### MemoContent, MemoEdits, LockfileMemo, MemoTable

`MemoContent.tla` is pure: what `Store`, `Remove`, `Retrieve` and bump do to the
content of a lock file, duplicates included (`foundMod`, `foundCall` and
`updated` are carried over from loop to loop, and so they are here). A slice from
which elements are deleted is the sequence of those that are kept, in their
order (`Kept`, `Rank`). `MemoEdits.tla` (`EditsSpec`) checks the edits against a
table.

`LockfileMemo.tla` puts the content on disk: an operation takes the flock
(`Lock`), globalLock (`GlobalLock`), reads and edits (`Load`), truncates,
writes (os.WriteFile in two steps) and releases both; it may fail before it
writes (`LockFails`, `LoadFails`), with what it locked released. `(memo)` is a recall, a
computation outside of any lock, and a store. Processes die between any two
steps, writes fail half way, and bump reads, computes, truncates and writes
without a lock. flock(2) under gofrs/flock is external: reentrant through one
handle, released for all of its users at once.

`MemoTable.tla` is the abstract specification: a table with calls that take
effect once between call and return or are refused and change nothing, clients
that die, and faults that may lose entries. `Linearizable` is its specification under a refinement mapping: the
table is the content on disk, or what the one writer is about to write once it
has truncated the file.

### LatestValues and CrossSource

`CrossSource.tla` has the update goroutines (`Reads`, `Closes`, `Leaves`) and
each select of `Next` as an action: the first loop (`Fill*`), the select with a
default (`SelectDefault`, `PollReceives`), the one without (`BlockReceives`),
closed channels (`SelectClosed`) and the end of a context. reflect.Select is
external: any ready case, the default only if none is.

`LatestValues.tla` is what the documentation of `(across)` promises: each list
moves some sources on by one value and skips none, and the end comes when a
source has no values at all or all are listed.

### HostFiles

`HostFiles.tla` has the calls of `HostFilesystem.Write` to one destination
(`Create`, the steps of io.Copy, `Rename`) and the calls of `Cache` to one cache
path (`Stat`, `Open`, `CreateTemp`, the same copy, `RenameTemp`, and the deferred
`RemoveTemp`). Names and files are kept apart, as on a Unix file system: an open
file stays what it is when it is renamed, so a writer may go on writing to what
another has already renamed to the destination. Content is a sequence of blocks
labelled with who wrote them; a block is written at the caller's own offset. Any
call may fail while it copies, and its process may die before any step; both
leave `dest.new` behind. What is lost when the machine loses power (nothing is
fsynced) is not modelled.

### Services

`Services.tla` composes `Runs` with one operation of the buildkit runtime: its
own goroutine, with the starts nested in it (`calls` is the Go call stack of
`buildkitBuilder.Start`, each of which builds the thunk of a service first),
and for each start the goroutine of the health check and that of the solve. The
select of Start is `ReceiveChecked` and `ReceiveExited`, and takes either when
both channels are ready, as Go's does. A health check has a
container, kills its process when the context ends (`Interrupted`, `Killed`)
and releases the container in a defer. The deferred StopAndWait is `Stop` and
`Wait`. External: BuildKit, whose solves and containers end as they like.

### SSHRunner

`SSHRunner.tla` has the loop of `runnerLoop` (`Dial`, `Handshake`, `Forward`,
`CallWait`, `WaitReturns`, `Retry`), the keepalive goroutine of each connection, the gRPC
server and the remote command of each tunnel. The one SSHClient is overwritten
by each Dial: `current` is what its fields hold now, `closes[c]`, `sentOn[c]`
and `sessOn[t]` which connection a goroutine of an earlier one found there. A
connection is lost (`closed`) or goes silent (`stuck`). The dial of TCP times
out; the handshake on top of it does not and looks at no context, so a silent
peer, or a prompt for its host key that nobody answers, holds it up for as long
as it likes (`HandshakeStalls`, `HandshakeResumes`).

### The thunk modules

`Paths` (the strings of path.go, split at slashes), `Thunks` (the types),
`ThunkValues` (FromValue and ToValue of the parts of a thunk), `ThunkMessages`
(MarshalProto and UnmarshalProto), `Commands` (NewCommand), `Builds` (Build: the
graph and the image configuration that BuildKit is given), `Operations` (who
does what for Run, Read, Export, Publish, Resolve, Open, and what is asked of
BuildKit) are pure operators, each on top of the one before. `ThunkBuilding` is the
state machine: `heap` has the arrays and scopes that slices and pointers of Go
refer to; `shelf` the thunks a script has built. Each builtin that builds a thunk
is an action. `Slices` has Go's `append` (in place if there is room, else into a
larger array) and slices that are decoded; it knows nothing of thunks, so that
something can be proved of it.

### The language modules

`Forms` has the values and forms, `Reader` what a text (a sequence of tokens)
is read as, `Scopes` lookup and binding, `Traces` the ring of frames (which
depends on none of the others: a frame is any value). `Evaluator`
is the machine: Eval, Call and Bind descend into a form and return a ready
continuation, which `Go` calls, one step of Trampoline. `EvalReference` says what
a form means by recursion over it, without continuations. `Ground` is the ground
scope: the builtins, and the standard library, which is read and evaluated from
its text. `Scripts` is the state machine of EvalReader and of the REPL.
`Analyzer` is the analyzer of the language server, `Editor` its state machine.

### Sessions

`Sessions.tla` has goroutines that load and run modules: `LookUp` and `Keep` are
the two critical sections of `Session.Load`, everything between them is
interleaved; a run opens files, starts thunks and may fail; its custodian closes
what it was given.

### RemoteRuntime and Protocols

`RemoteRuntime.tla` has the Client's call (`Ask`, `Recv`), the Server's handler
(`Handle`, `WriteStatus`, `Write`, `Respond`) and the stream between them.
`Protocols.tla` is pure: the values that a source returns of a stream of bytes
that ends with io.EOF or an error. Its loops (the Scanner's, the JSON decoder's,
that over the rows of a table) are functions of the places of the text, each
defined by what it does at one place (`LinesFrom` and its like) and what it
does after it.

`MCProgram` composes the parts that do not share state: a behaviour takes one
of them (`aspect`). It also has the texts that scripts, documents and modules
consist of. The other components have a cfg of their own, with an MC module
where a constant needs more than model values.

## 3. Runs: what is checked

| run | instance | what it shows |
|---|---|---|
| started_thunks | 2 runs, 1 reader | `StopReachesRuns`: once Stop has returned, each run is cancelled, also one whose stop function came too late. `WaitIsComplete`: the last Wait misses no run and no error. `ErrorsAccounted`: errs holds exactly the errors of handlers that are through; a combiner returns only after the handler has ended, raises only its error, and saw the outcome that Wait reports. `PanicNeedsReader`: the WaitGroup is not reused too early unless an untracked goroutine is involved. `StopAndWaitReturns` (liveness): nothing but a run that waits for itself, runs that join each other in a ring (one that joins itself among them), or one that escaped through a reader, holds StopAndWait up. |
| memo_edits | every content of at most 3 results in at most 2 memos of at most 2 calls, 2 edits | `EditsFollowTable`: whatever a merge left, a stale duplicate never resurfaces. `UniqueStays`: the edits never create duplicates. |
| lockfile_memo | 2 processes, 1 operation or memoized call each, bump, 1 fault | `WriterExclusive`, `NothingInvented` (what is in the file was computed for its key), `Linearizable` (refinement of MemoTable) |
| shared_lockfile | 1 process, 3 goroutines, 1 Lockfile | the same exclusion and refinement where the flock separates nobody, as in `memo_test.go:152`, and goroutines wait for globalLock while they hold the flock; `OperationsEnd` (liveness): each of them gets both locks and returns |
| cross_source | 3 sources of 0 to 3 values, 1 interrupted call | `KeepsPromise` (refinement of LatestValues), `ReachesEnd` (liveness) |
| host_files | 2 writers, 2 cachers, contents of 1 and 2 blocks | `CacheIsWhole`: the cache path holds one call's whole content, and something once a call has returned. `LastWriteStays`: as long as no writes overlap, the destination is what the last successful one wrote, whatever earlier ones left in `dest.new`. |
| services | a command that needs a service that needs another | `CheckedBeforeUse`: nothing that is needed is used before its check has passed (it may have exited since: no document promises that it runs, and the select does not see to it). `NothingLeftGoing`: an operation that returned left no goroutine and no container. `StopReachesAll`: after Stop everything still going was told to end. `OperationReturns`, `FailedStartsEnd` (liveness): a cancelled operation returns, a failed check does not keep its service up. |
| ssh_runner | 1 runtime, 3 connections, 2 faults | `NoneLeftBehind`: Wait does not return before its connection is closed. `FailureEndsWait` (liveness): a failure ends Wait. `KeepsServing`, `CancelEndsAll` (liveness): but for a handshake that stalls, the runner serves again, also after a command exited quietly and its connection broke, and a cancelled one ends what it set up. |
| program, thunks | from 3 thunks, 2 to 3 on the shelf | `ThunksStay`: thunks are values, but in two cases. `ConfigInherits`: the published entrypoint and default command are those given last. `RoundTrips`: a thunk that was sent does the same at the other end. `PathsResolve`: an argument names where its path is mounted. |
| program, script | 10 lines, 2 typed at a prompt; 12 scripts | `TraceShowsCalls`: the trace shows the newest calls under way, until a caught error left frames behind. `MatchesReference`: the machine ends with what the form means, with the same effects. |
| program, editor | 8 texts, every cursor | `AnswersAreLexical`: a definition is that of the innermost form that binds the name, a completion offers what is in scope. |
| program, load | 2 goroutines, 2 modules, a cycle | `LoadsAreWhole`: only modules that ran to their end are returned or cached, and runs close their files. |
| program, remote | 6 methods, 5 outputs, 4 protocols | `AnswersAreWhole`: a call without an error wrote the whole output, one with an error a beginning of it, and each protocol reads the values of the whole from the first on. |
| memo_hit | 1 goroutine, 2 calls | **violated**: a memoized `null` or `false` is computed again (`or` in `std/root.bass:504`), while the guide says the cached value is returned instead |
| wait_inside_run | 1 run | **violated**: `(wait)` in a started thunk waits for its own entry in the WaitGroup, while its documentation says it waits for started thunks to finish |
| write_race | 2 writers, contents of 1 and 2 blocks | **violated**: writes that overlap share `dest.new` (`host_path.go:67`), and the destination may hold a mix or a part, while the documentation of `(write)` calls writes atomic |

Deadlock is checked in cross_source. The others switch it off because their
systems stop: a program ends, a bounded number of operations is used up.

### Bounds and abstractions

- StartedThunks: a task starts at most once (there is no loop to tell two starts
  apart); the handler's look at the context and its call are one step. Two runs are enough
  for a run that starts a run, for two that race to start, fail or end, and
  for a reader's run beside main's.
- MemoEdits: MaxResults = 3 and MaxEdits = 2: three results fill two calls of
  one memo, or calls of two memos, with a duplicate at each level, and two edits
  show what the first leaves to the second. Outputs in the starting contents are
  all `old`, an edit brings `new`.
- LockfileMemo: MaxOps bounds operations of a goroutine, MaxFaults the failed
  writes, deaths while writing, and overtaking writes of bump. One lock file.
  Bump stops at a torn file; it goes on from another only while a fault is left,
  because its write, made without a lock, may be one. One bump gives one value
  per key (its functions may return a new one at each call; that adds nothing
  that a table could tell). A cut-short write leaves a prefix of the memos,
  perhaps followed by garbage: load swallows what does not parse. Writer preference of RWMutex and the mutex inside gofrs/flock are left
  out: they remove behaviours. LockfileMemo.cfg has a goroutine
  per process, SharedLockfile.cfg three in one, without faults: those are the
  first one's.
- CrossSource: Next has one caller; MaxInterrupts calls are interrupted; sources
  are finite. Three sources are needed for one that is listed, one that is new
  and one that is closed in the same call.

- HostFiles: a short and a long content show what is left of one under the
  other; with two callers one can begin, go on or finish at any step of the
  other. More of them add no names: there is one `dest.new`, one cache path.
- Services: two starts, one nested in the other, have all pairs of a need and
  a call; two siblings and larger trees are covered by the proofs. A thunk
  that is used twice is two starts, as in the code.
- SSHRunner: MaxDials connections and MaxFaults failures; each fault can break
  the work of two later connections, for which three are needed. One runtime:
  tunnels of a connection share nothing but its error group.
- ThunkBuilding: MaxShelf; `MCStarts` begin with a thunk whose command is built,
  with one that has three mounts, a port and a label (so that `append` finds
  room), and with a blank one. Labels, ports and values are few: what matters is which
  are the same. Builtins are called with what is on the shelf, paths into it,
  and `MCPlain`, one value of each kind that a message treats differently.
- Scripts: `MCPrelude` is the text of `std/root.bass` up to `let`, without its
  comments; the lines are such that a closure, a caught error, an unclosed
  form, a stray bracket, a comment, meta and a form over two lines occur. A trace
  of 4 frames (TraceSize, 1000 in the code) overflows in them. Arithmetic is
  without overflow.
- Editor: one document; requests are handled one by one by the server.
- Sessions: MaxDepth and MaxScopes bound runs; a cycle never ends in the code.
- RemoteRuntime: Window bounds the messages on the way; MaxToken is the
  Scanner's limit of 64 KiB.

### Fairness

StartedThunks: steps that only the Go scheduler delays are weakly fair. Code
whose context is cancelled ends: strong fairness, since Trampoline looks at the
context before each of its steps and a runtime aborts its solve. Nothing makes
an uncancelled thunk end, and readers are not fair at all. LockfileMemo: each goroutine's steps are weakly fair;
with operations bounded a lock is free for good in the end, so weak fairness
gets it (the code relies on the kernel and on RWMutex for more). Bumps and new
operations are not fair. CrossSource: sources yield or end, goroutines are
scheduled and the reader calls Next again; reflect.Select needs no fairness of
its own. HostFiles has none: its properties are of safety. Services: each
goroutine is scheduled, calls of the gateway return, and a solve or a build whose
context is cancelled ends; nothing makes a service exit, its ports answer or
the command end. SSHRunner: the loop and the goroutines are scheduled, and a
request is answered or times out; the keepalive's select is left by the context
in the end (strong fairness: the ticker is rarely ready at the same time).
Nothing makes a stalled
handshake go on. Faults and cancellation are not fair. MCProgram has none.

## 4. Proofs

TLAPS proves, for all values of the constants that satisfy the modules' named
assumptions (tlapm 1.4.5, from `StartedThunksProofs`, `MemoEditsProofs`,
`LockfileMemoProofs`, `CrossSourceProofs`, `HostFilesProofs`, `ServicesProofs`,
`SSHRunnerProofs` and `ProgramProofs`):

- **StartedThunks**: `TypeOK`, `StopReachesRuns`, `WaitIsComplete`,
  `ErrorsAccounted` and `PanicNeedsReader` are invariants, for any finite set of
  runs and any readers. The inductive invariant adds: the counter is the number
  of runs that are going (`Counted`); only a goroutine in `wait` sleeps in the
  WaitGroup, and a run is never released from it because its own entry keeps the
  counter up (`Waiters`); and the heart of it, `StopsCover`: each rooted run has
  in its context a run whose stop function is appended, or main is about to
  append it. That is why a Stop that comes between the halves of some `Runs.Go`
  still reaches everything: only another run can be in between, and its own
  context is covered. The half of `ErrorsAccounted` about combiners is an action
  property: of the steps only `Joined` leaves a combiner, and none changes the
  outcome of a handler that has ended.
- **MemoEdits**: `EditsFollowTable` and `UniqueStays`, for a lock file of any
  content, with any number of memos, calls and duplicates, and any number of
  edits. The content stands for a table because `Retrieve` finds the first
  result of a key (`At`, `Out`, `First`): `StoreTable`, `RemoveTable` and
  `BumpTable` say what each edit does to that table at each key,
  `StoreUnique`, `RemoveUnique` and `BumpUnique` that it creates no duplicate.
  The search for a first position uses that every set of numbers has a least
  one (`LeastNat`), which the library states without an operator parameter and
  which stands in for induction over the sequences. `KeptFacts` and `KeptRank`
  say where the elements that a removal keeps end up.
- **LockfileMemo**: `WriterExclusive`, if no two goroutines share a Lockfile
  (which is how `OpenMemos` hands them out) or all are of one process. In the
  first case the flock is the reason (`FInv`: its mode is that of the one
  operation behind each handle), in the second globalLock (`GInv`), which holds
  whoever shares what. Where both fail - processes whose goroutines share
  Lockfiles - one goroutine's unlock gives up the flock of the others.
  `TypeOK` and `NothingInvented` hold without that condition: whatever is in
  the file, in a goroutine's copy or in bump's, and whatever a memoized call is
  about to store, was computed for its key (`KnownInv`), and neither an edit nor
  a write that is cut short or overlaid by another adds to it (the `Known`
  lemmas of MemoEditsProofs).
  `Linearizable`, under the condition of `WriterExclusive`: Init implies the
  Init of MemoTable, and each step, with crashes, failed writes and bump, is a
  step of MemoTable or a stutter. The invariant adds `EditInv`: what an
  operation is about to write is its edit of what is on disk, unless bump has
  overtaken it; after it has truncated, the file is empty. With one writer that
  makes the truncation the point at which the operation takes effect
  (`TruncateMaps`), and writing, unlocking and returning stutters or returns; an
  operation that fails before it is refused, which changes nothing.
- **CrossSource**: `TypeOK`, and `KeepsPromise`: Init implies the abstract Init,
  and each step is a Yield, an End or a stutter of LatestValues, for any number of
  sources of any length. The invariant says that what was received and not yet
  listed is one value per source, received by the call that is going on
  (`NoneLost`), that a source without a case is either that or closed, and that
  only the latter are counted in `exhausted` (`Locals`): N of them means all are
  closed and listed.
- **HostFiles**: `TypeOK`, `CacheIsWhole` and `LastWriteStays`, for any number
  of callers and contents of any length. The invariant says that a cacher's
  file holds the blocks it copied so far and gets its final name when it is
  whole and no longer written to (`OwnTemp`, `CacheDone`), that writers and
  cachers never have each other's files open (`Apart`), and that without an
  overlap `dest.new` is the one writer's own and not the destination (`Alone`).

- **Services**: `TypeOK`, `CheckedBeforeUse`, `NothingLeftGoing` and
  `StopReachesAll`, for any finite set of starts that need each other in any
  way. The invariant says that the starts in progress are the call stack, each
  in the build of the one below (`Stacked`); that each goroutine registered its
  stop function (`Registered`) and is counted (`Counted`), and only the
  operation waits (`Waiting`); and what a check has told and still holds
  (`Checking`). `LeavesNothing` follows since the operation returns from Wait at
  a counter of zero, which means that no goroutine is going.

- **SSHRunner**: `TypeOK` and `NoneLeftBehind`, for any number of connections
  and faults. The invariant (`Safety`) says that, but for connections that a
  failed Forward abandoned, a keepalive closes its own connection
  (`ClosesItsOwn`), has ended only when that is closed (`EndedIsClosed`), and has
  ended when the loop goes on from the connection (`LeftHasEnded`).
- **Sessions**: `LoadsAreWhole`, for any number of goroutines and any text of
  the modules (`SessionsAssumption`), modules that load themselves included. The
  invariant says that each run under way is of a scope of the list and has
  ended only with the scope whole (`StackInv`), that what a load returned or
  the cache keeps is whole and of its module (`KeptInv`), and that a file that
  a custodian still has belongs to a run that goes on or that started a thunk
  (`FilesInv`).
- **RemoteRuntime**: `AnswersAreWhole`, for any outputs, any windows and any
  line limit (`RemoteAssumption`, `ProtocolsAssumption`), and wherever the
  stream breaks. The invariant (`RInv`) says that what was delivered begins
  the whole output, that the messages under way have the places after it, with
  none missing between (`Numbers`), and that a status that says ok comes after
  all of them. What a
  protocol reads of a part is the other half: `ProtoReads`, a theorem of its own, says that a text cut off
  by an error gives, through each protocol, values that every longer text gives
  in the same places, but for a last line that is not ended, and then an
  error. For this the recursive functions of Protocols must be known to exist:
  `FixedPoint` shows that a function of places has a fixed point if its value at
  a place depends on later ones only, and `Downwards` stands in for
  induction; both come from the least number of a set (`LeastNat`).
- **Traces**: `TraceRing`, for a ring of any size and calls to any depth. `Holds`
  says which calls the ring has, from `low` + 1 on, each in the slot of its
  depth, all other slots empty. `NewTrace` holds none, `Record` and `Pop`
  preserve it, and then `Frames` gives exactly these calls, in order. What it
  needs is arithmetic of slots: depths less than a ring apart have different
  ones (`ModDiffers`), a ring apart the same (`ModAround`). This is the part of
  `TraceShowsCalls` about `trace.go`, up to the first `Reset`; that the evaluator
  pops what it recorded remains with TLC.
- **Slices**: `SlicesStay`, for any number of slices made, copied and appended to
  in any order, with any values. `Shelved` says that each slice reads what it read
  when it was made, and that only the longest slice of an array was not yet
  appended to in place. So what is overwritten by the first such append to a
  slice is read by no other: only a second one (`Collide`), or one to a part
  of a slice (`Overwrites`), changes what a slice reads. This is the part of
  `ThunksStay` about the heap; that a thunk depends on nothing else in it, through
  thunks in thunks, remains with TLC.

Only model-checked: liveness and what else needs ENABLED, out of the prover's
reach (`StopAndWaitReturns`, `OperationsEnd`, `ReachesEnd`, `OperationReturns`,
`FailedStartsEnd`, `FailureEndsWait`, `KeepsServing`, `CancelEndsAll`); and the
properties of the program run but `LoadsAreWhole` and `AnswersAreWhole`:
`ThunksStay`, `ConfigInherits`, `RoundTrips`, `PathsResolve`, `TraceShowsCalls`,
`MatchesReference` and `AnswersAreLexical`. Their operators recur over thunks,
forms and texts (RECURSIVE), for which tlapm has no back end here, and what they
compute is a matter of induction over data.

## 5. Hazards

`PROJECT.json` lists them at their lines, with the properties that would catch
them going wrong, or a note why none does.

What the models say of the code and a reader may not expect (each is in the
model as the code has it, and where a property would not hold because of it, the
property names the exception):

- Thunks. `with-args` of a thunk that has arguments appends to its first one and
  so writes over the arguments of the original (`thunk.go:509`); if an argument
  is a path into the original, the thunk contains itself (`Forever`). Two mounts
  or ports added to one thunk whose array has room end up in one cell: the
  second replaces the first (`ThunksStay`: `Overwrites`, `Collide`).
- Messages. A host or cache path loses its globs unless it is a mount source, a
  secret its value, an embedded path the place of its file system (`Partial`).
- Commands. Paths with one target are mounted once, the first wins (`Shadowed`:
  globs, or a host directory and a cache of one name). The rewriting of a path
  relative to the directory is wrong if the directory climbs with `..`, and does
  not end if it is absolute (`command.go:382`).
- Operations. A path of a thunk is read from the first entry of the tar stream.
  A Bass thunk without a runnable command panics.
- Started thunks. A thunk whose handler calls its own combiner, or handlers that
  call each other's, wait for ever, and StopAndWait with them (`Hung`):
  `wg.Wait` (`thunk.go:369`) looks at no context.
- Lock file. A save that is cut short, and each write of bump, may lose memos
  that others stored: `Linearizable` has them as faults of the table.
- Traces. An error that `(bind)` catches leaves its frames (`ground.go:214`);
  WriteError resets the depth but not the frames, and at the prompt a later error
  may show them; frames beyond the ring are lost.
- Reader. In a form that is not closed and ends in a comment, the end counts
  as the end of the text: the form is dropped without an error. A comment line before
  a closing bracket makes that bracket unmatched.
- REPL. When a line ends in the middle of a form, all that was typed since the
  last complete reading is read again, the complete forms among it included.
- Language server. Forms with a comment or meta are analyzed twice; the values
  of a `let` count as inside of it; a completion in the middle of a line takes the
  rest of the line as its prefix; closing a document keeps its scope.
- Sessions. Concurrent loads of a module run it more than once; a cycle never
  ends; what the handler of a started thunk opens after the run may stay open; a
  module's own files are closed when its load returns.
- Services. A failed check leaves the service up until the operation ends. A
  service that exits after its check has passed may still be taken for up: the
  select may take either channel (`buildkit.go:447`).
- SSH runner. A peer that is silent in the handshake blocks the runner, its
  retries and its cancellation (`forward.go:66`), and so does the prompt for an
  unknown host key (`runner.go:86`). A remote command that exits with 0 ends quietly, and Wait goes on.
  A Forward that fails abandons its connection. A keepalive that is scheduled
  only after the next Dial closes the wrong connection.
- gRPC. `Client.Publish` panics (it takes the message of the ref for that of the
  thunk, `grpc.go:204`), and the server decodes the ref into the thunk
  (`grpc.go:366`). Handlers run with the context of the server: what a client gave
  up goes on. A client whose writer failed leaves its stream unread.
- Protocols. The last line before an error may be a part of one. JSON output
  that ends inside of a list or an object counts as the end of the source:
  what was incomplete is dropped without an error.

## 6. Not modelled

- Scope printing (`scope.go:125`), highlighting, progress, error formatting,
  avatars: presentation. Nothing in the program depends on them.
- The tar protocol, sinks, sources in memory, JSON strings and objects, JSON
  encoding; builtins about text, time, JSON and the host.
- ociCache, secrets, file syncs, Prune and the construction of the buildkit
  runtime; what BuildKit does with what it is asked.
- The shim (a process in the container: exec, reaping), buildkitd's
  installation and TLS: I/O with external tools.
- Hover, symbols, formatting and code actions of the language server; flags of
  the command line.
- The goroutine of a health check that waits for its process
  (`buildkit.go:801`), which is taken with the check, and an error of `Release`,
  which the code drops: a container that BuildKit does not release is BuildKit's.
- Paths and thunks in the place of a combiner, and a path that is extended by
  evaluation (`ExtendPath`), in the evaluator: the texts of the run have none.
- Generated code, documentation, tests.

What could be done next: Services and StartedThunks as refinements of a common
specification of what Stop and Wait promise; and the evaluator over
continuations that are numbered in a heap, as the slices are, so that what it
records and pops can be proved about (the rest of `TraceShowsCalls`).
