# Project Apex in TLA+

Project Apex is a desktop editor whose files and processes live on another
machine. A **client** (Rust core under a Tauri shell, Svelte UI) starts an
**engine** on the host over ssh and speaks JSON-RPC frames with it over one
duplex stream. This directory holds TLA+ modules that model the parts of it
whose correctness depends on the order of things, TLC configurations that check
them on small instances, and proofs that TLAPS checks for every instance.

    tlc -workers 2 -config TaskStream.cfg MCTaskService     # check
    tlapm TaskService_proofs.tla                            # prove

Source paths below are relative to `src/`.

## 1. Inventory

### The system's parts and what each keeps

| Part | State | Operations | Hard because | Right when |
|---|---|---|---|---|
| **engine: task service** `engine/src/adapters/outbound/task_threads.rs` | per run a pid/control, a chunker, retained output, a stashed ending; `attached`; escalation deadlines | run, terminate, detach, reattach, release, one reader loop per run, an escalation thread | the dispatch thread, the readers and the escalation thread share it all with a lock per field and no lock over a sequence | output arrives once, in order, before the exit; one exit per run; nobody's process is killed for another's; memory is bounded |
| **engine: task identities** `domain/task.rs`, `use_cases/task.rs` | `TaskSet`: identity → workspace, state | start, close_workspace, drain_all, mark_ended, release | identities are the client's and may be reused as soon as they are released | an identity that is listed can be reached |
| **engine: output** `application/output.rs` | chunker (64 KiB / 20 ms), retention (1 MiB) | accept, drain_due, drain_all, push, drain | boundaries, time | bytes in = bytes out |
| **engine: pty runner** `pty_runner.rs` | exit status once waited for | spawn, read, signal, reap, resize | `waitpid(WNOHANG)`, pid reuse | reports how the process ended |
| **engine: main loop** `main.rs` | one client at a time over stdin/stdout, then over a unix socket | serve, detach, accept while tasks remain, reattach, leave | a client can vanish at any point | leaves only when nothing is left to look after |
| **engine: dispatch** `adapters/inbound/rpc.rs` | workspace registry | one handler per method | serial, but its effects race with reader threads | refused requests change nothing |
| **engine: frame writer** `frame_writer.rs` | one sink, a count of interactive writers | interactive and bulk writes, retarget | two priorities over a lock and a condition variable | frames are whole; bulk is late, not starved |
| **engine: socket** `engine_socket.rs` | one path in the file system | claim, accept, release | two engines starting at once | at most one engine serves a user |
| **engine: watching** `watch_thread.rs`, `inotify_watcher.rs`, `coalescer.rs` | watched directories, a batch under debounce, overflow mark | watch, unwatch, event, flush | renames in two halves, overflow, caps | no change goes unannounced, or a rescan is |
| **engine: git status** `git_watchers.rs`, `git_status.rs` | last status, a refresh under way | refresh, page | a change during a refresh | the last announced status is the repository's |
| **engine: files** `use_cases/workspace.rs`, `std_fs.rs`, `domain/path.rs` | none but the roots | read, write with expected hash, stat, list | compare and write are not one system call | a write over an unseen change is refused |
| **protocol** `protocol/src` | a decoder's buffer | split a stream in frames; wire types | partial input | any split decodes the same |
| **client: transport** `openssh/*` | a child, pending requests, a two-priority send queue, connection state | connect, begin, reply, fail_all, reconnect | three threads per child, and a new child before the old one's threads are gone | every request is answered; the state announced is the child's |
| **client: reconnection** `reconnect.rs`, `supervise.rs`, `composition.rs` | a single-flight mark, backoff | observe, attempt, resume | the announcement that would wake it can come while it finishes | a lost connection is retried, a refused one is not |
| **client: connecting** `connect.rs`, `bootstrap.rs`, `deploy/`, `bulk/` | files on the host | probe, upload, verify, start | partial failure of each step | a half-written engine is never started |
| **client: offline edits** `reconcile.rs`, `conflicts.rs`, `retain_edit.rs`, `edit_file.rs` | `pending_edits` rows: text, base, mergeable | save, retain, reconcile, list, resolve | the network goes at any step; the host changes under it; the user keeps typing | no work of the user's is lost and no change on the host is overwritten unseen |
| **client: cache** `cached_workspace.rs`, `prefetch.rs`, `apply_file_event.rs`, `maintain_cache.rs` | cached contents with a hash and a freshness | read, write, verify, mark, evict | lost events, changes between verify and store | stale content is never called current |
| **client: cache store** `sqlite/*` | tables, schema version | upserts, migrations | a crash between steps | old or new, never half |
| **ui: editor buffers** `ui/lib/editor/*` | text, base, dirty, saving, loading, notice | type, save, load, file event | typing while a save or a load is in flight | what was typed is saved or marked unsaved |
| **ui: terminals** `ui/lib/terminal/*`, **client: task observation** | open terminals, early output | start, output, exit, reattach | output before the start's reply | the screen shows the stream |
| other client and UI parts | | | | listed in `PROJECT.json` with why they are modelled or not |

### How they interact

The UI calls commands of the core; the core calls the engine (request/reply by
id over the transport) and the cache store (calls). The engine announces task
output, exits, file changes and git status by notification; the core passes
them to the UI as events. When the connection goes, the transport fails all
pending requests and announces `Disconnected`; a thread then reconnects and
resumes: it registers the workspace, watches again, reconciles retained edits
and prefetches. On the host, the engine survives its client as long as a task
lives, retains output, and replays it to whoever connects next.

The hazards that follow from this, each at its line, are `PROJECT.json`'s
"hazards", every one with the properties that would catch it going wrong. Four more
were met that no property judges: `task_threads.rs:649` (`waitpid(WNOHANG)` asked
once), `task_threads.rs:126` (the engine leaves with deadlines unfired, and waits to
join readers that wait for a client), `main.rs:204` (the connection of a client that is
gone without closing it is read for ever) and `frame_writer.rs:135` (a bulk writer is
woken only when the count of interactive writers reaches zero, so writers that overlap
hold it back past the eight frames `frame_writer.rs:33` speaks of).

## 2. Plan

| Part | Modules | State of it |
|---|---|---|
| the engine's tasks across threads and reconnections | `TaskService`, `TaskService_proofs` | checked; every safety property proved |
| one file from the editor to the host | `EditorBuffer`, `OfflineEditing`, `OfflineEditing_proofs` | checked; every safety invariant proved |
| ssh children, requests, reconnection | `Transport`, implementing `Exchange`, `Connecting_proofs` | checked; every safety property proved |
| file watching on the host | `Coalescer`, `Watching`, `Watching_proofs` | checked; two of three safety invariants proved |
| what the client asks to have watched | `WatchRequests`, `Watching_proofs` | checked; every safety invariant proved |
| the client's cache and its store | `CacheStore`, `FileCache`, `FileCache_proofs` | checked; every property proved |
| git status from the repository to the marks | `GitStatus`, `GitStatus_proofs` | checked; every safety invariant proved |
| the processes of the engine | `EngineHost`, `EngineHost_proofs` | checked; its safety property proved |
| a terminal from the click to the shell | `Terminals`, `Terminals_proofs` | checked; every safety invariant proved |
| connecting and deploying | `Deployment`, `MCDeployment`, `Connecting_proofs` | checked; every safety property proved |

Left, in this order:

1. `FrameWriter`: two priorities over one lock and a condition variable; `SendQueue`: two
   priorities in one queue, where a cancellation may overtake what it cancels. Both are
   small; what they can do wrong is a delay, and the parts above can lose work.
2. `Framing` (any split of the bytes decodes the same) and the byte rules of `Chunker`: pure
   algorithms against reference definitions.

## 3. The modules

In every module a definition `X_Wrong` stands right before the definition `X` it
is a plausible bug of (a dropped guard, a forgotten reset, a swapped condition).
No specification uses one; `PROJECT.json`'s "mutants" name the property that
fails when `X` is replaced by it, which is how each property is shown to depend
on the code it speaks of. Variables under the heading "history", or gathered in
`ghosts`, are read by no action's guard: they record what a property needs to look back
at. One invariant of every run has the module's `TypeOK` as its first conjunct; its
comment says so. The standard definitions of `Deployment` and `WatchRequests` carry a prefix
(`DeployInit`, `RequestsSpec`, ...): the proofs of each stand in one module with those of
another (`Connecting_proofs`, `Watching_proofs`).

A *circumstance* is such a variable that a property exempts: the code breaks the
property in a way that was looked at, and the exemption is as narrow as that way. Each was
tested by taking it out of the property, upon which TLC finds the behaviour it stands for;
section 5 tells what they are. Definitions after the properties of a module
(`DeliveredExactlyAlways`, `NewestWins`, ...) say what a document of the repository
promises and the code does not keep. To see one violated, put it in the run's
configuration.

### TaskService (engine: tasks, readers, retention, escalation)

*State.* `tasks` and `record` are `TaskSet`; `entries` is `TaskService.entries`;
`pending` is `Escalations.pending`, each deadline holding the run's control
(`Weak<dyn TaskControl>`) and not the identity; `attached` is the atomic flag.
A run is one process, an identity the client's name for it. The bytes of a run
are a stream of units; its chunker, its chunks in flight and its retained output
are adjacent pieces of that stream and modelled by the positions of their ends
(`freed <= kept <= cut <= got`).

*Actions.* The dispatch thread, one reader thread per run, the escalation thread
and the host are interleaved at the granularity at which the code takes and
releases its locks: a flush is `FlushLoad` (one load of `attached`), `FlushPush`,
`FlushEmit`, `FlushDrain` per chunk; a reader's end is `Reap`, `MarkEnded`,
`Deliver`/`Stash`, `EmitExit`, `ReleaseEntry`, `ReleaseSet`; a replay is
`ReplayTake`, `ReplayEmit`, `ReplayExit`, `ReplayEntry`, `ReplaySet`; a close is
`CloseWorkspace`, then `SignalPlan` and `RegisterDeadline` per task.

*Abstractions.* A chunk boundary is any prefix that leaves less than a full
chunk: the 64 KiB and 20 ms rules decide which. The check of the retention bound
is one step with the read that follows it, the lookup of an entry one with taking
its retained output. `Ended` comes only after every byte (guarantee T4 of the
runner port, taken from its contract). A process ends in success or failure.
SIGTERM and SIGINT leave the end to the process. What is written between the
moment the connection breaks and the moment the engine notices (`Detach`) counts
as sent, as it does in the code. The order in which a replay or a close goes over
its tasks (a hash map's) is any order. The client chooses identities, so using a
released one again is legal.

*Circumstance.* `raced[r]` holds once a client came back while `r`'s reader was
alive. `DeliveredExactly` and `NothingDiscarded` say nothing of such a run,
because the code does not keep the promise there (section 5). `RetentionBounded` says nothing
of a run whose identity another run took while it lived: no replay reaches what it retains.
`IdentityReachable` says nothing of a run that took the identity of one asked to stop: a close
frees an identity at once, and the release of the run closed is by identity.

| Run | Bounds | Shows |
|---|---|---|
| `task_stream` | one run, 6 units, retention of 3, chunker of 2, one absence | enough output to fill the chunker, the retention and a batch of several chunks, with the client leaving and returning between any two steps; `ExitIsReported` is the liveness of it |
| `task_reuse` | two runs under one identity, no output, one absence | whatever the first run's reader, deadline and release do to the second (`IdentityReachable` has `TypeOK` in it) |

*Fairness.* Weak fairness of the dispatch thread's own steps and of each reader thread:
threads of the operating system that are never blocked for good by one another (the locks
they share are held for one statement). Nothing is assumed of the client, of the
connection, of deadlines or of processes.

### EditorBuffer and OfflineEditing (one file from the editor to the host)

*State.* `buf` is the buffer of `buffers.svelte.ts` (`EditorBuffer` has its
operations); `save` and `load` are its save and its load under way; `cache` is
the stored copy (`file_contents`), `row` the line of `pending_edits`, `report`
what the last reconciliation said of the file, `due` the reconciliations a
returning connection has asked for, `rec` the one that runs, `res` the conflict
shown and its resolution; `call[w]` is the `workspace/writeFile` request of each of the three
callers; `host` is the file. A content is the set of pieces of text in it, `Mine` or
`Theirs`, so a write that removes what somebody else wrote is visible as such; a
digest is modelled by the content it is of.

*Actions.* Every `await` is a step boundary: `Save`, `Route` (the state is
checked), `Retain` or the request, `SaveAnswer`, `SaveEnd` (the outcome reaches
the buffer); `FileEvent` (the hash is asked for), `FileChanged`, `LoadRead`,
`LoadFill`; `Begin` (the rows are read), `Attempt` (the host has been read),
`Attempted`, `Forget`; `List`, `TakeRemote`/`KeepLocal`/`KeepText`, `Resolved`,
`ForgetResolved`. `Disconnect` fails requests that were not served and may lose
the answers of those that were; `Relaunch` keeps only what is stored.

*Abstractions.* The engine's compare and write is one step here. A three-way merge
of a host that changed is clean or conflicting, either way (`diffy` decides by
lines); a clean one has what both added. The store does not fail. A write's
timeout is a lost answer; the two-second limit on verifying a cached copy is a read
answered by the copy. A row the client cannot decode (not mergeable) is never
written by this client. One file, one editor, one load at a time (`loading`).
No copy is kept of a file in a folder that was never listed or of one that is too
large; `Init` has both kinds. The start content is not the empty file, whose
digest the code also uses for "no file".

*Circumstances.* Two properties exempt exactly the text concerned, which `settled` takes
in: typed while a save or a load was under way, or retained while an older copy of the row
was being settled. `misbased` says that a row or the buffer was given a base with
something of others that its text does not have (`MadeFrom`): the cached copy is newer
than the text that is retained (`offline_overwrite`), a row keeps its base when a load
that began before it replaces the buffer's text and that text is retained over it, or the
buffer is loaded anew while a save is under way, whose answer makes what was saved the
base of a text that was not saved. `untried` and `overlooked` say that a row came after
the reconciliation that was running had looked, or that one was asked for while another
ran.

| Run | Bounds | Shows |
|---|---|---|
| `offline_editing` | two pieces typed, in order, one of others, one loss and one restart or deletion on the host | a second edit over a first, a reconciliation over both, the restart in between or the file going away; the restart brings the second reconnection that a stale base needs to do harm |
| `offline_overwrite` | the same without restart | the finding below |

*Fairness.* Weak fairness of the reconciliation's own steps, the host's answer to it
included (a thread with its own runtime, `reconcile_and_prefetch_if_connected`). Nothing is
assumed of the user, of others on the host or of the connection: `RetainedIsTried` is about
a connection that stays.

### Transport and Exchange (client: ssh children, requests, reconnection)

*State.* `pending` and `slot` are `Registry.pending` and what its senders have sent;
`call`, `result`, `to` are the caller; per child `proc` and `why` are the
ssh process and how it ended, `closed`, `sent`, `replies` its queue and pipes, `reader`
and `errs` the steps of its reader and stderr threads; `live`, `state`, `exit` are
the fields of `SshTransport`; `conn` is the step of `connect_with`; `fresh` says the
watch channel holds a value the subscriber has not seen, `wakers` are the threads
it has started; `running` is `Reconnect.running` and `loop` the step of
`attempt_until_settled`.

*Actions.* A request is `Register`, then `Refuse` or `Push`, then `Await` or
`TimeOut`, and possibly `Withdraw`; a child's end is `Ends` (the host), `Eof`,
`FailAll`, `Lost` in its reader and `Exited` in its stderr thread, in any order
with each other and with `ConnectStart`, `Spawn`, `MakeLive`, `Connected` of the
thread that connects; a loss is `Observe`, `Run`, `Delay`, `Try`, `Failed`,
`Release`.

*Abstractions.* The writer thread and the queue are one set of requests on their way,
in any order: priorities decide the order and no property here is about it. An
engine's error is an answer. A cancellation asks the engine to stop and changes
nothing the transport keeps. The seven failure conditions are two, by what
`response_to` says of them; a delay has no length. Notifications bypass the
registry. The connect use case (`attempt`, assisted or not), `shutdown` and the
test hold are not wired to anything else here and left out.

*Circumstances.* `late` (a request pushed to a queue already closed), `missed` (a
loss observed by a loop that was past looking), `masked` (Connected announced after
the end of the same child), `stale` (a loop begun for a loss that was over): the
code has all four, each by an interleaving of a few instructions. `late` exempts the
request concerned, `missed` and `masked` hold until the next loop or connection;
once a loop was `stale`, `StateIsTheChilds` (of which `OneConnection` is a part) and
`FailedWithItsOwn` say no more of that behaviour.

| Run | Bounds | Shows |
|---|---|---|
| `transport` | one request, two children, one that cannot be started, one waker waiting | every step of a request against every step of both children's threads and of the loop; the second child is where a first one's late step does harm, the failed start is what makes the loop go round |

*Fairness.* Weak fairness of each child's reader and of its stderr thread, of the
thread that connects, of the loop, the subscription and its threads, and of a caller
that began (its time limit passes). Nothing is assumed of ssh, the engine or the user:
`Reply`, `Ends`, `Withdraw` may never happen.

`OneOutcome` is `Exchange`'s `Spec` (`INSTANCE Exchange WITH outcome <- Outcome`):
`Transport` implements it under the mapping of a caller's step to `none`, `waiting` or its
outcome, liveness included.

### Coalescer and Watching (engine: file watching)

*State.* `Coalescer` is `coalescer.rs` as operators on a record: `pending`, the halves of
moves that wait (`from`, `to`), the paths of the bulk window, `overflowed`; an instant is
what remains until it. `Watching` has the host (a root with files and one directory that
goes and comes back, a kernel queue of bounded length), the `WatchSet` with its counts and
its numbering, `InotifyWatcher` with its own numbering and the kernel's descriptors, which are never given out
twice, and a client that keeps what it is told (`view`, `stale`).

*Actions.* Creations, writes, deletions, moves; `Watch`, `Unwatch`, `Reestablish`, `Forget`;
the thread's `Turn` (poll, exclusions, `Accept` each, drain, send) and `Tick`. The kernel
merges an event that repeats the last one, and puts one overflow event, which names no
descriptor, when its queue is full.

*Abstractions.* The thread reads the whole queue in a turn. What a directory holds when it
is first watched is read by the client at that moment. A directory is not moved while it is
watched. `watch_paths` of several paths (`Reestablish`, in any order) is what it comes to for each
directory: acquired when the first path that needs it is reached, and a reason for every path
that needs it.

*Circumstances.* `dropped` (the kernel's queue overflowed), `crossed` (paths whose events the
coalescer puts out of order around a move, or that it still has from when their directory was
watched before), `unbalanced` (a path that was refused or excluded
was released), and `setNext # adapterNext` (the kernel refused a watch, which only the set
numbers). `GrantedIsWatched` speaks of both sides of a kernel watch, the set's entry and the
adapter's descriptor; since a release by a number the adapter does not share takes the
descriptor of another directory, its second part exempts `setNext # adapterNext` as
`NumbersAgree` does, and `RefusedEndsNoOther` is what it exempts. A descriptor may also be of a
directory that is gone: `RemadeIsWatched`.

| Run | Bounds | Shows |
|---|---|---|
| `watching` | two files and one directory with an excluded file, four changes and requests, queue of 4, bulk threshold of 3 | moves with both halves on either side of a window, an overflow, a refused watch, a directory that is made again, a bulk change |

*Fairness.* The thread's turn when it is awake (spelled out, for `Awake` is when it is
enabled) and the clock. `WritingIsTold` lets a file be written for ever.

### WatchRequests (client: what is asked to be watched)

*State.* `declared` and `timer` are `WatchRequester`'s; `asker` the calls of
`workspace_watch` and the resumes that follow reconnections, each with the requests it has
left; `recorded` is `WorkspaceAccess.watched`; `wire`, `replies`; `engine` its counts and
whether it knows the workspace.

*Actions.* `Update`, `Fire`; `Ask`, `Answered` of a command; `Register`, `Rewatch`, `Resumed`
of a resume; `TimesOut` of either. `Sends` is `begin`: what is pushed to the queue of a
connection that is gone goes nowhere, and its asker waits out its time limit (or the next
loss). A request whose time is up may still be served; its answer is dropped. The engine
serves one request after the other, and may refuse each: a root that is gone, a workspace it
does not know, a path. `Lose` fails every request that waits and leaves the engine as it was
(something ran) or new; `Reconnect` begins a resume, which `StopsShort` when its registration is
refused, lost or late, or the cache does not know the workspace.

*Circumstances.* `unasked` (declared, but the request was replaced before its time, refused,
lost or late, or answered and not yet recorded when a resume looked), `unresumed` (on record
when the latest resume stopped short: nothing asks for it again before the next loss), `kept`
(the release was replaced, lost or late, or the engine counts the path twice), `raced` (two
calls were about it at once). `MaxUpdates` 3 and `MaxLosses` 2, four together (`MaxEvents`), let
a command overlap each of two resumes; the paths are symmetric.

### CacheStore and FileCache (client: workspace cache; engine: file requests)

*State.* `CacheStore` has the SQLite store as operators, each one transaction: rows by path,
contents with their digest, `unproven`, retained edits, the schema's version and tables.
`FileCache` has the host's files, the store on disk (`disk.held`, damaged or not, its log)
and the store that is open, the client's phase, one read, one save, the listings and the
prefetch.

*Actions.* The start: `Open`, `Discard`, `Migrate` (one step of the schema each), `Reopen`
(after a rebuild: evict, open anew, migrate as far as it goes, and keep the store in memory
if it does not open), `EvictOld`, `OpenWorkspace`. A read: `ReadFile`, `Stat`, `Confirmed` or `ConfirmElapses`,
`EngineSize`, `EngineBytes`, `EngineDigest` or `BulkFetch`, `FetchAndCache`. A save:
`EngineCompare`, `EngineReplace`, `EngineReread`, `Written`. The prefetch: `Candidates` to
`CacheRanges`. `HostChanges`, `LoseConnection` and `End` come between any two of them.

*Abstractions.* A digest is the content it is of. Rows go by path instead of id. A listing is
its first page, which is what the client asks for. `MarkUnproven` and `Retain` are here as
far as they touch the store; who retains what is `OfflineEditing`'s.

*Circumstance.* `read.raced`: the file changed between the engine's own reads of it, so the
bytes kept are not those of the digest. `StoredWhole` exempts the step that stores them.

| Run | Bounds | Shows |
|---|---|---|
| `file_cache` | two files, one directory, contents of up to two bytes where one may be read at once, four changes, calls, losses or ends | a store absent, older, newer or damaged, left between any two steps; a file read, saved and prefetched while it changes |

### GitStatus (engine: status; client: applier, store, view)

*State.* The repository is a version number of which one or two paths differ; `co` is
`StatusCoalescer`, `held` `StatusPager.held`, `pump` and `dispatch` the two threads that hold,
`jobs` the queue of `git_notification.rs`, `pulls` the two accumulations of pages,
`projection` the store, `shown` the view.

*Actions.* `Change` by way of either watch, `WatchNudges` and `WatchInvalidates`, the pump's
`Begin`, `PumpReads`, `PumpHolds`, `PumpPushes`; the dispatching thread's `ServeObserve` to
`ServePage`, `ServeCursor`, `ServeWatch`, `ServeClose`; `Deliver`, `Invalidate`, `Apply`,
`Commit` on the client; `Reconnect` to the engine that stayed or to another.

*Abstractions.* A page is one path. The debounce may pass at any moment. A reply is taken when
it is written.

*Circumstances.* `lost` (a change can have been missed: a status that failed, a full queue, an
older snapshot held over a newer, a watch that came too late, something of before a close or
a lost connection still on its way; each action that sets it says why), `behind` (the last commit was not announced to the view), `reused` (a generation was
given out again after a close or a restart, so that a cursor fits a snapshot it was not made
for). `git_status` has two steps besides opening: a change while the first status is
computed, and one more of any kind.

*Fairness.* Weak fairness of the threads and of delivery (`System`): `SettlesDown`.

### EngineHost (engine: main loop, socket, restart)

*State.* What each process is at, who owns the socket's path, who waits in a listener's
queue, whom the loop serves and where its frames go (`sink`), whether it has tasks; requests
not yet read and answers owed.

*Actions.* Claiming in its five steps (`Bind`, `Connect`, `Unlink`, `Rebind`, `Listen`), the
proxy's end, the loop's `Serve`, `HangUp`, `Accept`, `Leave`, `Release`, `Shutdown`,
`Restart`, `ExecFails`; clients that start, ask, close; tasks that end; `Crash`.

Any number of processes claim at the same time; a socket is bound in one step and listens in
a later one, and a process whose `exec` succeeded claims anew (`Relaunch`) beside any other.

*Circumstance.* `displaced`: the engines whose path another took from them while they were
alive. `rivals[p]` are those that claimed while `p` had found the path taken. `p` displaces one
of them when it removes the path the rival has bound meanwhile, or had bound and did not listen
at yet when `p` connected; and an engine that was displaced displaces whoever holds the path when
it leaves. `OneEngine` exempts those engines and no others; `NobodyIsDisplaced` is what it
exempts. A process that starts beside an engine that listens, or after one that crashed or
leaves, and a restart that nobody claims beside, are not exempted.

`engine_host` has three processes (an engine, one that comes back to it or starts beside it, one
that claims while it leaves), two requests, one crash. *Fairness:* a process that can take a step of its own
does; nothing of clients and tasks.

### Terminals (ui and client: terminals; engine: starting, typing, resizing)

*State.* `Terminals` and its panels, the effect of `TerminalPanel` with its calls that wait for
the library, `start.ts`'s two marks; the commands the core is at, the wire, notifications and
answers on their way; on the engine the task being created, the keys in each pseudo-terminal,
its size, and the descriptors another process holds.

*Actions.* `Click`, `Key`, `Resize`, `Effect`, `Imported`, `Answer`, `GivesUp`, `Route` (a
notification); `Pass` (a command's frame is put on the queue); `DispatchRun`, `Forked`,
`Marked`, `Began`, `Reported`, `DispatchKey`, `DispatchSize`; the shell's `Reads`, `Prints`,
`Exits`, and `ReaderEnds`. `Resize` changes the room the window has for the panel and tells
nobody: a terminal is fitted to it (`fitted`) when it is attached or its shell has started, by
`terminals.svelte.ts` and `TerminalPanel.svelte`, and only then is a size sent.

*Circumstance.* `overtaken`: every command is a task of its own to the core's runtime, so `Pass`
takes any of those under way; a shell one of whose commands overtook an earlier one of its own
is exempted from `SizeSettles`. That the shell's size is the one its terminal was fitted to is
what the code does; that this is the window's size is `ResizeIsObserved`, which does not hold.

`terminals` has two shells and four steps of people, shells and processes. *Fairness:* the
webview, the core, the dispatching thread and the readers go on; a start is answered or given
up on; a process forked in passing ends.

### Deployment (client: connecting, askpass, bootstrap, deployer)

*State.* Where each client is, the passphrase armed for its attempt, the file each one's `cat`
writes and how far it is (`output`); on the host the files under the names `.staged-<digest>`
and `ide-engine-<version>`, and commands nobody waits for (`lingering`). `world` is a constant of
a behaviour: the release each client carries, the protocol and the version of each release,
which releases run on the host, and the one that was in place. A release is known by its
digest; its protocol and its version are values of their own, so that two releases may share
either, both or neither. A file is what has been written of it; who writes to it follows it
when it is renamed, and finds it emptied when it is opened again.

*Actions.* The silent and the assisted attempt, the prompt, `Answered`; `Establish`, `Select`,
`Check`, `Open`, `Write`, `Sent`, `Verify`, `Discard`, `Promote`, `Handshake`, `Retire`; a
command that fails (a check that does falls through to the upload), and a client that is killed
or asked again at any step. A command whose reply was lost or whose client was killed may still
be run: `Late`. What a broken `cat` had written is written in `Write`, before it fails. `Promote`
and `Retire` are of names: the first replaces whatever has the version's name, the second
removes whatever has the old version's name by then.

*Circumstances.* `shared`, of a file: it was opened, and emptied, while another client sent,
compared or was to rename it, or a late rename of it was pending. `NothingPartialRuns` exempts
such a file (`NothingPartialEver` does not). `mixed`, of a version: a shared file was given its
name, or files of two releases were (`holder` is the last). `AnEngineStays` holds until then;
`AnEngineAlwaysStays` and `AnotherIsRetired` are what it exempts.

| Run | Bounds | Shows |
|---|---|---|
| `deployment` | two clients, artifacts of two chunks, three handshakes, two things that go wrong or passphrases typed, 34 worlds (`MCDeployment`) | clients of one release and of two; the second release with the same or a newer protocol, the same or another version, running on the host or not; a host that is empty or has the first; every step of one client against every step of the other and of late commands |

*Fairness.* The commands of a deployment end (ServerAlive, TCP).

*Taken as given.* Nothing in the program constructs `Bootstrap` or calls `connect` yet: a
handshake after a deployment is taken to reach what has the deployed engine's name, the
version an engine answers with to be the one its file is named after, and a client's
protocol to be that of the artifact it carries.


## 4. What is proved

For any number of runs, identities, workspaces, requests, children, processes, clients, files
and pieces of text, and any bounds that satisfy the `ASSUME`s:

| Theorem | Invariant it rests on | Why the property alone is not inductive |
|---|---|---|
| `TypeCorrect` (`TaskService_proofs`) | `TypeInv` | a status is copied out of `how` and out of `status`: they must be known at those steps, and the dispatch thread must know its task |
| `OnlyTheAskedAreKilled` | `KillInv` | a deadline, a plan and an entry must name a run that was asked to stop while identities are used again |
| `ExitsOnce` | `ExitInv` | who may still send the exit follows from where the reader is and whether an ending is stashed |
| `DeliveredInOrderOnce`, `NothingIsDiscarded` | `StreamInv` | the pieces of the stream are adjacent, the reader's step says which are empty, and the wire holds what lies before them |
| `IdentitiesAreReachable` | `ReachInv` | which run an identity leads to depends on who released it: a run at work nobody asked to stop still has its identity, or lost it to one that was asked |
| `RetentionIsBounded` | `BoundInv` | how much is retained depends on where a flush is when the client leaves: what it found attached, how much of the batch it still holds, and what the chunker holds behind it |
| `NoExitIsForgotten` | `KeptInv`, with `ExitInv`, `ReachInv` and `BoundInv` | an exit that has not been told is with the start that is about to publish the run, with its reader, or stashed with its entry; a release comes only after telling, an ending is stashed only with nobody there, an entry stays until its reader is through, and with a client back the replay is on its way to what is stashed, unless it met the reader at work (`raced`) |
| `NoneIsLeftWaiting` (`Connecting_proofs`) | `TypeInv`, `CallInv` | a request is in the registry, answered, or on its way out at every step between its registration and its end, and `fail_all` finds those of its child |
| `ImplementsExchange` | `TypeInv`, `CallInv` | a caller's result is written once, when it stops waiting |
| `OneConnectionItsState`, `LossFailsItsOwn` | `ConnInv` | who may start a child: at most one of the launch and the loop that holds the single-flight mark, and only after the previous child's end, unless `stale` |
| `NoLossIsOverlooked` | `ConnInv`, `LossIsTaken` | while there is no connection the loss is to be observed, a thread was started for it, or a loop is at it that looks again; until the launch is observed the state says how it came out. Outside `missed` and `masked`, and a loop that stopped and reported (`gaveUp`) |
| `OneEngineServes` (`EngineHost_proofs`) | `HostInv` (`Values`, `Talk`, `FlagsOK`, `Owner`, `Raced`, `Tied`, `Busy`) | who has bound the path has it unless displaced, and who has it listens or is about to; a process that holds the path for stale has whoever is at it by now among its `rivals`, so that the one it takes the path from is displaced; whoever has tasks is an engine. Any number of processes claim at once |
| `TablesMatchTheVersion`, `RetainedIsFound` (`FileCache_proofs`) | `StoreInv` | a store that is kept is the one on the disk, what is owed lies there or in a store that ends with the run, and every operator on a store keeps rows, tables and edits as they were |
| `CurrentIsRecent`, `CachedAsItsDigest` | `CallsInv`, `StoreInv` | a digest in hand is one the file has had since the call began, at every step between the engine's reads; bytes read whole and undisturbed are the file's |
| `RetainedIsHeld`, `TypedStays` (`OfflineEditing_proofs`) | `TypeInv`, `KeepInv` | a save has all that is not held, and the buffer keeps what the save has; a load starts only when nothing is unsaved; what a reconciliation or a resolution took is all of the row, and its write has it; a base has been on the host, so that a merge drops only what is settled |
| `NothingIsOverwritten` | `UnseenInv`, with the two before | every text that will be written, in the buffer, a save, a load, the row, a reconciliation or a request, has what its base has of others, and a merge has what the host has; a resolution's write is conditional on what was shown |
| `RetainedIsDue` | `TypeInv`, `IsDue` | with the connection back a reconciliation is due that will look at the row nobody has tried yet, unless it was `overlooked` |
| `PagesOfOneSnapshot` (`GitStatus_proofs`) | `EngineInv`, `ClientInv` | a cursor fits only the snapshot held; each generation on its way is that snapshot's or of one that is gone for good, for a new one is above all that were given; under `~reused` |
| `EngineKnowsAtRest` | `EngineInv`, `KnowInv` | of every change somebody has still to be told, or somebody is still to read it, or what was read last has it |
| `TheRepositoryIsShown` | `Phases`, `Lineage`, `Brought`, `Viewed` | before an observation nothing is under way, and during one generations only rise; with nothing left to be told of, the repository as it is is on its way with nothing behind that clears it, or the applier is at it, or whoever refreshes is, or the store has it; a superseded cursor leaves it to one of the others. Rests on `MaxPages >= 2`, as many as a snapshot of the model has |
| `NothingPartialIsNamed`, `OneIsAlwaysThere` (`Connecting_proofs`) | `DeployInv` (`Tries`, `Secrets`, `Shapes`, `Writers`, `Alone`, `Verified`, `Newer`) | unless a file is shared, one client at most is at work on it, has written what it says it has and no name leads to it; what is about to be renamed has been found whole; who retires a version relies on a newer protocol's file under another name, unless versions are `mixed`. For every world: any clients, releases, protocols, versions and late commands |
| `OneAtATime` (`Terminals_proofs`) | `Current`, `Once`, `Asked`, `Born` | a shell that has come to be was given up on, or is what `start.ts` waits for or holds, and at most one of these is set; a request is in one place, and of a shell that nobody has created or answered for |
| `TheLastIsShown` | `Panels`, `Stream`, `Newest` | what is on its way continues what was routed without a gap, and of what a panel holds and what it keeps back one is always empty |
| `TheSizeSettles` | `Order`, `Sizes` | the last size on its way to the shell on screen is the one its terminal was fitted to, and a shell's sizes are behind the request to start it; unless the shell's commands have overtaken one another |
| `NoEndIsLost` | `Invariant`, `Ends` | nothing is printed behind the end; it is on its way until it is routed, and a panel that was told of it stays ended or goes: a new one is of another shell |
| `WhatIsGrantedStaysWatched` (`Watching_proofs`) | `Counted` | a directory has at least as many reasons as there are granted paths that need it: what was granted can be let go one by one, and the others keep theirs. While set and adapter have numbered as many watches, an entry's number leads to a descriptor of its own directory: the adapter holds one for every granted path |
| `TheNumbersAgree` | `Counted` | the set never numbers fewer watches than the adapter, and while they have numbered as many, the watches of the two are the same, each descriptor that of its own directory: a release takes no other's |
| `WhatIsShownIsWatched` | `StructInv`, `AskedInv` | a path that is shown stays so until a call adds it, or it is on record and the engine watches it or is to be asked again; an engine that is new is asked by the next resume, and what it granted is watched until it is lost; no call is about to release it. A resume that is the latest and stops short leaves the record `unresumed`; a request whose time is up leaves its paths `unasked`, even if it is still served |
| `WhatIsLeftIsReleased` | `StructInv`, `LeftInv` | a path that is let go is in no call's additions; a call is about to release it until nobody watches it, records it or is on the way to ask for it; on the wire a release comes behind every request to watch; it has one reason at most |

Each invariant is proved by one step per action that can disturb it; a temporal step combines them.
Each was first checked by TLC, on the instances above or smaller ones.
`ImplementsExchange` is the safety half of `OneOutcome`: an initial state of `Exchange`, and
its steps or stutters.

`NoExitIsForgotten`, `NoLossIsOverlooked`, `RetainedIsDue` and `NoEndIsLost` are the safety
halves of `ExitIsReported`, `KeepsTrying`, `RetainedIsTried` and `EndIsShown`: in every state
somebody has what is to be told or tried. That whoever has it then goes on is what TLC shows
under fairness.

The theorems assume nothing of who overlaps or overtakes whom: what a property exempts is the
circumstance it names (section 3), and section 5 tells what the code does there.
`TheRepositoryIsShown` alone has an assumption of its own, `MaxPages >= 2`.

Only model-checked:

- every liveness property, and the fairness of the refinement (the prover handles neither
  fairness nor ENABLED);
- `ToldAtRest` of `Watching`, and with it `TypeOK`: the thread's turn is a fold over the
  kernel's queue, of any length, and what a fold keeps is an induction over data. What the
  requests do to the counts is not: `Watching` has it directory by directory.

## 5. Findings

`offline_overwrite` is a run in which TLC finds what a document of the repository promises
violated by what the code does: an offline save is retained against the cached copy and not
against the text's own base; a newer copy makes it overwrite the host's change.
`PROJECT.json` quotes the line.

The following were seen while modelling. Those with a name are behaviours of the models that
the passing runs exempt as a circumstance; the definition named, put into the
configuration of its run, shows one.

Tasks
- `DeliveredExactlyAlways` (`task_stream`): `flush` decides on one load of `attached`; a client
  coming back to a busy task can be sent a chunk twice, late, or never.
- A workspace is closed and the client goes: the engine leaves with the deadlines unfired.
- A second run under the identity of one that lives takes its entry; what the first then
  retains is out of reach and grows.
- `waitpid(WNOHANG)` asked once can find a failed process not yet to be waited for, which is
  reported as code 0. An ending stashed while a reattach is taking it waits for the next
  reattach. A close releases an identity before the run's exit is delivered. A restart within
  the grace period strands a closed task. The dispatching thread waits in `write_stdin` for a
  task that does not read.

Edits
- A reconciliation that succeeds deletes the row by its path, with an edit that was retained
  meanwhile. A load fills the buffer over what was typed while it read; an answered
  save marks clean what was typed while it was sent.
- `adopt` takes the digest of what was saved as the base of whatever the buffer holds by then.
  The bar of an earlier conflict stays while the next save is under way and offers to discard
  and reload (`EditorPanel.svelte:316`), and a load asks only about other loads: the base can
  be of a text the buffer does not have, with which the next save may overwrite it.
- Keeping one's own side of a file deleted on the host always fails. A file without a copy
  edited offline always ends in a conflict. An online save leaves an older retained row. After
  a conflict is discarded, the retained row is loaded and not the host's bytes. An edit
  retained just behind a reconnection waits for the next one.

Transport
- `RefusedIsNotRetried` (`transport`): a refusal reaches the loop as a connection that was made
  and lost; it connects again without asking why the last one ended
  (`docs/transport.md:141` says never). `NoneWaitsAtAll`, `KeepsTryingAlways`: `late`, `missed`
  and `masked` above.
- A request made during an outage waits its whole time limit, since `live` names the dead child
  until the next is started. Each attempt that spawns ends its loop, so the delay between
  connections that come to nothing never grows.

Watching
- `DroppedIsTold` (`watching`): `inotify_watcher.rs:112` looks up the descriptor of an event
  before its mask; the overflow event has none and is passed over, so `invalidateAll` is never
  sent for it (`watcher-port.md:180`, W7). Exhausting the queue takes a queue that is full
  between two turns.
- `RefusedEndsNoOther` (`watching`): a refused watch makes the two numberings part (`watch.rs:108`);
  releasing a directory then ends another's watch, while paths in it are granted.
- `RemadeIsWatched` (`watching`): a directory removed and made again stays in the set and is not
  watched, however often paths in it are asked for.
- What the
  coalescer holds when a watch is released is told after the directory is watched again.
- Watch requests: a resume whose registration is refused or late asks for nothing again
  (`reconnect.rs:136-145`; `unresumed`), and what the window shows stays unwatched until the next
  loss. A new difference replaces the unsent one, with what it still had to say
  (`watched.svelte.ts:53-62`); a watch that failed is not asked again; a watch answered and not
  recorded is missed by the resume; a resume to an engine that stayed counts every path twice,
  so that a later release leaves it watched; `reestablish` is never called.

Cache
- `DigestIsOfTheBytes` (`file_cache`): the engine reads a file once for the bytes and once for
  the digest; a change in between is kept in the cache as current.
- A rebuild of an unreadable or newer cache discards the retained edits in it. A read answered
  before a save and stored after it puts the older content back, under its own digest.
  A listing is the first page only. `ApplyFileEvent` is wired to nothing.

Git status
- `OneSnapshotAlways` (`git_status`): after a close or on a new engine, generations start again,
  and a cursor of the old ones fits.
- What is queued when a workspace is closed, a push or an invalidation, is applied over what is
  read after it is opened again (seen from four steps on).
- An explicit refresh's commit is not announced to the view. The queue of notifications drops
  the newest where `git_notification.rs:42` speaks of the oldest. A status that fails is
  dropped without a retry. `workspace/watch` nudges before it watches.

Engine
- `NewestWins` (`engine_host`): a client that comes while another is served waits until that one
  is gone.
- `NobodyIsDisplaced` (`engine_host`): `engine_socket.rs:12-16` has connecting before removing keep two
  engines apart. Two starters that find the same stale socket both remove it, the second what the
  first has bound; a socket that is bound and does not listen yet is taken for stale; an engine
  that was displaced removes, as it leaves, the path of the one that took its place.
- A restart or shutdown answers on the process's own output, which after a reconnection is not
  where its client reads; the proxies' clients learn of it by the end of their connection.
  A failed `exec` ends the process where `rpc.rs:995` says it keeps serving. A proxy with a
  client that says nothing outlives its engine (`main.rs:325` says it does not).

Terminals
- `HidingLosesNothing` (`terminals`): the dock is closed and opened while the library loads; each
  of the two calls that waited builds a terminal, and the second's has nothing of what the first
  held.
- `ResizeIsObserved` (`terminals`): `specs/007-execution-terminals/spec.md:211-212` and FR-016
  (`:401`) have the process observe a new size of its panel. Nothing calls `fit` when the window or
  the dock is resized while a terminal is mounted: only attaching it and its start do
  (`terminals.svelte.ts:181-239`, `TerminalPanel.svelte:56`, `start.ts:74`), `onResize` is the
  terminal's own (`TerminalPanel.svelte:76`), and `Window.svelte:293-298` changes the extent alone.
- `KeysInOrder` (`terminals`): each keystroke is a command of its own to the core's runtime, and two
  can reach the queue in the other order; two sizes as well.
- A start given up on whose shell comes up all the same leaves a shell nobody stops. After a
  shell has ended its panel is shown for good, since `forgetTerminal` is never called. A paste
  over 64 KiB is refused and not said so.

Deployment
- `NothingPartialEver` (`deployment`): two clients of one release stage under one name
  (`deploy/mod.rs:84-88`, `:157`): the second empties what the first has compared and is about to
  rename, where FR-006 (`specs/004-daemon-bootstrap/spec.md:311-312`) and SC-012 (`:444`) have an interrupted or
  concurrent transfer leave nothing that runs in part.
- `AnotherIsRetired`, `AnEngineAlwaysStays` (`deployment`): with a newer protocol under the same
  version, `mv` replaces the engine in place, whether or not the new one runs on the host, and after
  the handshake `bootstrap.rs:184` with `deploy/mod.rs:233-236` removes the file of that version: the
  engine just deployed. FR-021a and FR-021b (`:355-357`) have the old one stay until the new one runs.
- `deploy_then_establish` does not compare the protocol again. `disarm` is never called, though
  `ipc.rs:113` says it is. An attempt counts as connected after 400 ms, whatever ssh is at.

## 6. Not modelled

`PROJECT.json` lists every component with its status and the reason.

- Planned (section 2): the frame writer's priorities, the send queue's, framing and chunking
  byte by byte.
- Data or presentation: wire types, git's output and its parsing, searching, environments and
  encodings, the emulator of the terminal, palettes, the tree's rows and marks, layouts.
- Sequential and without failures but that of one file: session, layout and rail.
- Adapters that keep nothing: the local engine and local tasks, the ui's offline view.
