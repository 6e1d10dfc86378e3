---------------------------- MODULE TaskService ----------------------------
(***************************************************************************)
(* The engine's task service: the dispatch thread (`main`), one reader     *)
(* thread per process, and the escalation thread, around the shared state  *)
(* of engine/src/adapters/outbound/task_threads.rs.                        *)
(*                                                                         *)
(* A run is one process started by execution/runTask; an identity (TaskId) *)
(* is the client's name for it and may name a later run once released.     *)
(* A process's output is a stream of units 1, 2, 3, ...; every buffer the  *)
(* engine has holds a contiguous piece of that stream, so it is modelled   *)
(* by the positions of its ends:                                           *)
(*                                                                         *)
(*    freed[r]  <=  kept[r]  <=  cut[r]  <=  got[r]                        *)
(*    RetainedOutput: freed+1..kept    chunks of the flush: kept+1..cut    *)
(*    Chunker: cut+1..got                                                  *)
(*                                                                         *)
(* sent, exits, asked and raced are history: nothing the code does reads   *)
(* them.                                                                   *)
(***************************************************************************)
EXTENDS Integers, Sequences, FiniteSets

CONSTANTS
  TaskIds,      \* identities a client can give a task
  Workspaces,   \* workspaces a task can belong to
  Runs,         \* processes the engine may start: bounds the starts
  Nil,          \* no process, no identity, no workspace
  MaxOutput,    \* units one process writes: bounds the output
  Bound,        \* RETENTION_BYTES, in units
  MaxHeld,      \* CHUNK_BYTES, in units: the chunker holds fewer
  MaxDrops,     \* how often the client goes away: bounds reconnections
  Reuse         \* may a client start a second run under a released identity?

ASSUME NilAssumption == Nil \notin Runs \union TaskIds \union Workspaces
ASSUME BoundsAssumption ==
  /\ MaxOutput \in Nat
  /\ Bound \in Nat \ {0}
  /\ MaxHeld \in Nat \ {0}
  /\ MaxDrops \in Nat
ASSUME ReuseAssumption == Reuse \in BOOLEAN

\* How a process ended: with code 0, or with another code or a signal.
Statuses == {"success", "failure"}
Running  == "running"
None     == "none"

VARIABLES
  \* the engine's shared state
  tasks,        \* TaskSet: the run that holds each identity
  record,       \* Task.state of each run
  entries,      \* TaskService.entries: the run reachable by each identity
  pending,      \* Escalations.pending: the run each deadline would kill
  attached,     \* ServiceInner.attached
  roots,        \* registered workspaces
  \* one run
  idOf, owner,  \* the identity and the workspace it was started with
  got, cut, kept, freed,
  ending,       \* TaskEntry.ending
  status,       \* what the reader made of reap()
  reaped,       \* Shared.exit is set: the process has been waited for
  reader,       \* the reader thread's next step
  snap,         \* flush's one load of attached
  final,        \* this flush is the one after Ended
  \* the host's process
  proc, doomed, how,
  \* the dispatch thread
  main, mid, mrun, mtodo, mlo, mhi,
  drops,
  \* history
  sent,         \* output units put on the wire for a run, in order
  exits,        \* execution/onExit frames put on the wire for a run
  asked,        \* somebody asked for this run to be stopped
  raced         \* a client reattached while the run's reader was alive

shared  == <<tasks, record, entries, pending, attached, roots>>
stream  == <<got, cut, kept, freed>>
readers == <<ending, status, reaped, reader, snap, final>>
host    == <<proc, doomed, how>>
mains   == <<main, mid, mrun, mtodo, mlo, mhi, drops>>
names   == <<idOf, owner>>
history == <<sent, exits, asked, raced>>
vars    == <<shared, stream, readers, host, mains, names, history>>

MainStates ==
  {"serving", "adopt", "closing", "register", "away",
   "replay", "replayEmit", "replayExit", "replayEntry", "replaySet",
   "exiting", "gone"}

ReaderStates ==
  {"none", "read", "load", "push", "emit", "drain", "reap", "mark",
   "deliver", "stash", "exit", "releaseEntry", "releaseSet", "done"}

TypeOK ==
  /\ tasks \in [TaskIds -> Runs \union {Nil}]
  /\ record \in [Runs -> Statuses \union {Running}]
  /\ entries \in [TaskIds -> Runs \union {Nil}]
  /\ pending \in [TaskIds -> Runs \union {Nil}]
  /\ attached \in BOOLEAN
  /\ roots \subseteq Workspaces
  /\ idOf \in [Runs -> TaskIds \union {Nil}]
  /\ owner \in [Runs -> Workspaces \union {Nil}]
  /\ got \in [Runs -> Nat] /\ cut \in [Runs -> Nat]
  /\ kept \in [Runs -> Nat] /\ freed \in [Runs -> Nat]
  /\ ending \in [Runs -> Statuses \union {None}]
  /\ status \in [Runs -> Statuses \union {None}]
  /\ reaped \in [Runs -> BOOLEAN]
  /\ reader \in [Runs -> ReaderStates]
  /\ snap \in [Runs -> BOOLEAN] /\ final \in [Runs -> BOOLEAN]
  /\ proc \in [Runs -> {"none", "alive", "closed", "dead"}]
  /\ doomed \in [Runs -> BOOLEAN]
  /\ how \in [Runs -> Statuses \union {None}]
  /\ main \in MainStates
  /\ mid \in TaskIds \union {Nil}
  /\ mrun \in Runs \union {Nil}
  /\ mtodo \subseteq TaskIds
  /\ mlo \in Nat /\ mhi \in Nat
  /\ drops \in 0 .. MaxDrops
  /\ sent \in [Runs -> Seq(Nat)]
  /\ exits \in [Runs -> Nat]
  /\ asked \in [Runs -> BOOLEAN] /\ raced \in [Runs -> BOOLEAN]

Init ==
  /\ tasks = [i \in TaskIds |-> Nil]
  /\ record = [r \in Runs |-> Running]
  /\ entries = [i \in TaskIds |-> Nil]
  /\ pending = [i \in TaskIds |-> Nil]
  /\ attached = TRUE
  /\ roots = Workspaces
  /\ idOf = [r \in Runs |-> Nil]
  /\ owner = [r \in Runs |-> Nil]
  /\ got = [r \in Runs |-> 0] /\ cut = [r \in Runs |-> 0]
  /\ kept = [r \in Runs |-> 0] /\ freed = [r \in Runs |-> 0]
  /\ ending = [r \in Runs |-> None]
  /\ status = [r \in Runs |-> None]
  /\ reaped = [r \in Runs |-> FALSE]
  /\ reader = [r \in Runs |-> "none"]
  /\ snap = [r \in Runs |-> FALSE] /\ final = [r \in Runs |-> FALSE]
  /\ proc = [r \in Runs |-> "none"]
  /\ doomed = [r \in Runs |-> FALSE]
  /\ how = [r \in Runs |-> None]
  /\ main = "serving"
  /\ mid = Nil /\ mrun = Nil /\ mtodo = {}
  /\ mlo = 0 /\ mhi = 0 /\ drops = 0
  /\ sent = [r \in Runs |-> <<>>]
  /\ exits = [r \in Runs |-> 0]
  /\ asked = [r \in Runs |-> FALSE]
  /\ raced = [r \in Runs |-> FALSE]

-----------------------------------------------------------------------------
(* What the threads share                                                  *)

Ids(f) == {i \in TaskIds : f[i] # Nil}

\* Names ending in _Wrong are the code with one mistake in it. Nothing refers to
\* them: each is there to take the place of the definition it precedes, and so to
\* show which property the mistake breaks.

\* The bytes an absent client has not seen, and what a flush still holds.
Retained(r) == kept[r] - freed[r]

\* paused_at_bound with attached the wrong way round.
Paused_Wrong(r) == attached /\ Retained(r) >= Bound
Paused(r)       == ~attached /\ Retained(r) >= Bound

\* The Arc<TaskEntry> of a run, and so its control, is held by the map, by the
\* reader thread and by the dispatch thread for as long as it works on it.
ControlHeld(r) ==
  \/ \E i \in TaskIds : entries[i] = r
  \/ reader[r] \notin {"none", "done"}
  \/ mrun = r

\* TaskControl::signal(Kill): nothing once the exit was observed; the process
\* dies in its own time.
Killed(R) ==
  [r \in Runs |->
     doomed[r] \/ (r \in R /\ ~reaped[r] /\ proc[r] \in {"alive", "closed"})]

Emit(r, n)  == sent' = [sent EXCEPT ![r] = Append(@, n)]
Exit(r)     == exits' = [exits EXCEPT ![r] = @ + 1]
At(r, from, to) == reader[r] = from /\ reader' = [reader EXCEPT ![r] = to]

-----------------------------------------------------------------------------
(* The dispatch thread: requests                                           *)

\* workspace/register: the root may be offered again after a close.
Register(w) ==
  /\ main = "serving" /\ w \notin roots
  /\ roots' = roots \union {w}
  /\ UNCHANGED <<tasks, record, entries, pending, attached, stream, readers,
                 host, mains, names, history>>

\* execution/runTask: the identity is refused while the set holds it, the
\* workspace must be registered; the process is spawned and recorded under
\* the set's lock.
RunTask(i, w, r) ==
  /\ main = "serving"
  /\ tasks[i] = Nil
  /\ w \in roots
  /\ idOf[r] = Nil
  /\ Reuse \/ \A q \in Runs : idOf[q] # i
  /\ tasks' = [tasks EXCEPT ![i] = r]
  /\ idOf' = [idOf EXCEPT ![r] = i]
  /\ owner' = [owner EXCEPT ![r] = w]
  /\ proc' = [proc EXCEPT ![r] = "alive"]
  /\ main' = "adopt" /\ mid' = i /\ mrun' = r
  /\ UNCHANGED <<record, entries, pending, attached, roots, stream, readers,
                 doomed, how, mtodo, mlo, mhi, drops, history>>

\* TaskService::adopt: the entry is published and its reader thread started.
Adopt ==
  /\ main = "adopt"
  /\ entries' = [entries EXCEPT ![mid] = mrun]
  /\ reader' = [reader EXCEPT ![mrun] = "read"]
  /\ main' = "serving" /\ mid' = Nil /\ mrun' = Nil
  /\ UNCHANGED <<tasks, record, pending, attached, roots, stream, ending,
                 status, reaped, snap, final, host, mtodo, mlo, mhi, drops,
                 names, history>>

\* workspace/close: deregister, then take the workspace's tasks out of the set.
CloseWorkspace(w) ==
  LET plans == {i \in Ids(tasks) : owner[tasks[i]] = w} IN
  /\ main = "serving" /\ w \in roots
  /\ roots' = roots \ {w}
  /\ tasks' = [i \in TaskIds |-> IF i \in plans THEN Nil ELSE tasks[i]]
  /\ asked' = [r \in Runs |-> asked[r] \/ \E i \in plans : tasks[i] = r]
  /\ mtodo' = plans
  /\ main' = IF plans = {} THEN "serving" ELSE "closing"
  /\ UNCHANGED <<record, entries, pending, attached, stream, readers, host,
                 mid, mrun, mlo, mhi, drops, names, sent, exits, raced>>

\* ... each plan is signalled through the entry its identity names (a SIGTERM
\* leaves the end to the process) ...
SignalPlan(i) ==
  /\ main = "closing" /\ i \in mtodo
  /\ mtodo' = mtodo \ {i}
  /\ IF entries[i] = Nil
       THEN /\ main' = IF mtodo' = {} THEN "serving" ELSE "closing"
            /\ UNCHANGED <<mid, mrun>>
       ELSE main' = "register" /\ mid' = i /\ mrun' = entries[i]
  /\ UNCHANGED <<shared, stream, readers, host, mlo, mhi, drops, names, history>>

\* ... and its deadline registered, when the identity still has a pid.
RegisterDeadline ==
  /\ main = "register"
  /\ pending' = IF entries[mid] = Nil THEN pending
                ELSE [pending EXCEPT ![mid] = mrun]
  /\ main' = IF mtodo = {} THEN "serving" ELSE "closing"
  /\ mid' = Nil /\ mrun' = Nil
  /\ UNCHANGED <<tasks, record, entries, attached, roots, stream, readers, host,
                 mtodo, mlo, mhi, drops, names, history>>

\* execution/terminate: the signal the client named, and a deadline for Term.
Terminate(i, signal) ==
  /\ main = "serving" /\ entries[i] # Nil
  /\ asked' = [asked EXCEPT ![entries[i]] = TRUE]
  /\ doomed' = IF signal = "Kill" THEN Killed({entries[i]}) ELSE doomed
  /\ IF signal = "Term"
       THEN main' = "register" /\ mid' = i /\ mrun' = entries[i]
       ELSE UNCHANGED <<main, mid, mrun>>
  /\ UNCHANGED <<shared, stream, readers, proc, how, mtodo, mlo, mhi, drops,
                 names, sent, exits, raced>>

\* session/restart: what the set holds is killed, then the process is replaced
\* and every thread of it with it.
Restart ==
  LET plans == {r \in Runs : \E i \in TaskIds : tasks[i] = r /\ entries[i] = r} IN
  /\ main = "serving"
  /\ tasks' = [i \in TaskIds |-> Nil]
  /\ doomed' = Killed(plans)
  /\ asked' = [r \in Runs |-> asked[r] \/ r \in plans]
  /\ main' = "gone"
  /\ UNCHANGED <<record, entries, pending, attached, roots, stream, readers,
                 proc, how, mid, mrun, mtodo, mlo, mhi, drops, names, sent,
                 exits, raced>>

-----------------------------------------------------------------------------
(* The dispatch thread: a client goes away and comes back                  *)

\* serve returned at end of input: TaskService::detach.
Detach ==
  /\ main = "serving" /\ drops < MaxDrops
  /\ drops' = drops + 1
  /\ attached' = FALSE
  /\ main' = "away"
  /\ UNCHANGED <<tasks, record, entries, pending, roots, stream, readers, host,
                 mid, mrun, mtodo, mlo, mhi, names, history>>

\* ... replaying only what still runs.
Reattach_Wrong ==
  /\ main = "away"
  /\ attached' = TRUE
  /\ mtodo' = {i \in Ids(entries) : record[entries[i]] = Running}
  /\ main' = "replay"
  /\ raced' = [r \in Runs |-> raced[r] \/ reader[r] \notin {"none", "done"}]
  /\ UNCHANGED <<tasks, record, entries, pending, roots, stream, readers, host,
                 mid, mrun, mlo, mhi, drops, names, sent, exits, asked>>

\* A connection was accepted: TaskService::reattach snapshots the entries.
Reattach ==
  /\ main = "away"
  /\ attached' = TRUE
  /\ mtodo' = Ids(entries)
  /\ main' = "replay"
  /\ raced' = [r \in Runs |-> raced[r] \/ reader[r] \notin {"none", "done"}]
  /\ UNCHANGED <<tasks, record, entries, pending, roots, stream, readers, host,
                 mid, mrun, mlo, mhi, drops, names, sent, exits, asked>>

\* replay: the retained chunks are taken out from under the lock ...
ReplayTake(i) ==
  LET r == entries[i] IN
  /\ main = "replay" /\ i \in mtodo
  /\ mtodo' = mtodo \ {i}
  /\ IF r = Nil
       THEN UNCHANGED <<main, mid, mrun, mlo, mhi, freed>>
       ELSE /\ main' = "replayEmit" /\ mid' = i /\ mrun' = r
            /\ mlo' = freed[r] /\ mhi' = kept[r]
            /\ freed' = [freed EXCEPT ![r] = kept[r]]
  /\ UNCHANGED <<shared, got, cut, kept, readers, host, drops, names, history>>

\* ... and written one by one, oldest first; a chunk a reader has just written
\* itself may be among them ...
ReplayEmit ==
  /\ main = "replayEmit"
  /\ IF mlo < mhi
       THEN Emit(mrun, mlo + 1) /\ mlo' = mlo + 1 /\ UNCHANGED main
       ELSE main' = "replayExit" /\ UNCHANGED <<sent, mlo>>
  /\ UNCHANGED <<shared, stream, readers, host, mid, mrun, mtodo, mhi, drops,
                 names, exits, asked, raced>>

\* ... then the ending, if there is one to deliver, and the identity goes.
ReplayExit ==
  /\ main = "replayExit"
  /\ ending' = [ending EXCEPT ![mrun] = None]
  /\ IF ending[mrun] = None
       THEN /\ main' = "replay" /\ mid' = Nil /\ mrun' = Nil
            /\ UNCHANGED exits
       ELSE /\ Exit(mrun) /\ main' = "replayEntry"
            /\ UNCHANGED <<mid, mrun>>
  /\ mlo' = 0 /\ mhi' = 0
  /\ UNCHANGED <<shared, stream, status, reaped, reader, snap, final, host,
                 mtodo, drops, names, sent, asked, raced>>

ReplayEntry ==
  /\ main = "replayEntry"
  /\ entries' = [entries EXCEPT ![mid] = Nil]
  /\ main' = "replaySet"
  /\ UNCHANGED <<tasks, record, pending, attached, roots, stream, readers, host,
                 mid, mrun, mtodo, mlo, mhi, drops, names, history>>

ReplaySet ==
  /\ main = "replaySet"
  /\ tasks' = [tasks EXCEPT ![mid] = Nil]
  /\ main' = "replay" /\ mid' = Nil /\ mrun' = Nil
  /\ UNCHANGED <<record, entries, pending, attached, roots, stream, readers,
                 host, mtodo, mlo, mhi, drops, names, history>>

ReplayDone ==
  /\ main = "replay" /\ mtodo = {}
  /\ main' = "serving"
  /\ UNCHANGED <<shared, stream, readers, host, mid, mrun, mtodo, mlo, mhi,
                 drops, names, history>>

\* Nobody came and no identity is live: the engine leaves. TaskService::close
\* drops the deadlines unfired and joins the readers.
Leave ==
  /\ main = "away" /\ Ids(tasks) = {}
  /\ pending' = [i \in TaskIds |-> Nil]
  /\ main' = "exiting"
  /\ UNCHANGED <<tasks, record, entries, attached, roots, stream, readers, host,
                 mid, mrun, mtodo, mlo, mhi, drops, names, history>>

Joined ==
  /\ main = "exiting" /\ \A r \in Runs : reader[r] \in {"none", "done"}
  /\ main' = "gone"
  /\ UNCHANGED <<shared, stream, readers, host, mid, mrun, mtodo, mlo, mhi,
                 drops, names, history>>

-----------------------------------------------------------------------------
(* The escalation thread and the host                                      *)

\* ... killing what the identity names by now.
Fire_Wrong(i) ==
  /\ main # "gone" /\ pending[i] # Nil
  /\ pending' = [pending EXCEPT ![i] = Nil]
  /\ doomed' = Killed({entries[i]})
  /\ UNCHANGED <<tasks, record, entries, attached, roots, stream, readers, proc,
                 how, mains, names, history>>

\* A deadline has passed: the entry is taken and, when somebody still holds
\* that run's control, the run is killed.
Fire(i) ==
  /\ main # "gone" /\ pending[i] # Nil
  /\ pending' = [pending EXCEPT ![i] = Nil]
  /\ doomed' = IF ControlHeld(pending[i]) THEN Killed({pending[i]}) ELSE doomed
  /\ UNCHANGED <<tasks, record, entries, attached, roots, stream, readers, proc,
                 how, mains, names, history>>

\* The process's last output descriptor closes: as it exits (the kernel closes
\* descriptors before the process can be waited for), or because it let go of
\* its output and runs on.
Closes(r) ==
  /\ proc[r] = "alive"
  /\ proc' = [proc EXCEPT ![r] = "closed"]
  /\ UNCHANGED <<shared, stream, readers, doomed, how, mains, names, history>>

\* It becomes waitable.
Dies(r, s) ==
  /\ proc[r] = "closed"
  /\ doomed[r] => s = "failure"
  /\ proc' = [proc EXCEPT ![r] = "dead"]
  /\ how' = [how EXCEPT ![r] = s]
  /\ UNCHANGED <<shared, stream, readers, doomed, mains, names, history>>

-----------------------------------------------------------------------------
(* A reader thread (read_loop)                                             *)

\* The chunker gives up what is due: a prefix of what it holds, and so much
\* that less than one full chunk stays behind.
DrainDue(r, to) ==
  /\ to \in cut[r] .. got'[r]
  /\ got'[r] - to < MaxHeld
  /\ cut' = [cut EXCEPT ![r] = to]
  /\ At(r, "read", IF to > kept[r] THEN "load" ELSE "read")

\* ReadOutcome::Bytes, unless the retention is full with nobody to drain it.
ReadBytes(r) ==
  /\ main # "gone" /\ reader[r] = "read" /\ ~Paused(r)
  /\ proc[r] = "alive" /\ got[r] < MaxOutput
  /\ got' = [got EXCEPT ![r] = @ + 1]
  /\ \E to \in 0 .. MaxOutput : DrainDue(r, to)
  /\ UNCHANGED <<shared, kept, freed, ending, status, reaped, snap, final, host,
                 mains, names, history>>

\* ReadOutcome::Idle: the 20 ms of what the chunker holds have passed.
ReadIdle(r) ==
  /\ main # "gone" /\ reader[r] = "read" /\ ~Paused(r)
  /\ cut[r] < got[r]
  /\ cut' = [cut EXCEPT ![r] = got[r]]
  /\ At(r, "read", "load")
  /\ UNCHANGED <<shared, got, kept, freed, ending, status, reaped, snap, final,
                 host, mains, names, history>>

\* ... without draining the chunker.
ReadEnded_Wrong(r) ==
  /\ main # "gone" /\ reader[r] = "read" /\ ~Paused(r)
  /\ proc[r] \in {"closed", "dead"}
  /\ final' = [final EXCEPT ![r] = TRUE]
  /\ At(r, "read", "load")
  /\ UNCHANGED <<shared, stream, ending, status, reaped, snap, host, mains,
                 names, history>>

\* ReadOutcome::Ended: the chunker's rest goes out first.
ReadEnded(r) ==
  /\ main # "gone" /\ reader[r] = "read" /\ ~Paused(r)
  /\ proc[r] \in {"closed", "dead"}
  /\ cut' = [cut EXCEPT ![r] = got[r]]
  /\ final' = [final EXCEPT ![r] = TRUE]
  /\ At(r, "read", "load")
  /\ UNCHANGED <<shared, got, kept, freed, ending, status, reaped, snap, host,
                 mains, names, history>>

AfterChunk(r, k) ==
  IF k < cut[r] THEN "push" ELSE IF final[r] THEN "reap" ELSE "read"

\* flush: one load of attached decides for all of its chunks.
FlushLoad(r) ==
  /\ main # "gone"
  /\ At(r, "load", AfterChunk(r, kept[r]))
  /\ snap' = [snap EXCEPT ![r] = attached]
  /\ UNCHANGED <<shared, stream, ending, status, reaped, final, host, mains,
                 names, history>>

\* ... clearing the retention with nobody there.
FlushPush_Wrong(r) ==
  /\ main # "gone"
  /\ At(r, "push", IF snap[r] THEN "emit" ELSE "drain")
  /\ kept' = [kept EXCEPT ![r] = @ + 1]
  /\ UNCHANGED <<shared, got, cut, freed, ending, status, reaped, snap, final,
                 host, mains, names, history>>

\* Every chunk is retained; with nobody there it stays so ...
FlushPush(r) ==
  /\ main # "gone"
  /\ At(r, "push", IF snap[r] THEN "emit" ELSE AfterChunk(r, kept[r] + 1))
  /\ kept' = [kept EXCEPT ![r] = @ + 1]
  /\ UNCHANGED <<shared, got, cut, freed, ending, status, reaped, snap, final,
                 host, mains, names, history>>

\* ... and with a client there it is written ...
FlushEmit(r) ==
  /\ main # "gone"
  /\ At(r, "emit", "drain")
  /\ Emit(r, kept[r])
  /\ UNCHANGED <<shared, stream, ending, status, reaped, snap, final, host,
                 mains, names, exits, asked, raced>>

\* ... and the retention cleared, whatever it holds.
FlushDrain(r) ==
  /\ main # "gone"
  /\ At(r, "drain", AfterChunk(r, kept[r]))
  /\ freed' = [freed EXCEPT ![r] = kept[r]]
  /\ UNCHANGED <<shared, got, cut, kept, ending, status, reaped, snap, final,
                 host, mains, names, history>>

\* reap does not wait: a process that cannot be waited for yet is taken to have
\* ended with code 0. Then the run's identity is struck off the deadlines.
Reap(r) ==
  /\ main # "gone"
  /\ At(r, "reap", "mark")
  /\ status' = [status EXCEPT ![r] = IF proc[r] = "dead" THEN how[r] ELSE "success"]
  /\ reaped' = [reaped EXCEPT ![r] = proc[r] = "dead"]
  /\ pending' = [pending EXCEPT ![idOf[r]] = Nil]
  /\ UNCHANGED <<tasks, record, entries, attached, roots, stream, ending, snap,
                 final, host, mains, names, history>>

\* mark_ended: whatever task holds the identity.
MarkEnded(r) ==
  LET t == tasks[idOf[r]] IN
  /\ main # "gone"
  /\ At(r, "mark", "deliver")
  /\ record' = IF t = Nil THEN record ELSE [record EXCEPT ![t] = status[r]]
  /\ UNCHANGED <<tasks, entries, pending, attached, roots, stream, ending,
                 status, reaped, snap, final, host, mains, names, history>>

\* ... stashing the ending before looking whether anybody is there.
Deliver_Wrong(r) ==
  /\ main # "gone"
  /\ At(r, "deliver", IF attached THEN "exit" ELSE "stash")
  /\ ending' = [ending EXCEPT ![r] = status[r]]
  /\ UNCHANGED <<shared, stream, status, reaped, snap, final, host, mains,
                 names, history>>

Deliver(r) ==
  /\ main # "gone"
  /\ At(r, "deliver", IF attached THEN "exit" ELSE "stash")
  /\ UNCHANGED <<shared, stream, ending, status, reaped, snap, final, host,
                 mains, names, history>>

\* Nobody to tell: the ending waits with the entry.
Stash(r) ==
  /\ main # "gone"
  /\ At(r, "stash", "done")
  /\ ending' = [ending EXCEPT ![r] = status[r]]
  /\ UNCHANGED <<shared, stream, status, reaped, snap, final, host, mains,
                 names, history>>

EmitExit(r) ==
  /\ main # "gone"
  /\ At(r, "exit", "releaseEntry")
  /\ Exit(r)
  /\ UNCHANGED <<shared, stream, ending, status, reaped, snap, final, host,
                 mains, names, sent, asked, raced>>

\* ... from the machinery alone.
ReleaseEntry_Wrong(r) ==
  /\ main # "gone"
  /\ At(r, "releaseEntry", "done")
  /\ entries' = [entries EXCEPT ![idOf[r]] = Nil]
  /\ UNCHANGED <<tasks, record, pending, attached, roots, stream, ending,
                 status, reaped, snap, final, host, mains, names, history>>

\* release: by identity, from the machinery ...
ReleaseEntry(r) ==
  /\ main # "gone"
  /\ At(r, "releaseEntry", "releaseSet")
  /\ entries' = [entries EXCEPT ![idOf[r]] = Nil]
  /\ UNCHANGED <<tasks, record, pending, attached, roots, stream, ending,
                 status, reaped, snap, final, host, mains, names, history>>

\* ... and from the domain's record.
ReleaseSet(r) ==
  /\ main # "gone"
  /\ At(r, "releaseSet", "done")
  /\ tasks' = [tasks EXCEPT ![idOf[r]] = Nil]
  /\ UNCHANGED <<record, entries, pending, attached, roots, stream, ending,
                 status, reaped, snap, final, host, mains, names, history>>

-----------------------------------------------------------------------------
Reader(r) ==
  \/ ReadBytes(r) \/ ReadIdle(r) \/ ReadEnded(r)
  \/ FlushLoad(r) \/ FlushPush(r) \/ FlushEmit(r) \/ FlushDrain(r)
  \/ Reap(r) \/ MarkEnded(r) \/ Deliver(r) \/ Stash(r) \/ EmitExit(r)
  \/ ReleaseEntry(r) \/ ReleaseSet(r)

\* What the dispatch thread does once begun, without anyone asking again.
Dispatch ==
  \/ Adopt \/ RegisterDeadline \/ ReplayEmit \/ ReplayExit
  \/ ReplayEntry \/ ReplaySet \/ ReplayDone \/ Joined
  \/ \E i \in TaskIds : SignalPlan(i) \/ ReplayTake(i)

Request ==
  \/ \E w \in Workspaces : Register(w) \/ CloseWorkspace(w)
  \/ \E i \in TaskIds, w \in Workspaces, r \in Runs : RunTask(i, w, r)
  \/ \E i \in TaskIds, s \in {"Int", "Term", "Kill"} : Terminate(i, s)
  \/ Restart

Connection == Detach \/ Reattach \/ Leave

Process(r) == Closes(r) \/ \E s \in Statuses : Dies(r, s)

Next ==
  \/ Request \/ Dispatch \/ Connection
  \/ \E i \in TaskIds : Fire(i)
  \/ \E r \in Runs : Reader(r) \/ Process(r)

\* The engine's threads run. Nothing is assumed of clients, of the connection, of
\* deadlines or of processes.
Fairness == WF_vars(Dispatch) /\ \A r \in Runs : WF_vars(Reader(r))

Spec == Init /\ [][Next]_vars /\ Fairness

-----------------------------------------------------------------------------
(* Properties                                                              *)

InOrder(r) == \A n \in 1 .. Len(sent[r]) : sent[r][n] = n

\* Every byte is put on the wire once and in the order it was read, and the exit
\* follows all of it -- for a run no client came back to while its reader was at
\* work: one watched throughout, one nobody came back to, and one that ended
\* while its client was away and is replayed on its return (flush, replay).
DeliveredExactly ==
  \A r \in Runs : ~raced[r] =>
    InOrder(r) /\ (exits[r] > 0 => Len(sent[r]) = got[r])

\* For the same runs the retention is never cleared of a byte that has not been
\* written, or is about to be by the replay that took it out.
NothingDiscarded ==
  \A r \in Runs : ~raced[r] =>
    freed[r] <= Len(sent[r]) + (IF mrun = r THEN mhi - mlo ELSE 0)

\* The exit is put on the wire at most once, whoever meets whom: the reader that
\* sees the end and the replay that finds the stashed ending never both send it.
ExitAtMostOnce == \A r \in Runs : exits[r] <= 1

\* A process is killed only if somebody asked for that process to be stopped,
\* even when its identity was used by another run before: a deadline holds on to
\* the control it was registered with and not to the identity.
KillsOnlyTheAsked == \A r \in Runs : doomed[r] => asked[r]

\* What one run retains is bounded whatever clients do: the bound itself and one
\* chunkful -- and no less, since a flush that began while nobody was there can end
\* after the reattach that lets the reader go on. Not so for a run whose identity
\* another run took: no replay reaches what it retains.
RetentionBounded ==
  \A r \in Runs : (\A q \in Runs \ {r} : idOf[q] # idOf[r]) =>
    Retained(r) <= (IF MaxHeld < Bound THEN Bound ELSE MaxHeld + 1) + MaxHeld

\* r took its identity after a run that somebody asked to stop: a close frees the
\* identity at once, and the release of that run is by identity.
Inherits(r) == \E q \in Runs \ {r} : idOf[q] = idOf[r] /\ asked[q]

\* While the service stands, an identity the set holds is one the machinery can
\* reach, whichever runs had the identity before, except between the two halves of a
\* start or of a release. Not so for a run that took the identity of one that was to be
\* stopped. (And the state is as TypeOK has it.)
IdentityReachable ==
  /\ TypeOK
  /\ \A i \in TaskIds : LET r == tasks[i] IN
       \/ r = Nil \/ entries[i] = r
       \/ main \in {"adopt", "replaySet"} /\ mid = i
       \/ reader[r] = "releaseSet"
       \/ Inherits(r)

\* A run whose output has ended has its exit reported as long as somebody is
\* there, or once somebody is -- unless a client came back to it at work.
ExitIsReported ==
  \A r \in Runs :
    proc[r] \in {"closed", "dead"}
      ~> (exits[r] > 0 \/ raced[r] \/ main \in {"away", "exiting", "gone"})

-----------------------------------------------------------------------------
(* What the contract says and the code does not do                         *)

\* specs/007-execution-terminals/contracts/task-events.md, guarantees 2, 3, 7
\* and 13: exactly once, in order, across a reattachment and across the exit.
DeliveredExactlyAlways ==
  \A r \in Runs :
    InOrder(r) /\ (exits[r] > 0 => Len(sent[r]) = got[r])
=============================================================================
