----------------------------- MODULE Transport ------------------------------
(***************************************************************************)
(* The client's connection to its engine: ssh children one after another,  *)
(* each with a writer, a reader and a stderr thread; the requests that     *)
(* wait for replies; the connection state everybody watches; and the loop  *)
(* that connects again (client/core/src/adapters/outbound/openssh,         *)
(* use_cases/reconnect.rs, composition.rs).                                *)
(***************************************************************************)
EXTENDS Integers

CONSTANTS
  Requests,      \* the requests callers make, each once
  MaxChildren,   \* how many ssh processes are started
  MaxFailures,   \* how often one cannot even be started
  MaxWakers      \* threads started by an observed loss and not yet running

ASSUME BoundsAssumption ==
  /\ MaxChildren \in Nat \ {0} /\ MaxFailures \in Nat /\ MaxWakers \in Nat \ {0}

Children == 1 .. MaxChildren
\* How a child ended, as classify and response_to sort it: to be tried again, or
\* refused (authentication, a changed host key, no engine, unknown).
Conditions == {"retry", "refuse"}
States == {"connecting", "connected", "disconnected", "retrying"}
Results == {"answered", "failed", "timedOut", "withdrawn", "lost"}

VARIABLES
  \* the registry, and each caller
  pending,     \* requests with an entry
  slot,        \* what was sent to the entry's receiver
  call,        \* the caller's next step
  result,      \* the outcome it got
  to,          \* the child whose queue it was pushed to
  \* each child
  proc, why,   \* the process, and how it ended
  closed, sent, replies,   \* the queue, what is on its way, what came back
  reader, errs,
  \* SshTransport
  live, state, exit,
  \* who connects
  conn, byLoop,
  failures,    \* processes that could not be started
  subscribed, fresh, wakers,
  \* Reconnect
  running, loop,
  \* history
  late,        \* pushed to a queue that was closed
  gaveUp,      \* the last loop stopped trying
  missed,      \* a loss was dropped by a loop that was past looking
  masked,      \* a loss was announced before the connection it ended
  stale        \* a loop began for a loss that was over

registry == <<pending, slot>>
callers  == <<call, result, to>>
process  == <<proc, why>>
pipes    == <<closed, sent, replies>>
connect  == <<conn, byLoop, failures>>
watchers == <<subscribed, fresh, wakers>>
retry    == <<running, loop>>
history  == <<late, gaveUp, missed, masked, stale>>
vars     == <<registry, callers, process, pipes, reader, errs, live, state, exit,
              connect, watchers, retry, history>>

\* The flags, and every other variable.
FlagsOK ==
  /\ byLoop \in BOOLEAN /\ subscribed \in BOOLEAN /\ fresh \in BOOLEAN
  /\ running \in BOOLEAN
  /\ gaveUp \in BOOLEAN /\ missed \in BOOLEAN /\ masked \in BOOLEAN /\ stale \in BOOLEAN

ValuesOK ==
  /\ pending \subseteq {q \in Requests : call[q] \in {"registered", "awaiting"}}
  /\ slot \in [Requests -> {"none"} \union Results]
  /\ call \in [Requests -> {"idle", "registered", "awaiting", "done"}]
  /\ result \in [Requests -> {"none"} \union Results]
  /\ to \in [Requests -> {0} \union Children]
  /\ proc \in [Children -> {"unborn", "alive", "ended"}]
  /\ why \in [Children -> {"none"} \union Conditions]
  /\ closed \in [Children -> BOOLEAN]
  /\ sent \in [Children -> SUBSET Requests] /\ replies \in [Children -> SUBSET Requests]
  /\ reader \in [Children -> {"none", "reading", "fail", "announce", "done"}]
  /\ errs \in [Children -> {"none", "draining", "done"}]
  /\ live \in {0} \union Children
  /\ state \in States /\ exit \in {"none"} \union Conditions
  /\ conn \in {"idle", "start", "spawn", "live", "announce"}
  /\ failures \in 0 .. MaxFailures /\ wakers \in 0 .. MaxWakers
  /\ loop \in {"none", "delay", "sleep", "connect", "failed", "release"}
  /\ late \subseteq Requests

TypeOK == ValuesOK /\ FlagsOK

\* The launch is about to connect for the first time.
Init ==
  /\ pending = {} /\ slot = [q \in Requests |-> "none"]
  /\ call = [q \in Requests |-> "idle"] /\ result = [q \in Requests |-> "none"]
  /\ to = [q \in Requests |-> 0]
  /\ proc = [c \in Children |-> "unborn"] /\ why = [c \in Children |-> "none"]
  /\ closed = [c \in Children |-> FALSE]
  /\ sent = [c \in Children |-> {}] /\ replies = [c \in Children |-> {}]
  /\ reader = [c \in Children |-> "none"] /\ errs = [c \in Children |-> "none"]
  /\ live = 0 /\ state = "connecting" /\ exit = "none"
  /\ conn = "start" /\ byLoop = FALSE /\ failures = 0
  /\ subscribed = FALSE /\ fresh = TRUE /\ wakers = 0
  /\ running = FALSE /\ loop = "none"
  /\ late = {}
  /\ gaveUp = FALSE /\ missed = FALSE /\ masked = FALSE /\ stale = FALSE

\* The newest child, and a new value in the watch channel.
Born        == {c \in Children : proc[c] # "unborn"}
Newest      == IF Born = {} THEN 0 ELSE CHOOSE c \in Born : \A d \in Born : d <= c
Announce(s) == state' = s /\ fresh' = TRUE

-----------------------------------------------------------------------------
(* Requests                                                                *)

\* Registry::register: the receiver is there before anything is sent.
Register(q) ==
  /\ call[q] = "idle"
  /\ call' = [call EXCEPT ![q] = "registered"]
  /\ pending' = pending \union {q}
  /\ UNCHANGED <<slot, result, to, process, pipes, reader, errs, live, state, exit,
                 connect, watchers, retry, history>>

\* Registry::resolve: only an entry that is still there, and only once.
Resolve(q, o) ==
  IF q \in pending
    THEN pending' = pending \ {q} /\ slot' = [slot EXCEPT ![q] = o]
    ELSE UNCHANGED registry

\* ready: an outcome without an exchange.
Ready(q, o) ==
  /\ Resolve(q, "withdrawn")
  /\ call' = [call EXCEPT ![q] = "done"]
  /\ result' = [result EXCEPT ![q] = o]

\* A body that cannot be framed is refused before transmission.
Refuse(q) ==
  /\ call[q] = "registered"
  /\ Ready(q, "failed")
  /\ UNCHANGED <<to, process, pipes, reader, errs, live, state, exit, connect,
                 watchers, retry, history>>

\* SendQueue::push: a queue that is closed drops the frame, and nobody is told.
Queued(q, c) ==
  /\ sent' = IF closed[c] THEN sent ELSE [sent EXCEPT ![c] = @ \union {q}]
  /\ late' = IF closed[c] THEN late \union {q} ELSE late

\* begin's second half: to the queue of the child that is live, or was last.
Push(q) ==
  /\ call[q] = "registered"
  /\ IF live = 0
       THEN Ready(q, "lost") /\ UNCHANGED <<to, sent, late>>
       ELSE /\ call' = [call EXCEPT ![q] = "awaiting"]
            /\ to' = [to EXCEPT ![q] = live]
            /\ Queued(q, live)
            /\ UNCHANGED <<registry, result>>
  /\ UNCHANGED <<process, closed, replies, reader, errs, live, state, exit,
                 connect, watchers, retry, gaveUp, missed, masked, stale>>

\* Mutant: whatever is sent is handed on, also to a caller that is through.
Await_Wrong(q) ==
  /\ slot[q] # "none" /\ result[q] # slot[q]
  /\ call' = [call EXCEPT ![q] = "done"]
  /\ result' = [result EXCEPT ![q] = slot[q]]
  /\ UNCHANGED <<registry, to, process, pipes, reader, errs, live, state, exit,
                 connect, watchers, retry, history>>

\* The caller takes what was sent to its receiver ...
Await(q) ==
  /\ call[q] = "awaiting" /\ slot[q] # "none"
  /\ call' = [call EXCEPT ![q] = "done"]
  /\ result' = [result EXCEPT ![q] = slot[q]]
  /\ UNCHANGED <<registry, to, process, pipes, reader, errs, live, state, exit,
                 connect, watchers, retry, history>>

\* ... or its time is up, and the entry is taken out.
TimeOut(q) ==
  /\ call[q] = "awaiting" /\ slot[q] = "none"
  /\ Resolve(q, "timedOut")
  /\ call' = [call EXCEPT ![q] = "done"]
  /\ result' = [result EXCEPT ![q] = "timedOut"]
  /\ UNCHANGED <<to, process, pipes, reader, errs, live, state, exit, connect,
                 watchers, retry, history>>

\* withdraw: a cancellation is sent, and the caller released regardless.
Withdraw(q) ==
  /\ call[q] = "awaiting"
  /\ q \in pending
  /\ Resolve(q, "withdrawn")
  /\ UNCHANGED <<callers, process, pipes, reader, errs, live, state, exit, connect,
                 watchers, retry, history>>

-----------------------------------------------------------------------------
(* A child                                                                 *)

\* The engine replies, with a result or with an error.
Reply(c) ==
  /\ proc[c] = "alive"
  /\ \E q \in sent[c] :
       /\ sent' = [sent EXCEPT ![c] = @ \ {q}]
       /\ replies' = [replies EXCEPT ![c] = @ \union {q}]
  /\ UNCHANGED <<registry, callers, process, closed, reader, errs, live,
                 state, exit, connect, watchers, retry, history>>

\* The connection is refused, breaks, or the engine goes: the child ends.
Ends(c, w) ==
  /\ proc[c] = "alive"
  /\ proc' = [proc EXCEPT ![c] = "ended"]
  /\ why' = [why EXCEPT ![c] = w]
  /\ sent' = [sent EXCEPT ![c] = {}]
  /\ UNCHANGED <<registry, callers, closed, replies, reader, errs, live,
                 state, exit, connect, watchers, retry, history>>

\* The reader thread: a reply (deliver); one nobody waits for is dropped.
Deliver(c) ==
  /\ reader[c] = "reading"
  /\ \E q \in replies[c] :
       /\ replies' = [replies EXCEPT ![c] = @ \ {q}]
       /\ Resolve(q, "answered")
  /\ UNCHANGED <<callers, process, closed, sent, reader, errs, live, state,
                 exit, connect, watchers, retry, history>>

\* SendQueue::close: what is queued is discarded, and the writer stops.
Shut(c) ==
  /\ closed' = [closed EXCEPT ![c] = TRUE]
  /\ sent' = [sent EXCEPT ![c] = {}]

\* Mutant: the queue closes and nobody is told but the watchers.
Eof_Wrong(c) ==
  /\ reader[c] = "reading" /\ proc[c] = "ended" /\ replies[c] = {}
  /\ reader' = [reader EXCEPT ![c] = "announce"]
  /\ Shut(c)
  /\ UNCHANGED <<registry, callers, process, replies, errs, live, state, exit,
                 connect, watchers, retry, history>>

\* Mutant: a frame that cannot be read ends the reader, and not the child.
Eof_WrongFrame(c) ==
  /\ reader[c] = "reading" /\ proc[c] # "unborn"
  /\ reader' = [reader EXCEPT ![c] = "fail"]
  /\ closed' = [closed EXCEPT ![c] = TRUE]
  /\ UNCHANGED <<registry, callers, process, sent, replies, errs, live, state, exit,
                 connect, watchers, retry, history>>

\* ... and the end: the queue closes ...
Eof(c) ==
  /\ reader[c] = "reading" /\ proc[c] = "ended" /\ replies[c] = {}
  /\ reader' = [reader EXCEPT ![c] = "fail"]
  /\ Shut(c)
  /\ UNCHANGED <<registry, callers, process, replies, errs, live, state, exit,
                 connect, watchers, retry, history>>

\* ... every request that waits is lost ...
FailAll(c) ==
  /\ reader[c] = "fail"
  /\ reader' = [reader EXCEPT ![c] = "announce"]
  /\ slot' = [q \in Requests |-> IF q \in pending THEN "lost" ELSE slot[q]]
  /\ pending' = {}
  /\ UNCHANGED <<callers, process, pipes, errs, live, state, exit, connect,
                 watchers, retry, history>>

\* Mutant: it is said only when somebody had waited.
Lost_Wrong(c) ==
  /\ reader[c] = "announce"
  /\ reader' = [reader EXCEPT ![c] = "done"]
  /\ IF \E q \in Requests : slot[q] = "lost"
       THEN Announce("disconnected") ELSE UNCHANGED <<state, fresh>>
  /\ UNCHANGED <<registry, callers, process, pipes, errs, live, exit, connect,
                 subscribed, wakers, retry, history>>

\* ... and then it is said.
Lost(c) ==
  /\ reader[c] = "announce"
  /\ reader' = [reader EXCEPT ![c] = "done"]
  /\ Announce("disconnected")
  /\ UNCHANGED <<registry, callers, process, pipes, errs, live, exit, connect,
                 subscribed, wakers, retry, history>>

\* The stderr thread: drains, waits for the process, and says how it ended.
Exited(c) ==
  /\ errs[c] = "draining" /\ proc[c] = "ended"
  /\ errs' = [errs EXCEPT ![c] = "done"]
  /\ exit' = why[c]
  /\ UNCHANGED <<registry, callers, process, pipes, reader, live, state, connect,
                 watchers, retry, history>>

-----------------------------------------------------------------------------
(* connect_with, for the launch or for the loop                            *)

\* The last failure is forgotten.
ConnectStart ==
  /\ conn = "start"
  /\ conn' = "spawn"
  /\ Announce("connecting")
  /\ exit' = "none"
  /\ UNCHANGED <<registry, callers, process, pipes, reader, errs, live, byLoop,
                 failures, subscribed, wakers, retry, history>>

SpawnFails ==
  /\ conn = "spawn" /\ failures < MaxFailures
  /\ failures' = failures + 1
  /\ conn' = "idle"
  /\ Announce("disconnected")
  /\ loop' = IF byLoop THEN "failed" ELSE loop
  /\ UNCHANGED <<registry, callers, process, pipes, reader, errs, live, exit, byLoop,
                 subscribed, wakers, running, history>>

\* A child with its threads.
Spawn ==
  /\ conn = "spawn" /\ Newest < MaxChildren
  /\ LET c == Newest + 1 IN
       /\ proc' = [proc EXCEPT ![c] = "alive"]
       /\ reader' = [reader EXCEPT ![c] = "reading"]
       /\ errs' = [errs EXCEPT ![c] = "draining"]
  /\ conn' = "live"
  /\ UNCHANGED <<registry, callers, why, pipes, live, state, exit, byLoop, failures,
                 watchers, retry, history>>

MakeLive ==
  /\ conn = "live"
  /\ live' = Newest
  /\ conn' = "announce"
  /\ UNCHANGED <<registry, callers, process, pipes, reader, errs, state, exit, byLoop,
                 failures, watchers, retry, history>>

\* Connected, to a child that may be gone by now.
Connected ==
  /\ conn = "announce"
  /\ conn' = "idle"
  /\ Announce("connected")
  /\ loop' = IF byLoop THEN "release" ELSE loop
  /\ masked' = (reader[live] = "done")
  /\ UNCHANGED <<registry, callers, process, pipes, reader, errs, live, exit, byLoop,
                 failures, subscribed, wakers, running, late, gaveUp, missed, stale>>

-----------------------------------------------------------------------------
(* Connecting again                                                        *)

\* A loss that is observed starts a thread to connect again.
Wakers(s) == IF s = "disconnected" THEN wakers + 1 ELSE wakers

\* subscribe, once the launch is through: the current state, and then every
\* change -- of which there has been one already.
Subscribe ==
  /\ ~subscribed /\ conn = "idle"
  /\ subscribed' = TRUE
  /\ wakers' = Wakers(state)
  /\ UNCHANGED <<registry, callers, process, pipes, reader, errs, live, state, exit,
                 connect, fresh, retry, history>>

\* The channel keeps the latest state only.
Observe ==
  /\ subscribed /\ fresh /\ wakers < MaxWakers
  /\ fresh' = FALSE
  /\ wakers' = Wakers(state)
  /\ UNCHANGED <<registry, callers, process, pipes, reader, errs, live, state, exit,
                 connect, subscribed, retry, history>>

\* Reconnect::run: one loop at a time; a second one is not begun.
Run ==
  /\ wakers > 0
  /\ wakers' = wakers - 1
  /\ IF running
       THEN /\ missed' = (missed \/ loop = "release" \/ conn \in {"live", "announce"})
            /\ UNCHANGED <<retry, gaveUp, stale>>
       ELSE /\ running' = TRUE /\ loop' = "delay"
            /\ gaveUp' = FALSE /\ missed' = FALSE
            /\ stale' = (stale \/ (live # 0 /\ reader[live] # "done"))
  /\ UNCHANGED <<registry, callers, process, pipes, reader, errs, live, state, exit,
                 connect, subscribed, fresh, late, masked>>

\* attempt_until_settled: the delay is drawn under the next ceiling and shown ...
Delay ==
  /\ loop = "delay"
  /\ loop' = "sleep"
  /\ Announce("retrying")
  /\ UNCHANGED <<registry, callers, process, pipes, reader, errs, live, exit, connect,
                 subscribed, wakers, running, history>>

\* ... slept ...
Try ==
  /\ loop = "sleep" /\ conn = "idle"
  /\ loop' = "connect"
  /\ conn' = "start" /\ byLoop' = TRUE
  /\ UNCHANGED <<registry, callers, process, pipes, reader, errs, live, state, exit,
                 failures, watchers, running, history>>

\* response_to: only what a later attempt can mend is tried again, an exit
\* that is not known among it.
StopAndReport(w) == w = "refuse"

\* ... and what could not even be started is tried again, unless the last failure
\* known says otherwise.
Failed ==
  /\ loop = "failed"
  /\ loop' = IF StopAndReport(exit) THEN "release" ELSE "delay"
  /\ gaveUp' = StopAndReport(exit)
  /\ UNCHANGED <<registry, callers, process, pipes, reader, errs, live, state, exit,
                 connect, watchers, running, late, missed, masked,
                 stale>>

\* ... leaving the mark of the single flight set.
Release_Wrong ==
  /\ loop = "release"
  /\ loop' = "none"
  /\ UNCHANGED <<running, registry, callers, process, pipes, reader, errs, live, state, exit,
                 connect, watchers, history>>

Release ==
  /\ loop = "release"
  /\ loop' = "none" /\ running' = FALSE
  /\ UNCHANGED <<registry, callers, process, pipes, reader, errs, live, state, exit,
                 connect, watchers, history>>

-----------------------------------------------------------------------------
Caller(q) == Register(q) \/ Refuse(q) \/ Push(q) \/ Await(q) \/ TimeOut(q) \/ Withdraw(q)
Threads(c) == Deliver(c) \/ Eof(c) \/ FailAll(c) \/ Lost(c) \/ Exited(c)
Connect == ConnectStart \/ SpawnFails \/ Spawn \/ MakeLive \/ Connected
Loop    == Delay \/ Try \/ Failed \/ Release

Next ==
  \/ \E q \in Requests : Caller(q)
  \/ \E c \in Children : Threads(c) \/ Reply(c) \/ \E w \in Conditions : Ends(c, w)
  \/ Connect \/ Subscribe \/ Observe \/ Run \/ Loop

\* Threads run, a delay and a time limit pass, and a caller that began goes on to
\* wait. Nothing is assumed of the host, the engine or the network.
Fairness ==
  /\ \A q \in Requests :
       WF_vars(Refuse(q) \/ Push(q)) /\ WF_vars(Await(q) \/ TimeOut(q))
  /\ \A c \in Children : WF_vars(Eof(c) \/ FailAll(c) \/ Lost(c) \/ Deliver(c))
                         /\ WF_vars(Exited(c))
  /\ WF_vars(Connect) /\ WF_vars(Loop)
  /\ WF_vars(Subscribe) /\ WF_vars(Observe) /\ WF_vars(Run)

Spec == Init /\ [][Next]_vars /\ Fairness

-----------------------------------------------------------------------------
(* Properties                                                              *)

\* One outcome, once, for every request begun, through refusals, time limits,
\* withdrawals, late replies and the ends of connections.
Outcome ==
  [q \in Requests |->
     CASE call[q] = "idle" -> "none"
       [] call[q] \in {"registered", "awaiting"} -> "waiting"
       [] call[q] = "done" -> result[q]]
Promised == INSTANCE Exchange WITH outcome <- Outcome, Requests <- Requests
OneOutcome == Promised!Spec

\* A request whose connection's end has been announced does not wait on: it was
\* failed before the announcement -- unless it came to a queue already closed. (And
\* every variable has its type.)
NoneWaitsForTheDead ==
  /\ TypeOK
  /\ \A q \in Requests \ late :
       call[q] = "awaiting" /\ slot[q] = "none" => reader[to[q]] \notin {"announce", "done"}

\* No request is failed for the end of a connection it was not on, as long as no
\* loop began for a loss that was over.
FailedWithItsOwn ==
  [][\A q \in Requests :
       call[q] = "awaiting" /\ slot[q] = "none" /\ slot'[q] = "lost"
         => proc[to[q]] = "ended" \/ stale]_vars

\* There is one connection, never two ssh processes at once; and Connected is said of
\* a child whose end has not been announced, unless the announcement of its end came
\* first. With the same proviso.
OneConnection == \A c, d \in Children : proc[c] = "alive" /\ proc[d] = "alive" => c = d
StateIsTheChilds ==
  \/ stale
  \/ OneConnection /\ (state = "connected" => reader[live] # "done" \/ masked)

\* A lost connection is tried again, until it is there or the loop gave up, unless
\* the loss was dropped or masked.
Down == subscribed /\ (live = 0 \/ reader[live] = "done")
KeepsTrying ==
  Down ~> (~Down \/ gaveUp \/ missed \/ masked \/ Newest = MaxChildren)

-----------------------------------------------------------------------------
(* What the documents say and the code does not do                         *)

\* composition.rs, on the sender: a request made while no child is live fails, as
\* during an outage; docs/transport.md: on a loss, every outstanding one does.
NoneWaitsAtAll ==
  \A q \in Requests :
    call[q] = "awaiting" /\ slot[q] = "none" => reader[to[q]] # "done"

\* docs/transport.md, Reconnection: retrying indefinitely.
KeepsTryingAlways ==
  Down ~> (~Down \/ gaveUp \/ Newest = MaxChildren)

\* docs/transport.md, When it fails: after a changed host key never again, nor after
\* a refusal or a missing engine.
RefusedIsNotRetried == byLoop /\ conn = "start" => exit # "refuse"

=============================================================================
