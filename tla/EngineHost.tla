----------------------------- MODULE EngineHost -----------------------------
(***************************************************************************)
(* The processes of the engine's binary on one host (main.rs,              *)
(* engine_socket.rs, session.rs, drain_and_exec of rpc.rs): who becomes    *)
(* the engine and who a proxy to it, whom the engine serves, where its     *)
(* frames go, when it leaves, and how it restarts.                         *)
(*                                                                         *)
(* A client starts a process and talks to it through the process's         *)
(* standard input and output: process and client share a name. What is     *)
(* written to the input, or to a proxy's socket, waits to be read; a frame *)
(* the engine writes counts when it is written. One task stands for any    *)
(* number of them.                                                         *)
(***************************************************************************)
EXTENDS Naturals, FiniteSets, Sequences, SequencesExt

CONSTANTS
  N,             \* bound: processes that are ever started
  MaxRequests,   \* bound: requests the clients send
  MaxCrashes     \* bound: processes killed

ASSUME Bounds == N \in Nat \ {0} /\ MaxRequests \in Nat /\ MaxCrashes \in Nat

Processes == 1..N       \* in the order they are started
Nobody == 0
Dead == N + 1           \* owns the path once its owner no longer listens

VARIABLES
  phase,         \* what each process is at
  path,          \* whose listener is bound to the socket's path
  open,          \* the client still holds its process's input
  restarted,     \* SessionRegistry.restarted: has to announce itself
  queue,         \* who is connected to the listener and not accepted
  serving,       \* whose requests the engine's loop reads
  sink,          \* FrameWriter.sink: who reads the other end
  tasks,         \* the engine has tasks
  pending,       \* requests sent and not read
  owed,          \* answers and announcements a client that is there waits for
  rivals,        \* who claimed the path while a process did
  displaced,     \* whose path another removed that claimed beside it, or left after one did
  requests, crashes

connections == <<queue, serving, sink>>
talk == <<pending, owed>>
race == <<rivals, displaced>>
vars == <<phase, path, open, restarted, connections, tasks, talk, race, requests, crashes>>

Claiming == {"taken", "stale", "rebinding", "bound"}
Phases == Claiming \cup {"off", "binding", "engine", "leaving", "proxy", "orphan", "gone"}
Requests == {"work", "restart", "shutdown"}

Listening(p) == phase[p] \in {"engine", "leaving"}
Waiting(p) == \E e \in Processes : Contains(queue[e], p)
Served(p) == \E e \in Processes : serving[e] = p

\* The proxies that hold a connection to e.
Attached(e) == (ToSet(queue[e]) \cup {serving[e], sink[e]}) \ {e, Nobody}

\* What becomes of the proxies that held a connection to a process that goes on as next.
\* One whose client is still there has only one of its two copies end, and waits for
\* the other.
CutOff(p, next) ==
  [q \in Processes |-> IF q = p THEN next
                       ELSE IF q \notin Attached(p) \/ phase[q] # "proxy" THEN phase[q]
                       ELSE IF open[q] THEN "orphan" ELSE "gone"]

\* p's listener and connections close, with what was in the sockets; what it ran ends.
Closes(p, next) ==
  /\ phase' = CutOff(p, next)
  /\ queue' = [queue EXCEPT ![p] = <<>>]
  /\ serving' = [serving EXCEPT ![p] = Nobody] /\ sink' = [sink EXCEPT ![p] = Nobody]
  /\ tasks' = [tasks EXCEPT ![p] = FALSE]

Abandoned(p) == IF path = p THEN Dead ELSE path
Unread(kept, lost) == [q \in Processes |-> IF q \in lost THEN <<>> ELSE kept[q]]

\* p ends, and with it what its client waits for. Those of a proxy's requests that are in
\* its socket may still be read.
Ends(p) == /\ Closes(p, "gone")
           /\ pending' = Unread(pending, Attached(p) \cup (IF phase[p] = "proxy" THEN {} ELSE {p}))
           /\ open' = [open EXCEPT ![p] = FALSE]
           /\ owed' = [owed EXCEPT ![p] = 0]
           /\ restarted' = [restarted EXCEPT ![p] = FALSE]
Less(n, k) == IF n > k THEN n - k ELSE 0
-----------------------------------------------------------------------------
(* claim: the path is bound, connected to, removed and bound again, in four  *)
(* steps, and a bound socket listens in a fifth. Any number of processes is  *)
(* at it at a time.                                                          *)

Becomes(p, next) == phase' = [phase EXCEPT ![p] = next]

\* Nothing keeps two processes from claiming at the same time: a history of who did, for
\* those that have found the path taken.
Meets(p) == rivals' = [q \in Processes |->
  IF q = p THEN {other \in Processes : path # Nobody /\ phase[other] \in Claiming}
  ELSE IF phase[q] \in {"taken", "stale"} THEN rivals[q] \cup {p} ELSE {}]
Parts(p) == rivals' = [rivals EXCEPT ![p] = {}]
Displaces(culprit) == displaced' = displaced \cup (IF culprit THEN {path} \cap Processes ELSE {})

Bind(p) == /\ IF path = Nobody THEN path' = p /\ Becomes(p, "bound")
                               ELSE UNCHANGED path /\ Becomes(p, "taken")
           /\ Meets(p) /\ displaced' = displaced \ {p}
           /\ UNCHANGED <<restarted, connections, tasks, talk, requests, crashes>>

\* A process that a client starts claims first of all, and so does one that restarts.
Launch(p) == /\ phase[p] = "off" /\ \A q \in 1..(p - 1) : phase[q] # "off"
             /\ open' = [open EXCEPT ![p] = TRUE] /\ Bind(p)
Relaunch(p) == phase[p] = "binding" /\ Bind(p) /\ UNCHANGED open

\* The engine serves its own input first, and announces a restart before anything else.
\* What has been bound is made private by its path: without one, the process ends.
Listen(p) ==
  /\ phase[p] = "bound"
  /\ \/ /\ path = Nobody /\ Ends(p)
     \/ /\ path # Nobody /\ Becomes(p, "engine")
        /\ serving' = [serving EXCEPT ![p] = p] /\ sink' = [sink EXCEPT ![p] = p]
        /\ restarted' = [restarted EXCEPT ![p] = FALSE]
        /\ owed' = [owed EXCEPT ![p] = IF restarted[p] THEN Less(@, 1) ELSE @]
        /\ UNCHANGED <<open, queue, tasks, pending>>
  /\ UNCHANGED <<path, race, requests, crashes>>

\* Whoever listens at the path is the engine; otherwise it is one that died.
Reachable == path \in Processes /\ Listening(path)
Connect_Wrong(p) == /\ phase[p] = "taken" /\ Becomes(p, "stale")
                    /\ UNCHANGED <<path, open, restarted, connections, tasks, talk, race, requests, crashes>>
Connect(p) == /\ phase[p] = "taken"
              /\ IF Reachable THEN /\ Becomes(p, "proxy")
                                   /\ queue' = [queue EXCEPT ![path] = Append(@, p)]
                                   /\ Parts(p)
                              ELSE Becomes(p, "stale") /\ UNCHANGED <<queue, rivals>>
              /\ UNCHANGED <<path, open, restarted, serving, sink, tasks, talk, displaced, requests, crashes>>

\* Whatever is there by now is removed, what another has just bound as well. A path that
\* has gone meanwhile is an error, and the process ends.
Unlink(p) == /\ phase[p] = "stale"
             /\ IF path = Nobody
                THEN Ends(p) /\ UNCHANGED path
                ELSE /\ path' = Nobody /\ Becomes(p, "rebinding")
                     /\ UNCHANGED <<open, restarted, connections, tasks, talk>>
             /\ Displaces(path \in rivals[p]) /\ Parts(p)
             /\ UNCHANGED <<requests, crashes>>

\* Once only: whoever has bound the path meanwhile keeps it.
Rebind(p) == /\ phase[p] = "rebinding"
             /\ IF path # Nobody
                THEN Ends(p) /\ UNCHANGED path
                ELSE /\ path' = p /\ Becomes(p, "bound")
                     /\ UNCHANGED <<open, restarted, connections, tasks, talk>>
             /\ UNCHANGED <<race, requests, crashes>>
-----------------------------------------------------------------------------
(* The client, and the proxy between it and the engine.                      *)

\* A client that restarts the engine waits for the answer and the announcement.
Ask(p, r) ==
  /\ open[p] /\ requests < MaxRequests
  /\ requests' = requests + 1
  /\ pending' = [pending EXCEPT ![p] = Append(@, r)]
  /\ owed' = [owed EXCEPT ![p] = @ + (IF r = "restart" THEN 2 ELSE 1)]
  /\ UNCHANGED <<phase, path, open, restarted, connections, tasks, race, crashes>>

\* A client that is gone for good: one whose connection is dead without the host
\* knowing takes no step.
Close(p) == /\ open[p]
            /\ open' = [open EXCEPT ![p] = FALSE] /\ owed' = [owed EXCEPT ![p] = 0]
            /\ UNCHANGED <<phase, path, restarted, connections, tasks, pending, race, requests, crashes>>

\* The proxy's copy of the input ends by the input's end, or by failing to write.
OrphanEnds_Wrong(p) == /\ phase[p] = "orphan" /\ pending[p] # <<>>
                       /\ Ends(p) /\ UNCHANGED <<path, race, requests, crashes>>
OrphanEnds(p) == /\ phase[p] = "orphan" /\ (pending[p] # <<>> \/ ~open[p])
                 /\ Ends(p) /\ UNCHANGED <<path, race, requests, crashes>>
-----------------------------------------------------------------------------
(* The engine's loop: serve until the client goes, accept the next.          *)

NextRequest(e, r) == /\ phase[e] = "engine" /\ serving[e] # Nobody
                     /\ pending[serving[e]] # <<>> /\ Head(pending[serving[e]]) = r
Read(e) == [pending EXCEPT ![serving[e]] = Tail(@)]

\* write_interactive: the answer goes to whoever the sink leads to.
Answered(e) == owed' = [owed EXCEPT ![sink[e]] = Less(@, 1)]
Serve(e) ==
  /\ NextRequest(e, "work")
  /\ pending' = Read(e)
  /\ Answered(e)
  /\ \E runs \in BOOLEAN : tasks' = [tasks EXCEPT ![e] = @ \/ runs]
  /\ UNCHANGED <<phase, path, open, restarted, connections, race, requests, crashes>>

\* session/shutdown answers on the process's own output, and exits without releasing.
Shutdown(e) ==
  /\ NextRequest(e, "shutdown") /\ Ends(e) /\ path' = Abandoned(e)
  /\ UNCHANGED <<race, requests, crashes>>

\* Answers and announcements that the frames given up would have had: a restart that is
\* refused is not announced either.
Refused_Wrong(frames) == 0
Refused(frames) == Len(frames) + Cardinality({i \in DOMAIN frames : frames[i] = "restart"})

\* drain_and_exec: the first k requests behind the restart have been read already and are
\* refused. The new image has the old input and output, and no socket.
Restart(e, k) ==
  /\ NextRequest(e, "restart")
  /\ LET client == serving[e]
         behind == Tail(pending[client])
     IN /\ k <= Len(behind)
        /\ pending' = Unread([pending EXCEPT ![client] = SubSeq(behind, k + 1, Len(behind))],
                             Attached(e))
        /\ owed' = IF client = e THEN [owed EXCEPT ![e] = Less(@, 1 + Refused(SubSeq(behind, 1, k)))]
                                 ELSE owed
  /\ Closes(e, "binding") /\ path' = Abandoned(e)
  /\ restarted' = [restarted EXCEPT ![e] = TRUE]
  /\ UNCHANGED <<open, race, requests, crashes>>

\* The binary is no longer where it was.
ExecFails(e) ==
  /\ NextRequest(e, "restart") /\ Ends(e) /\ path' = Abandoned(e)
  /\ UNCHANGED <<race, requests, crashes>>

\* The input ends: nothing is stopped, and the sink stays what it was.
HangUp(e) == /\ phase[e] = "engine" /\ serving[e] # Nobody
             /\ ~open[serving[e]] /\ pending[serving[e]] = <<>>
             /\ serving' = [serving EXCEPT ![e] = Nobody]
             /\ UNCHANGED <<phase, path, open, restarted, queue, sink, tasks, talk, race, requests, crashes>>

\* The old connection is dropped: the proxy that held it ends.
Retarget(e, next) ==
  LET former == {sink[e]} \ {e}
  IN  /\ sink' = [sink EXCEPT ![e] = next]
      /\ phase' = [q \in Processes |-> IF q \in former THEN "gone" ELSE phase[q]]
      /\ open' = [q \in Processes |-> open[q] /\ q \notin former]
      /\ owed' = [q \in Processes |-> IF q \in former THEN 0 ELSE owed[q]]

Accept(e) ==
  /\ phase[e] = "engine" /\ serving[e] = Nobody /\ queue[e] # <<>>
  /\ Retarget(e, Head(queue[e]))
  /\ serving' = [serving EXCEPT ![e] = Head(queue[e])]
  /\ queue' = [queue EXCEPT ![e] = Tail(@)]
  /\ UNCHANGED <<path, restarted, tasks, pending, race, requests, crashes>>

\* accept_while_tasks_remain finds nobody waiting and nothing running.
Leave(e) == /\ phase[e] = "engine" /\ serving[e] = Nobody /\ queue[e] = <<>> /\ ~tasks[e]
            /\ Becomes(e, "leaving")
            /\ UNCHANGED <<path, open, restarted, connections, tasks, talk, race, requests, crashes>>

\* release removes whatever is at the path, another's as well once it has lost its own.
Release(e) == /\ phase[e] = "leaving" /\ Ends(e) /\ path' = Nobody
              /\ Displaces(e \in displaced)
              /\ UNCHANGED <<rivals, requests, crashes>>

TaskEnds(e) == /\ tasks[e] /\ tasks' = [tasks EXCEPT ![e] = FALSE]
               /\ UNCHANGED <<phase, path, open, restarted, connections, talk, race, requests, crashes>>

Crash(p) == /\ phase[p] \notin {"off", "gone"} /\ crashes < MaxCrashes /\ crashes' = crashes + 1
            /\ Ends(p) /\ path' = Abandoned(p) /\ Parts(p) /\ UNCHANGED <<displaced, requests>>
-----------------------------------------------------------------------------
Init ==
  /\ phase = [p \in Processes |-> "off"]
  /\ path = Nobody
  /\ open = [p \in Processes |-> FALSE] /\ restarted = open /\ tasks = open
  /\ queue = [p \in Processes |-> <<>>] /\ pending = queue
  /\ serving = [p \in Processes |-> Nobody] /\ sink = serving
  /\ owed = [p \in Processes |-> 0]
  /\ rivals = [p \in Processes |-> {}] /\ displaced = {}
  /\ requests = 0 /\ crashes = 0

Claim(p) == Relaunch(p) \/ Listen(p) \/ Connect(p) \/ Unlink(p) \/ Rebind(p)
Loop(e) == \/ Serve(e) \/ Shutdown(e) \/ ExecFails(e) \/ \E k \in 0..MaxRequests : Restart(e, k)
           \/ HangUp(e) \/ Accept(e) \/ Leave(e) \/ Release(e)
Client(p) == Launch(p) \/ Close(p) \/ \E r \in Requests : Ask(p, r)

Next == \E p \in Processes : \/ Claim(p) \/ OrphanEnds(p) \/ Loop(p)
                             \/ Client(p) \/ TaskEnds(p) \/ Crash(p)

\* A process that can go on does. Nothing is assumed of clients and tasks.
Spec == /\ Init /\ [][Next]_vars
        /\ \A p \in Processes : WF_vars(Claim(p) \/ OrphanEnds(p) \/ Loop(p))
-----------------------------------------------------------------------------
(* Properties.                                                               *)

\* The types; a path belongs to a process that has bound it and not released it, and
\* only an engine has connections and tasks.
FlagsOK == /\ open \in [Processes -> BOOLEAN] /\ restarted \in [Processes -> BOOLEAN]
           /\ tasks \in [Processes -> BOOLEAN]
TypeOK ==
  /\ FlagsOK
  /\ phase \in [Processes -> Phases]
  /\ path \in Processes \cup {Nobody, Dead}
  /\ path \in Processes => phase[path] = "bound" \/ Listening(path)
  /\ serving \in [Processes -> Processes \cup {Nobody}]
  /\ sink \in [Processes -> Processes \cup {Nobody}]
  /\ rivals \in [Processes -> SUBSET Processes] /\ displaced \subseteq Processes
  /\ \A p \in Processes : /\ tasks[p] \/ queue[p] # <<>> => Listening(p)
                          /\ sink[p] # Nobody <=> Listening(p)
                          /\ pending[p] \in Seq(Requests)
                          /\ owed[p] \in 0..(2 * MaxRequests)

\* What claim is for: one engine on a host, and whoever comes back to it finds its tasks.
\* An engine that runs something neither leaves nor loses the path, whoever starts, ends,
\* claims or is killed beside it. Not so for one that is displaced: another had found the
\* same stale path before it bound the path anew, or found it bound and not yet listening,
\* or was displaced itself and left.
OneEngine ==
  /\ TypeOK
  /\ \A p, q \in Processes \ displaced : Listening(p) /\ Listening(q) => p = q
  /\ \A e \in Processes : tasks[e] => phase[e] = "engine" /\ (path = e \/ e \in displaced)

\* What a client that is served has asked is answered or refused, across restarts of
\* the engine as well, or its connection is gone or has to wait again. The announcement
\* is not made by an engine that finds another in its place.
EveryRequestIsAnswered ==
  \A p \in Processes :
    owed[p] > 0 /\ Served(p) ~>
      \/ owed[p] = 0 \/ Waiting(p)
      \/ phase[p] = "orphan"
      \/ phase[p] = "proxy" /\ restarted[p]

\* With no client, and no task that still runs, every process ends and the path leads to
\* none of them.
NothingIsLeftBehind ==
  (\A p \in Processes : ~open[p] /\ ~tasks[p]) ~>
    \/ \E p \in Processes : open[p] \/ tasks[p]
    \/ path \notin Processes /\ \A p \in Processes : phase[p] \in {"off", "gone"}

\* What main.rs says of a client that comes back: the newest wins.
NewestWins ==
  \A p \in Processes : Waiting(p) ~> ~Waiting(p)

\* What engine_socket.rs says of connecting before removing: that no two engines come of it.
NobodyIsDisplaced == displaced = {}
=============================================================================
