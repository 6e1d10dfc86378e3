---------------------------- MODULE WatchRequests ----------------------------
(***************************************************************************)
(* What the client asks the engine to watch: the window's requester with   *)
(* its timer (watched.svelte.ts), the command that sends a difference      *)
(* (workspace_watch), the record of what was accepted (record_watch), and  *)
(* the resume that follows a reconnection (resume_after_reconnect), over   *)
(* a connection that may be lost. An engine that still runs something is   *)
(* found again with its watches; any other is a new one.                   *)
(*                                                                         *)
(* An asker is one call of the command, or one resume: it makes its        *)
(* requests one after the other. The order among askers is the runtime's.  *)
(***************************************************************************)
EXTENDS Naturals, Sequences, TLC

CONSTANTS
  Entries,       \* the folders and files the window shows
  MaxUpdates,    \* bound: changes of what is shown
  MaxLosses,     \* bound: losses of the connection
  MaxEvents      \* bound: of both together

ASSUME BoundsAreNumbers == MaxUpdates \in Nat /\ MaxLosses \in Nat /\ MaxEvents \in Nat

\* Nothing distinguishes one path from another.
Symmetry == Permutations(Entries)

Calls == 1..MaxUpdates
Resumes == (MaxUpdates + 1)..(MaxUpdates + MaxLosses)
Askers == Calls \cup Resumes

VARIABLES
  declared,    \* WatchRequester.#current
  timer,       \* the difference that waits for its time
  asker,       \* each: [at, todo, add, remove, ok, refused]
  recorded,    \* WorkspaceAccess.watched
  link,        \* the connection: "up", "down"
  wire,        \* requests on their way
  replies,     \* and their answers
  engine,      \* [registered, reasons]: its reasons to watch each path
  updates, losses,
  unasked,     \* declared, but its request was replaced, refused, lost or recorded late
  unresumed,   \* on record when the resume that mattered stopped short
  kept,        \* let go, but its release was replaced or lost, or it has two reasons
  raced        \* two calls for it were under way at once

window == <<declared, timer, updates>>
connection == <<link, wire, replies, losses>>
ghosts == <<unasked, unresumed, kept, raced>>
requestsVars == <<window, asker, recorded, connection, engine, ghosts>>

NoDelta == [add |-> {}, remove |-> {}]
Idle == [at |-> "idle", todo |-> <<>>, add |-> {}, remove |-> {}, ok |-> FALSE, refused |-> {}]
NewEngine == [registered |-> FALSE, reasons |-> [p \in Entries |-> 0]]
Busy == {k \in Askers : asker[k].at # "idle"}
-----------------------------------------------------------------------------
(* The window.                                                             *)

Delta(before, after) == [add |-> after \ before, remove |-> before \ after]

\* update: what is shown has changed; the timer starts again with the new difference.
Update(next) ==
  /\ updates < MaxUpdates /\ updates + losses < MaxEvents /\ updates' = updates + 1
  /\ Delta(declared, next) # NoDelta
  /\ declared' = next /\ timer' = Delta(declared, next)
  /\ unasked' = (unasked \cup timer.add) \cap next
  /\ unresumed' = unresumed \cap next /\ kept' = kept \cup timer.remove
  /\ UNCHANGED <<asker, recorded, connection, engine, raced>>

\* The time is up: the command is called, with releases before watches.
Steps(change) == (IF change.remove = {} THEN <<>> ELSE <<"unwatch">>)
                 \o (IF change.add = {} THEN <<>> ELSE <<"watch">>)
Touches(k) == asker[k].add \cup asker[k].remove
Fire ==
  /\ timer # NoDelta /\ timer' = NoDelta
  /\ asker' = [asker EXCEPT ![updates] =
                 [Idle EXCEPT !.at = "asks", !.todo = Steps(timer),
                              !.add = timer.add, !.remove = timer.remove]]
  /\ raced' = raced \cup ((timer.add \cup timer.remove) \cap UNION {Touches(k) : k \in Busy \cap Calls})
  /\ UNCHANGED <<declared, updates, recorded, connection, engine, unasked, unresumed, kept>>
-----------------------------------------------------------------------------
(* An asker: a command, or a resume.                                       *)

\* What is left of a command that fails is not asked again.
Fails(k) ==
  /\ asker' = [asker EXCEPT ![k] = Idle]
  /\ unasked' = unasked \cup (asker[k].add \cap declared)
  /\ kept' = IF Head(asker[k].todo) = "unwatch" THEN kept \cup asker[k].remove ELSE kept
  /\ UNCHANGED <<recorded, unresumed, raced>>

RequestOf(k) == LET kind == Head(asker[k].todo)
                IN  [from |-> k, kind |-> kind,
                     paths |-> IF kind = "unwatch" THEN asker[k].remove ELSE asker[k].add]

\* begin: what is pushed to the queue of a connection that is gone goes nowhere, and its
\* asker waits all the same.
Sends(k, request) ==
  /\ wire' = IF link = "up" THEN Append(wire, request) ELSE wire
  /\ asker' = [asker EXCEPT ![k].at = "waits"]
  /\ UNCHANGED <<link, replies, losses>>

Ask(k) ==
  /\ k \in Calls /\ asker[k].at = "asks" /\ Sends(k, RequestOf(k))
  /\ UNCHANGED <<window, recorded, engine, ghosts>>

\* A command that has its answer and has not recorded it is overlooked by a resume.
Overlooked == UNION {asker[k].add : k \in {j \in Busy \cap Calls : asker[j].at = "answered"}}
Leaving == UNION {asker[k].remove : k \in Busy \cap Calls}

\* A resume that stops short asks for nothing again; the next loss brings another.
StopsShort(k) ==
  /\ asker' = [asker EXCEPT ![k] = Idle]
  /\ unresumed' = IF k = MaxUpdates + losses THEN unresumed \cup recorded \cup Overlooked
                                             ELSE unresumed
  /\ UNCHANGED <<recorded, unasked, kept, raced>>

\* register: nothing is asked where the cache does not know the workspace.
Register(k) ==
  /\ k \in Resumes /\ asker[k].at = "asks" /\ Head(asker[k].todo) = "register"
  /\ \/ Sends(k, RequestOf(k)) /\ UNCHANGED <<recorded, ghosts>>
     \/ StopsShort(k) /\ UNCHANGED connection
  /\ UNCHANGED <<window, engine>>

\* rewatch: what is recorded by now, unless that is nothing.
Rewatch(k) ==
  /\ k \in Resumes /\ asker[k].at = "asks" /\ Head(asker[k].todo) = "watch"
  /\ IF recorded # {}
     THEN Sends(k, [RequestOf(k) EXCEPT !.paths = recorded])
     ELSE asker' = [asker EXCEPT ![k] = Idle] /\ UNCHANGED connection
  /\ unasked' = unasked \cup Overlooked /\ kept' = kept \cup (Leaving \cap recorded)
  /\ UNCHANGED <<window, recorded, engine, unresumed, raced>>

\* record_watch: what was released goes, what was accepted stays.
Recorded_Wrong(kind, c) == recorded \cup (IF kind = "unwatch" THEN {} ELSE c.add \ c.refused)
Recorded(kind, c) == IF kind = "unwatch" THEN recorded \ c.remove
                     ELSE recorded \cup (c.add \ c.refused)
AfterAnswer(k) == LET rest == Tail(asker[k].todo)
            IN  IF rest = <<>> THEN Idle
                       ELSE [asker[k] EXCEPT !.at = "asks", !.todo = rest]

Answered(k) ==
  /\ k \in Calls /\ asker[k].at = "answered"
  /\ IF asker[k].ok
     THEN /\ recorded' = Recorded(Head(asker[k].todo), asker[k])
          /\ asker' = [asker EXCEPT ![k] = AfterAnswer(k)]
          /\ unasked' = unasked \cup (asker[k].refused \cap declared)
          /\ UNCHANGED <<unresumed, kept, raced>>
     ELSE Fails(k)
  /\ UNCHANGED <<window, connection, engine>>

\* A resume goes on when its workspace is registered, and not otherwise; that its paths
\* are refused or lost does not stop it.
Resumed(k) ==
  /\ k \in Resumes /\ asker[k].at = "answered"
  /\ IF asker[k].ok \/ Head(asker[k].todo) = "watch"
     THEN /\ asker' = [asker EXCEPT ![k] = AfterAnswer(k)]
          /\ unasked' = unasked \cup (asker[k].refused \cap declared)
          /\ UNCHANGED <<recorded, unresumed, kept, raced>>
     ELSE StopsShort(k)
  /\ UNCHANGED <<window, connection, engine>>

\* The time limit: the request may be served all the same, and nobody has its answer.
TimesOut(k) ==
  /\ asker[k].at = "waits"
  /\ IF k \in Calls THEN Fails(k) ELSE StopsShort(k)
  /\ UNCHANGED <<window, connection, engine>>
-----------------------------------------------------------------------------
(* The engine, which takes one request after the other.                    *)

Answers(to, ok, refused) ==
  /\ wire' = Tail(wire) /\ replies' = Append(replies, [to |-> to, ok |-> ok, refused |-> refused])
  /\ UNCHANGED <<window, asker, recorded, link, losses, unasked, unresumed, raced>>

\* A root that is gone or may not be had is refused.
ServeRegister == \E r \in {wire[i] : i \in {1} \cap DOMAIN wire} :
  /\ r.kind = "register"
  /\ \/ engine' = [engine EXCEPT !.registered = TRUE] /\ Answers(r.from, TRUE, {})
     \/ Answers(r.from, FALSE, {}) /\ UNCHANGED engine
  /\ UNCHANGED kept

\* A workspace it does not know is refused whole; of one it knows, any path may be.
ServeWatch == \E r \in {wire[i] : i \in {1} \cap DOMAIN wire} :
  /\ r.kind = "watch"
  /\ \/ /\ ~engine.registered /\ Answers(r.from, FALSE, {}) /\ UNCHANGED <<engine, kept>>
     \/ /\ engine.registered
        /\ \E refused \in {{}} \cup {{p} : p \in r.paths} :
             /\ engine' = [engine EXCEPT !.reasons =
                             [p \in Entries |-> IF p \in r.paths \ refused THEN @[p] + 1 ELSE @[p]]]
             /\ kept' = kept \cup {p \in r.paths : engine.reasons[p] > 0}
             /\ Answers(r.from, TRUE, refused)

ServeUnwatch == \E r \in {wire[i] : i \in {1} \cap DOMAIN wire} :
  /\ r.kind = "unwatch"
  /\ Answers(r.from, engine.registered, {})
  /\ engine' = IF ~engine.registered THEN engine
               ELSE [engine EXCEPT !.reasons =
                       [p \in Entries |-> IF p \in r.paths /\ @[p] > 0 THEN @[p] - 1 ELSE @[p]]]
  /\ UNCHANGED kept
-----------------------------------------------------------------------------
(* The connection.                                                         *)

\* An answer that nobody waits for any more is dropped.
Deliver ==
  /\ replies # <<>> /\ replies' = Tail(replies)
  /\ asker' = [asker EXCEPT ![Head(replies).to] =
                 IF @.at # "waits" THEN @
                 ELSE [@ EXCEPT !.at = "answered", !.ok = Head(replies).ok,
                                !.refused = Head(replies).refused]]
  /\ UNCHANGED <<window, recorded, link, wire, losses, engine, ghosts>>

\* Every request without its answer has lost it. An engine that runs nothing ends.
Lose ==
  /\ link = "up" /\ losses < MaxLosses /\ updates + losses < MaxEvents
  /\ losses' = losses + 1
  /\ link' = "down" /\ wire' = <<>> /\ replies' = <<>>
  /\ asker' = [k \in Askers |-> IF asker[k].at = "waits"
                                THEN [asker[k] EXCEPT !.at = "answered", !.ok = FALSE] ELSE asker[k]]
  /\ engine' \in {engine, NewEngine}
  /\ unresumed' = {} /\ UNCHANGED <<window, recorded, unasked, kept, raced>>

\* The loop that reconnects resumes the workspace: commands need not wait for that.
Order_Wrong == <<"watch", "register">>
Order == <<"register", "watch">>
Reconnect ==
  /\ link = "down" /\ link' = "up"
  /\ asker' = [asker EXCEPT ![MaxUpdates + losses] = [Idle EXCEPT !.at = "asks", !.todo = Order]]
  /\ UNCHANGED <<window, recorded, wire, replies, losses, engine, ghosts>>
-----------------------------------------------------------------------------
RequestsInit ==
  /\ declared = {} /\ timer = NoDelta /\ updates = 0
  /\ asker = [k \in Askers |-> Idle] /\ recorded = {}
  /\ link = "up" /\ wire = <<>> /\ replies = <<>> /\ losses = 0
  /\ engine = [NewEngine EXCEPT !.registered = TRUE]
  /\ unasked = {} /\ unresumed = {} /\ kept = {} /\ raced = {}

RequestsNext ==
  \/ \E next \in SUBSET Entries : Update(next)
  \/ Fire \/ Deliver \/ Lose \/ Reconnect
  \/ ServeRegister \/ ServeWatch \/ ServeUnwatch
  \/ \E k \in Askers : Ask(k) \/ Register(k) \/ Rewatch(k) \/ Answered(k) \/ Resumed(k) \/ TimesOut(k)

RequestsSpec == RequestsInit /\ [][RequestsNext]_requestsVars
-----------------------------------------------------------------------------
RequestsTypeOK ==
  /\ declared \subseteq Entries /\ recorded \subseteq Entries
  /\ timer.add \subseteq declared /\ timer.remove \cap declared = {}
  /\ \A k \in Askers : /\ asker[k].at \in {"idle", "asks", "waits", "answered"}
                       /\ asker[k].at = "idle" <=> asker[k].todo = <<>>
  /\ link \in {"up", "down"} /\ (link = "down" => wire = <<>> /\ replies = <<>>)
  /\ engine.reasons \in [Entries -> Nat]

Rest == timer = NoDelta /\ Busy = {} /\ link = "up"

\* At rest the engine watches what the window shows, and the client has on record that
\* it asked for it: through losses, new engines and commands that overlap a resume. Not
\* so for a path whose request was replaced before its time, refused, lost, or answered
\* and not recorded when the resume looked; nor for one that two calls were about at
\* once; nor for what was on record when the last resume was not let to register its
\* workspace, or had no answer. (And the state is as RequestsTypeOK has it.)
DeclaredIsWatched ==
  RequestsTypeOK /\ (Rest => \A p \in declared \ (unasked \cup unresumed \cup raced) :
                               p \in recorded /\ engine.reasons[p] > 0)

\* At rest what the window no longer shows is watched by nobody, nor on record to be
\* watched again: what was released stays released over a reconnection. Not so for a
\* path whose release was replaced before its time or lost, or that an engine which was
\* found again was asked for a second time.
LeftIsReleased ==
  Rest => \A p \in Entries \ (declared \cup kept \cup raced) :
            p \notin recorded /\ engine.reasons[p] = 0
=============================================================================
