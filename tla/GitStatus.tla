------------------------------ MODULE GitStatus ------------------------------
(***************************************************************************)
(* Git status from the repository on the host to the marks in the window:  *)
(* the coalescer, the pager and the pump of the engine (git_status.rs,     *)
(* git_watchers.rs), the requests and pushes between, and the client's     *)
(* applier, projection and view (apply_git_status.rs, git_notification.rs, *)
(* status.svelte.ts). One workspace; a page holds one changed path.        *)
(*                                                                         *)
(* The repository is a version number: every change to it is another one,  *)
(* of which Size(v) paths differ. A frame of the engine that answers a     *)
(* request is taken when it is written: whoever waits for it may be slow,  *)
(* so the pushes ahead of it make no difference.                           *)
(***************************************************************************)
EXTENDS Naturals, Sequences

CONSTANTS
  QueueSize,     \* QUEUE of git_notification.rs
  MaxPages,      \* MAX_PAGES of apply_git_status.rs
  MaxSteps       \* bound: changes to the repository, refreshes the client asks
                 \* for of its own accord, and faults
ASSUME GitAssumption == QueueSize \in Nat /\ MaxPages \in Nat \ {0} /\ MaxSteps \in Nat

VARIABLES
  repo,          \* the version of the repository
  signal,        \* the git directory's watch has an event of HEAD or index
  events,        \* what the watch thread has to tell: "none", "batch", "bulk"
  watched,       \* the work tree is watched
  attached,      \* the git directory is watched
  invalidating,  \* the watch thread is about to write workspace/invalidateAll
  observed,      \* GitWatchers.observed has the workspace
  co,            \* its StatusCoalescer
  pump,          \* its pump: what it is at, and the version it has read
  held,          \* StatusPager.held: [version, generation]
  dispatch,      \* what the engine's only dispatching thread is at
  wire,          \* notifications on their way
  jobs,          \* GitNotifications.work
  pulls,         \* who accumulates pages: the applier, and whoever refreshes
  projection,    \* what the client's store holds
  shown,         \* GitStatusStore.#status
  steps,
  given,         \* the highest generation there has been
  reused,        \* a generation has been given out again
  lost,          \* a change can have been missed: see the actions that set it
  behind         \* the view need not show the projection: see SettledIsShown

repository == <<repo, signal, events, watched, attached>>
engine == <<observed, co, pump, held, dispatch, invalidating>>
client == <<jobs, pulls, projection>>
ghosts == <<given, reused, lost, behind>>
vars == <<repository, engine, wire, client, shown, steps, ghosts>>

Size(v) == IF v % 2 = 1 THEN 2 ELSE 1
NoneHeld == [version |-> 0, generation |-> 0]
Blank == [branch |-> 0, entries |-> <<>>]
Snapshot(v) == [branch |-> v, entries |-> [i \in 1..Size(v) |-> v]]
Step == steps < MaxSteps /\ steps' = steps + 1
-----------------------------------------------------------------------------
(* StatusCoalescer. The time of a pending edge passes at any moment.         *)

Calm == [pending |-> FALSE, running |-> FALSE, dirty |-> FALSE]
Notice_Wrong(c) == IF c.running THEN c ELSE [c EXCEPT !.pending = TRUE]
Notice(c) == IF c.running THEN [c EXCEPT !.dirty = TRUE] ELSE [c EXCEPT !.pending = TRUE]
Due(c) == ~c.running /\ c.pending
Begun(c) == [pending |-> FALSE, running |-> TRUE, dirty |-> FALSE]
Finish_Wrong(c) == [c EXCEPT !.dirty = FALSE, !.pending = @ \/ c.dirty]
Finish(c) == [c EXCEPT !.running = FALSE, !.dirty = FALSE,
                       !.pending = @ \/ c.dirty]
WillRead(c) == c.pending \/ c.dirty

\* nudge: nothing happens to a workspace that is not observed.
Nudge == co' = IF observed THEN Notice(co) ELSE co
-----------------------------------------------------------------------------
(* The repository and the two watches on it.                               *)

\* A change of the git directory, of the work tree, or of both at once. The tree's is
\* missed when the tree is only just being watched and the status that
\* workspace/watch asked for has been read already.
Change(index, told) ==
  /\ Step /\ repo' = repo + 1
  /\ signal' = (signal \/ (index /\ attached))
  /\ events' = IF watched /\ events # "bulk" /\ told # "none" THEN told ELSE events
  /\ lost' = (lost \/ (dispatch.at = "watch" /\ ~WillRead(co)))
  /\ UNCHANGED <<watched, attached, engine, wire, client, shown, given, reused, behind>>

\* The git directory's watch: one call for what it has read.
SignalFires == /\ signal /\ signal' = FALSE /\ co' = Notice(co)
               /\ UNCHANGED <<repo, events, watched, attached, observed, pump, held, dispatch,
                              invalidating, wire, client, shown, steps, ghosts>>

\* The watch thread nudges, and only then writes what it tells.
WatchNudges == /\ events # "none" /\ ~invalidating
               /\ events' = "none" /\ Nudge /\ invalidating' = (events = "bulk")
               /\ UNCHANGED <<repo, signal, watched, attached, observed, pump, held, dispatch,
                              wire, client, shown, steps, ghosts>>

\* An invalidation that its own status has overtaken clears that status.
WatchInvalidates ==
  /\ invalidating /\ invalidating' = FALSE
  /\ wire' = Append(wire, [kind |-> "invalidate"])
  /\ lost' = (lost \/ ~observed \/ ~(WillRead(co) \/ co.running))
  /\ UNCHANGED <<repository, observed, co, pump, held, dispatch, client, shown, steps,
                 given, reused, behind>>
-----------------------------------------------------------------------------
(* The pager and the pump. A page is one entry of what is held.            *)

PageFrom(offset) ==
  [branch |-> held.version, entry |-> held.version, generation |-> held.generation,
   next |-> IF offset + 1 < Size(held.version) THEN offset + 1 ELSE 0]
Known_Wrong(cursor) == held # NoneHeld
Known(cursor) == held # NoneHeld /\ cursor.generation = held.generation

\* hold: above the generations held now, which may be below those of before.
\* Of the two threads that hold, one can put an older snapshot over a newer.
Hold(v) == /\ held' = [version |-> v, generation |-> held.generation + 1]
           /\ reused' = (reused \/ held'.generation <= given)
           /\ given' = IF held'.generation > given THEN held'.generation ELSE given
           /\ lost' = (lost \/ held.version > v)
           /\ UNCHANGED behind

Begin == /\ observed /\ Due(co) /\ pump.at = "idle" /\ co' = Begun(co)
         /\ pump' = [pump EXCEPT !.at = "read"]
         /\ UNCHANGED <<repository, observed, held, dispatch, invalidating, wire, client, shown,
                        steps, ghosts>>

\* git status takes no optional locks: reading writes nothing that is watched.
PumpReads == /\ pump.at = "read" /\ pump' = [at |-> "hold", version |-> repo]
             /\ UNCHANGED <<repository, observed, co, held, dispatch,
                            invalidating, wire, client, shown, steps, ghosts>>

\* A status that cannot be computed is not pushed, and not tried again.
PumpFails == /\ pump.at = "read" /\ Step /\ lost' = TRUE
             /\ pump' = [pump EXCEPT !.at = "idle"] /\ co' = Finish(co)
             /\ UNCHANGED <<repository, observed, held, dispatch, invalidating, wire, client,
                            shown, given, reused, behind>>

PumpHolds == /\ pump.at = "hold" /\ Hold(pump.version) /\ pump' = [pump EXCEPT !.at = "push"]
             /\ UNCHANGED <<repository, observed, co, dispatch, invalidating, wire, client,
                            shown, steps>>

PumpPushes == /\ pump.at = "push"
              /\ wire' = Append(wire, [kind |-> "push", page |-> PageFrom(0)])
              /\ pump' = [at |-> "idle", version |-> 0] /\ co' = Finish(co)
              /\ UNCHANGED <<repository, observed, held, dispatch, invalidating, client, shown,
                             steps, ghosts>>
-----------------------------------------------------------------------------
(* Pulling pages, on the client: [at, branch, got, cursor].                *)

NoPull == [at |-> "idle", branch |-> 0, got |-> <<>>, cursor |-> NoneHeld]
Asking == [NoPull EXCEPT !.at = "ask"]
First(p) == p = Asking
\* accumulate: the branch is the first page's, and after MAX_PAGES it gives up.
Take(p, page) ==
  IF page.next # 0 /\ Len(p.got) + 1 >= MaxPages THEN NoPull
  ELSE [at |-> IF page.next = 0 THEN "commit" ELSE "ask",
        branch |-> IF p.got = <<>> THEN page.branch ELSE p.branch,
        got |-> Append(p.got, page.entry),
        cursor |-> [generation |-> page.generation, version |-> page.next]]
Pulls(who, p) == pulls' = [pulls EXCEPT ![who] = p]

\* Resuming a workspace asks for its status again.
Ask == /\ Step /\ pulls.asker.at = "idle"
       /\ Pulls("asker", Asking)
       /\ UNCHANGED <<repository, engine, wire, jobs, projection, shown, ghosts>>

\* What the dispatching thread does takes nobody else's request meanwhile.
Free == dispatch.at = "free"
At(step) == dispatch' = [at |-> step, version |-> 0]

\* git/getStatus without a cursor: observe first, and then compute. Without a
\* git directory nothing is observed; without its watch only file events tell.
Observe == \/ /\ observed' = TRUE /\ attached' = TRUE /\ UNCHANGED <<lost, steps>>
           \/ /\ Step /\ lost' = TRUE /\ attached' = FALSE /\ observed' \in BOOLEAN
ServeObserve == /\ Free /\ First(pulls.asker) /\ At("read")
                /\ IF observed THEN UNCHANGED <<observed, attached, co, lost, steps>>
                   ELSE Observe /\ co' = Calm
                /\ UNCHANGED <<repo, signal, events, watched, pump, held, invalidating, wire,
                               client, shown, given, reused, behind>>
ServeRead == /\ dispatch.at = "read"
             /\ dispatch' = [at |-> "hold", version |-> repo]
             /\ UNCHANGED <<repository, observed, co, pump, held, invalidating, wire, client,
                            shown, steps, ghosts>>
ServeFails == /\ dispatch.at = "read" /\ Step /\ lost' = TRUE /\ At("free")
              /\ Pulls("asker", NoPull)
              /\ UNCHANGED <<repository, observed, co, pump, held, invalidating, wire, jobs,
                             projection, shown, given, reused, behind>>
ServeHold == /\ dispatch.at = "hold" /\ Hold(dispatch.version) /\ At("page")
             /\ UNCHANGED <<repository, observed, co, pump, invalidating, wire, client, shown,
                            steps>>
ServePage == /\ dispatch.at = "page" /\ At("free")
             /\ Pulls("asker", IF First(pulls.asker) THEN Take(Asking, PageFrom(0)) ELSE pulls.asker)
             /\ UNCHANGED <<repository, observed, co, pump, held, invalidating, wire, jobs,
                            projection, shown, steps, ghosts>>

\* With a cursor: a page of the snapshot it was given out for, or a refusal,
\* which discards what has been accumulated. An update is announced all the same,
\* and the view then reads the store.
\* Superseded for good: what replaced its snapshot is not on its way any more.
Coming == \/ pump.at = "push" \/ pulls.asker.at # "idle"
          \/ \E seq \in {wire, jobs} : \E i \in DOMAIN seq :
               seq[i].kind = "push" /\ seq[i].page.generation = held.generation
Announced_Wrong(who) == UNCHANGED shown
ViewReads == shown' = projection'
Announced(who) == IF who = "applier" THEN ViewReads ELSE UNCHANGED shown
Untold(who, changed) == behind' = (who # "applier" /\ (behind \/ changed))
ServeCursor(who) ==
  /\ Free /\ pulls[who].at = "ask" /\ ~First(pulls[who])
  /\ \E p \in {IF Known(pulls[who].cursor) THEN Take(pulls[who], PageFrom(pulls[who].cursor.version))
                ELSE NoPull} :
       /\ Pulls(who, p)
       /\ UNCHANGED projection
       /\ IF p = NoPull THEN Announced(who) /\ Untold(who, FALSE) ELSE UNCHANGED <<shown, behind>>
       /\ lost' = (lost \/ (p = NoPull /\ who = "applier" /\ ~Coming))
  /\ UNCHANGED <<repository, engine, wire, jobs, steps, given, reused>>

\* workspace/watch nudges before it watches.
ServeWatch == /\ Free /\ ~watched /\ Nudge /\ At("watch")
              /\ UNCHANGED <<repository, observed, pump, held, invalidating, wire, client, shown,
                             steps, ghosts>>
ServeWatched == /\ dispatch.at = "watch" /\ watched' = TRUE /\ At("free")
                /\ UNCHANGED <<repo, signal, events, attached, observed, co, pump, held,
                               invalidating, wire, client, shown, steps, ghosts>>

\* workspace/close ends the watch thread, then waits for the pump, and last
\* forgets the snapshot.
ServeClose == /\ Free /\ observed /\ ~invalidating /\ Step /\ At("close")
              /\ watched' = FALSE /\ events' = "none" /\ observed' = FALSE
              /\ UNCHANGED <<repo, signal, attached, co, pump, held, invalidating, wire, client,
                             shown, ghosts>>
PumpJoined == pump.at = "idle"
ServeClosed == /\ dispatch.at = "close" /\ PumpJoined /\ At("free")
               /\ held' = NoneHeld /\ attached' = FALSE /\ signal' = FALSE /\ co' = Calm
               /\ lost' = (lost \/ wire # <<>> \/ jobs # <<>> \/ pulls.applier.at # "idle")
               /\ UNCHANGED <<repo, events, watched, observed, pump, invalidating, wire, client,
                              shown, steps, given, reused, behind>>
-----------------------------------------------------------------------------
(* The client: notifications and the applier.                              *)

\* deliver: what does not fit the queue is dropped.
Deliver == /\ wire # <<>> /\ wire' = Tail(wire)
           /\ IF Len(jobs) < QueueSize
              THEN jobs' = Append(jobs, Head(wire)) /\ UNCHANGED lost
              ELSE lost' = TRUE /\ UNCHANGED jobs
           /\ UNCHANGED <<repository, engine, pulls, projection, shown, steps, given, reused, behind>>

\* The applier takes one job at a time.
Invalidate == /\ jobs # <<>> /\ Head(jobs).kind = "invalidate" /\ pulls.applier.at = "idle"
              /\ jobs' = Tail(jobs) /\ projection' = Blank /\ behind' = TRUE
              /\ UNCHANGED <<repository, engine, wire, pulls, shown, steps, given, reused, lost>>
Apply == /\ jobs # <<>> /\ Head(jobs).kind = "push" /\ pulls.applier.at = "idle"
         /\ jobs' = Tail(jobs) /\ Pulls("applier", Take(Asking, Head(jobs).page))
         /\ UNCHANGED <<repository, engine, wire, projection, shown, steps, ghosts>>

\* replace_git_status, in one transaction. Of the two, one can put an older
\* status over a newer; and only the applier's is announced, once committed.
Commit(who) ==
  /\ pulls[who].at = "commit" /\ Pulls(who, NoPull)
  /\ projection' = [branch |-> pulls[who].branch, entries |-> pulls[who].got]
  /\ lost' = (lost \/ projection.branch > pulls[who].branch)
  /\ Announced(who) /\ Untold(who, TRUE)
  /\ UNCHANGED <<repository, engine, wire, jobs, steps, given, reused>>

\* The connection is lost and there again, with the engine there was or a new
\* one: requests on their way fail, and the tree is watched and asked for again. What
\* has been queued before is applied after.
Reconnect(ended, failed) ==
  /\ Step /\ wire' = <<>>
  /\ IF ended
     THEN /\ observed' = FALSE /\ attached' = FALSE /\ co' = Calm /\ held' = NoneHeld
          /\ pump' = [at |-> "idle", version |-> 0] /\ At("free") /\ invalidating' = FALSE
          /\ signal' = FALSE /\ events' = "none"
     ELSE /\ Nudge /\ UNCHANGED <<observed, attached, held, pump, dispatch, invalidating, signal, events>>
  /\ Free
  /\ pulls' = [asker |-> Asking,
               applier |-> IF failed /\ pulls.applier.at = "ask" THEN NoPull ELSE pulls.applier]
  /\ UNCHANGED projection
  /\ IF pulls'.applier # pulls.applier THEN Announced("applier") /\ Untold("applier", FALSE)
     ELSE UNCHANGED <<shown, behind>>
  /\ lost' = (lost \/ jobs # <<>> \/ pulls'.applier.at # "idle")
  /\ UNCHANGED <<repo, watched, jobs, given, reused>>
-----------------------------------------------------------------------------
\* A workspace that is opened asks for its status.
Init == /\ repo = 1 /\ signal = FALSE /\ events = "none" /\ watched = FALSE /\ attached = FALSE
        /\ invalidating = FALSE /\ observed = FALSE /\ co = Calm
        /\ pump = [at |-> "idle", version |-> 0] /\ held = NoneHeld
        /\ dispatch = [at |-> "free", version |-> 0] /\ wire = <<>> /\ jobs = <<>>
        /\ pulls = [applier |-> NoPull, asker |-> Asking] /\ projection = Blank
        /\ shown = Blank /\ steps = 0
        /\ given = 0 /\ reused = FALSE /\ lost = FALSE /\ behind = FALSE

Computing == Begin \/ PumpReads \/ PumpHolds \/ PumpPushes
Serving == \/ ServeObserve \/ ServeRead \/ ServeHold \/ ServePage \/ ServeWatched \/ ServeClosed
           \/ \E who \in {"applier", "asker"} : ServeCursor(who)
Applying == \/ Deliver \/ Invalidate \/ Apply \/ \E who \in {"applier", "asker"} : Commit(who)
           
System == SignalFires \/ WatchNudges \/ WatchInvalidates \/ Computing \/ Serving \/ Applying
World == \/ Change(TRUE, "none") \/ Change(FALSE, "batch") \/ \E index \in BOOLEAN : Change(index, "bulk")
         \/ Ask \/ ServeWatch \/ ServeClose \/ PumpFails \/ ServeFails
         \/ \E ended, failed \in BOOLEAN : Reconnect(ended, failed)
Next == System \/ World
Resting == /\ ~signal /\ events = "none" /\ ~invalidating /\ pump.at = "idle" /\ ~WillRead(co)
           /\ Free /\ wire = <<>> /\ jobs = <<>>
           /\ \A who \in DOMAIN pulls : pulls[who].at = "idle"
\* The threads run, and what is written arrives.
Spec == Init /\ [][Next]_vars /\ WF_vars(System)
-----------------------------------------------------------------------------
Whole(p) == p = Blank \/ (p.branch \in 1..repo /\ p = Snapshot(p.branch))
Covered == observed /\ attached /\ watched /\ ~lost

\* Types; the coalescer runs while the pump is at work, and generations are given out.
TypeOK ==
  /\ repo \in 1..MaxSteps + 1 /\ events \in {"none", "batch", "bulk"}
  /\ co \in [pending : BOOLEAN, running : BOOLEAN, dirty : BOOLEAN]
  /\ co.running => pump.at # "idle" /\ ~co.pending
  /\ pump.at \in {"idle", "read", "hold", "push"} /\ pump.version \in 0..repo
  /\ held.version \in 0..repo /\ held.generation \in 0..given
  /\ dispatch.at \in {"free", "read", "hold", "page", "watch", "close"}
  /\ Len(jobs) <= QueueSize
  /\ \A who \in DOMAIN pulls : Len(pulls[who].got) <= MaxPages

\* Once the engine has nothing left to do, what it holds is the repository as
\* it is: a change that comes while the status is being read is read again.
EngineKnows ==
  (Covered /\ Free /\ ~signal /\ events = "none" /\ pump.at = "idle" /\ ~WillRead(co)) =>
    held.version = repo

\* The client's store holds one snapshot, whole: pages of two are never put
\* together. Not so once a generation has been given out again. (And the state is as
\* TypeOK has it.)
OneSnapshot == TypeOK /\ (~reused => Whole(projection))

\* At rest the store holds the repository as it is; and the view shows the
\* store, unless the last commit was not announced.
SettledIsShown ==
  (Resting /\ Covered) => projection = Snapshot(repo) /\ (~behind => shown = projection)

\* When the repository is left alone, everything comes to rest: computing a
\* status is not itself a change that has one computed.
SettlesDown == <>[]Resting

\* What git-status.md says of the pages of one cursor chain, and the code does not keep.
OneSnapshotAlways == Whole(projection)
=============================================================================
