-------------------------- MODULE GitStatus_proofs --------------------------
(***************************************************************************)
(* Git status for any number of changes and faults: pages of two snapshots *)
(* are never put together, as long as no generation is given out twice; an *)
(* engine at rest holds the repository as it is; and once everything is at *)
(* rest the client's store has it, and the view shows the store.           *)
(***************************************************************************)
EXTENDS GitStatus, SequenceTheorems, TLAPS

(* What the engine keeps: numbers, the snapshot held, its two threads      *)

Numbers ==
  /\ repo \in Nat /\ repo >= 1 /\ given \in Nat
  /\ steps \in 0 .. MaxSteps /\ repo <= steps + 1

\* A thread that answers from the snapshot held has held one.
Threads ==
  /\ DOMAIN held = {"version", "generation"} /\ held = [f \in DOMAIN held |-> held[f]]
  /\ held.version \in 0 .. repo /\ held.generation \in 0 .. given
  /\ DOMAIN pump = {"at", "version"} /\ pump = [f \in DOMAIN pump |-> pump[f]]
  /\ pump.at \in {"idle", "read", "hold", "push"} /\ pump.version \in 0 .. repo
  /\ pump.at = "hold" => pump.version >= 1
  /\ DOMAIN dispatch = {"at", "version"} /\ dispatch = [f \in DOMAIN dispatch |-> dispatch[f]]
  /\ dispatch.at \in {"free", "read", "hold", "page", "watch", "close"}
  /\ dispatch.version \in 0 .. repo
  /\ dispatch.at = "hold" => dispatch.version >= 1
  /\ pump.at = "push" \/ dispatch.at = "page" => held.version >= 1 /\ held.generation >= 1

Coalescers == [pending : BOOLEAN, running : BOOLEAN, dirty : BOOLEAN]
Coalesced == co \in Coalescers /\ (co.running => pump.at # "idle" /\ ~co.pending)

EngineInv == Numbers /\ Threads /\ Coalesced /\ events \in {"none", "batch", "bulk"}

\* StatusCoalescer's operations, each on what the others leave.
LEMMA CoalescerIs ==
  ASSUME NEW c \in Coalescers
  PROVE  /\ Calm \in Coalescers /\ ~Calm.running
         /\ Notice(c) \in Coalescers /\ Notice(c).running = c.running
         /\ c.running => Notice(c).pending = c.pending
         /\ Begun(c) \in Coalescers /\ ~Begun(c).pending
         /\ Finish(c) \in Coalescers /\ ~Finish(c).running
BY DEF Coalescers, Calm, Notice, Begun, Finish

\* What is noticed leaves a run as it is.
LEMMA NoticeKeeps ==
  ASSUME Coalesced, UNCHANGED pump, co' \in {co, Notice(co), Calm}
  PROVE  Coalesced'
<1>1. co \in Coalescers
  BY DEF Coalesced
<1> QED
  BY <1>1, CoalescerIs DEF Coalesced

\* A snapshot is held above the generation of the last.
LEMMA HoldIs ==
  ASSUME Numbers, Threads, NEW v \in 1 .. repo, Hold(v), UNCHANGED <<repo, steps>>
  PROVE  /\ Numbers' /\ held' = [version |-> v, generation |-> held.generation + 1]
         /\ held'.version = v /\ held'.generation = held.generation + 1
         /\ held'.generation \in 1 .. given' /\ given <= given'
         /\ ~reused' => ~reused /\ held'.generation > given
<1>1. /\ held' = [version |-> v, generation |-> held.generation + 1]
      /\ held'.version = v /\ held'.generation = held.generation + 1
      /\ held'.generation \in Nat /\ held'.generation >= 1 /\ given \in Nat
  BY DEF Numbers, Threads, Hold
<1>2. given' = IF held'.generation > given THEN held'.generation ELSE given
  BY DEF Hold
<1>3. given' \in Nat /\ held'.generation \in 1 .. given' /\ given <= given'
  BY <1>1, <1>2
<1>4. reused' = (reused \/ held'.generation <= given)
  BY DEF Hold
<1>5. ~reused' => ~reused /\ ~(held'.generation <= given)
  BY <1>4
<1>6. ~(held'.generation <= given) => held'.generation > given
  BY <1>1
<1>7. Numbers'
  BY <1>3 DEF Numbers
<1> QED
  BY <1>1, <1>3, <1>5, <1>6, <1>7

\* What the engine keeps, by cases of the next step.
LEMMA EngineHolds == Spec => []EngineInv
<1>1. Init => EngineInv
  <2> SUFFICES ASSUME Init PROVE EngineInv
    OBVIOUS
  <2>1. Numbers
    BY GitAssumption DEF Init, Numbers
  <2>2. Threads
    BY DEF Init, Threads, NoneHeld
  <2>3. Coalesced
    BY DEF Init, Coalesced, Coalescers, Calm
  <2> QED
    BY <2>1, <2>2, <2>3 DEF Init, EngineInv
<1>2. ASSUME EngineInv, NEW index, NEW told \in {"none", "batch", "bulk"}, Change(index, told)
      PROVE  EngineInv'
  <2> USE <1>2 DEF EngineInv
  <2>1. Numbers'
    BY GitAssumption DEF Change, Step, Numbers, ghosts
  <2>2. Threads'
    BY DEF Change, Numbers, Threads, engine, ghosts
  <2>3. Coalesced'
    BY NoticeKeeps DEF Change, engine
  <2> QED
    BY <2>1, <2>2, <2>3 DEF Change
<1>3. ASSUME EngineInv, SignalFires \/ WatchNudges \/ WatchInvalidates PROVE EngineInv'
  <2> USE <1>3 DEF EngineInv
  <2>1. UNCHANGED <<repo, given, steps, held, pump, dispatch>>
    BY DEF SignalFires, WatchNudges, WatchInvalidates, repository, engine, ghosts
  <2>2. Numbers' /\ Threads'
    BY <2>1 DEF Numbers, Threads
  <2>3. co' \in {co, Notice(co)} /\ events' \in {events, "none"}
    BY DEF SignalFires, WatchNudges, WatchInvalidates, Nudge, repository, engine
  <2>4. Coalesced'
    BY <2>1, <2>3, NoticeKeeps
  <2> QED
    BY <2>2, <2>3, <2>4
<1>4. ASSUME EngineInv, Begin \/ PumpReads PROVE EngineInv'
  <2> USE <1>4 DEF EngineInv
  <2>1. UNCHANGED <<repo, given, steps, held, dispatch, events>>
    BY DEF Begin, PumpReads, repository, ghosts
  <2>2. Threads'
    BY <2>1 DEF Begin, PumpReads, Numbers, Threads
  <2>3. Coalesced'
    <3>1. co \in Coalescers
      BY DEF Coalesced
    <3> QED
      BY <3>1, CoalescerIs DEF Coalesced, Begin, PumpReads, Threads
  <2> QED
    BY <2>1, <2>2, <2>3 DEF Numbers
<1>5. ASSUME EngineInv, PumpFails PROVE EngineInv'
  <2> USE <1>5 DEF EngineInv
  <2>1. UNCHANGED <<repo, given, held, dispatch, events>>
    BY DEF PumpFails, repository
  <2>2. Numbers'
    BY <2>1, GitAssumption DEF PumpFails, Step, Numbers
  <2>3. Threads'
    BY <2>1 DEF PumpFails, Threads
  <2>4. Coalesced'
    BY CoalescerIs DEF Coalesced, PumpFails
  <2> QED
    BY <2>1, <2>2, <2>3, <2>4
<1>6. ASSUME EngineInv, PumpHolds PROVE EngineInv'
  <2> USE <1>6 DEF EngineInv
  <2>1. /\ pump.at = "hold" /\ Hold(pump.version) /\ pump' = [pump EXCEPT !.at = "push"]
        /\ UNCHANGED <<repo, steps, dispatch, events, co>>
    BY DEF PumpHolds, repository
  <2>2. pump.version \in 1 .. repo
    BY <2>1 DEF Threads, Numbers
  <2>3. /\ Numbers' /\ held' = [version |-> pump.version, generation |-> held.generation + 1]
        /\ held'.version = pump.version /\ held'.generation \in 1 .. given'
    BY <2>1, <2>2, HoldIs
  <2>4. Threads'
    BY <2>1, <2>2, <2>3 DEF Threads, Numbers
  <2>5. Coalesced'
    BY <2>1 DEF Coalesced, Threads
  <2> QED
    BY <2>1, <2>3, <2>4, <2>5
<1>7. ASSUME EngineInv, PumpPushes PROVE EngineInv'
  <2> USE <1>7 DEF EngineInv
  <2>1. UNCHANGED <<repo, given, steps, held, dispatch, events>>
    BY DEF PumpPushes, repository, ghosts
  <2>2. Threads'
    BY <2>1 DEF PumpPushes, Numbers, Threads
  <2>3. Coalesced'
    BY CoalescerIs DEF Coalesced, PumpPushes
  <2> QED
    BY <2>1, <2>2, <2>3 DEF Numbers
<1>8. ASSUME EngineInv, Ask \/ Deliver \/ Invalidate \/ Apply
                        \/ \E who \in {"applier", "asker"} : Commit(who) \/ ServeCursor(who)
      PROVE  EngineInv'
  <2> USE <1>8 DEF EngineInv
  <2>1. /\ UNCHANGED <<repo, given, held, dispatch, pump, co, events>>
        /\ steps' = steps \/ Step
    BY DEF Ask, Deliver, Invalidate, Apply, Commit, ServeCursor, repository, engine, ghosts
  <2>2. Numbers'
    BY <2>1, GitAssumption DEF Numbers, Step
  <2> QED
    BY <2>1, <2>2 DEF Threads, Coalesced
<1>9. ASSUME EngineInv, ServeObserve \/ ServeRead \/ ServeFails \/ ServePage \/ ServeWatch
                        \/ ServeWatched
      PROVE  EngineInv'
  <2> USE <1>9 DEF EngineInv
  <2>1. /\ UNCHANGED <<repo, given, held, pump, events>> /\ co' \in {co, Notice(co), Calm}
        /\ steps' = steps \/ Step
    BY DEF ServeObserve, Observe, ServeRead, ServeFails, ServePage, ServeWatch, ServeWatched, Nudge,
           repository, engine, ghosts
  <2>2. Numbers'
    BY <2>1, GitAssumption DEF Numbers, Step
  <2>3. \/ \E at \in {"read", "free", "watch"} : dispatch' = [at |-> at, version |-> 0]
        \/ dispatch' = [at |-> "hold", version |-> repo]
    BY DEF ServeObserve, ServeRead, ServeFails, ServePage, ServeWatch, ServeWatched, At
  <2>4. Threads'
    BY <2>1, <2>3 DEF Threads, Numbers
  <2>5. Coalesced'
    BY <2>1, NoticeKeeps
  <2> QED
    BY <2>1, <2>2, <2>4, <2>5
<1>10. ASSUME EngineInv, ServeHold PROVE EngineInv'
  <2> USE <1>10 DEF EngineInv
  <2>1. /\ dispatch.at = "hold" /\ Hold(dispatch.version)
        /\ dispatch' = [at |-> "page", version |-> 0]
        /\ UNCHANGED <<repo, steps, pump, events, co>>
    BY DEF ServeHold, At, repository
  <2>2. dispatch.version \in 1 .. repo
    BY <2>1 DEF Threads, Numbers
  <2>3. /\ Numbers' /\ held' = [version |-> dispatch.version, generation |-> held.generation + 1]
        /\ held'.version = dispatch.version /\ held'.generation \in 1 .. given'
    BY <2>1, <2>2, HoldIs
  <2>4. Threads'
    BY <2>1, <2>2, <2>3 DEF Threads, Numbers
  <2> QED
    BY <2>1, <2>3, <2>4 DEF Coalesced
<1>11. ASSUME EngineInv, ServeClose PROVE EngineInv'
  <2> USE <1>11 DEF EngineInv
  <2>1. /\ UNCHANGED <<repo, given, held, pump, co>> /\ events' = "none" /\ Step
        /\ dispatch' = [at |-> "close", version |-> 0]
    BY DEF ServeClose, At, ghosts
  <2>2. Numbers'
    BY <2>1, GitAssumption DEF Numbers, Step
  <2>3. Threads'
    BY <2>1 DEF Threads, Numbers
  <2> QED
    BY <2>1, <2>2, <2>3 DEF Coalesced
<1>12. ASSUME EngineInv, ServeClosed PROVE EngineInv'
  <2> USE <1>12 DEF EngineInv
  <2>1. /\ UNCHANGED <<repo, given, steps, pump, events>> /\ held' = NoneHeld /\ pump.at = "idle"
        /\ dispatch' = [at |-> "free", version |-> 0] /\ co' = Calm
    BY DEF ServeClosed, PumpJoined, At, ghosts
  <2>2. Threads'
    BY <2>1 DEF Threads, Numbers, NoneHeld
  <2>3. Coalesced'
    BY <2>1, NoticeKeeps
  <2> QED
    BY <2>1, <2>2, <2>3 DEF Numbers
<1>13. ASSUME EngineInv, NEW ended, NEW failed, Reconnect(ended, failed) PROVE EngineInv'
  <2> USE <1>13 DEF EngineInv
  <2>1. UNCHANGED <<repo, given>> /\ Step /\ events' \in {events, "none"}
    BY DEF Reconnect
  <2>2. Numbers'
    BY <2>1, GitAssumption DEF Numbers, Step
  <2>3. CASE /\ co' = Calm /\ held' = NoneHeld /\ pump' = [at |-> "idle", version |-> 0]
             /\ dispatch' = [at |-> "free", version |-> 0]
    <3>1. Threads'
      BY <2>1, <2>3 DEF Threads, Numbers, NoneHeld
    <3>2. Coalesced'
      BY <2>3 DEF Coalesced, Coalescers, Calm
    <3> QED
      BY <2>1, <2>2, <3>1, <3>2
  <2>4. CASE Nudge /\ UNCHANGED <<held, pump, dispatch>>
    <3>1. Threads'
      BY <2>1, <2>4 DEF Threads
    <3>2. Coalesced'
      BY <2>4, NoticeKeeps DEF Nudge
    <3> QED
      BY <2>1, <2>2, <3>1, <3>2
  <2> QED
    BY <2>3, <2>4 DEF Reconnect, At
<1>14. EngineInv /\ UNCHANGED vars => EngineInv'
  BY DEF EngineInv, Numbers, Threads, Coalesced, vars, repository, engine, ghosts
<1>15. EngineInv /\ [Next]_vars => EngineInv'
  BY <1>2, <1>3, <1>4, <1>5, <1>6, <1>7, <1>8, <1>9, <1>10, <1>11, <1>12, <1>13, <1>14
     DEF Next, System, World, Computing, Serving, Applying
<1> QED
  BY <1>1, <1>15, PTL DEF Spec
-----------------------------------------------------------------------------
(* What is on its way, what is pulled, and what the client's store holds     *)

Pages == [branch : Nat, entry : Nat, generation : Nat, next : Nat]
Notices == [kind : {"invalidate"}] \cup [kind : {"push"}, page : Pages]
Cursors == [generation : Nat, version : Nat]

IsPull(p) ==
  /\ DOMAIN p = {"at", "branch", "got", "cursor"} /\ p = [f \in DOMAIN p |-> p[f]]
  /\ p.cursor \in Cursors /\ p.branch \in Nat
  /\ p.got \in Seq(Nat) /\ Len(p.got) <= MaxPages
  /\ p.at = "ask" => Len(p.got) < MaxPages

Messages ==
  /\ wire \in Seq(Notices) /\ jobs \in Seq(Notices) /\ Len(jobs) <= QueueSize
  /\ DOMAIN pulls = {"applier", "asker"} /\ pulls = [who \in DOMAIN pulls |-> pulls[who]]
  /\ \A who \in {"applier", "asker"} : IsPull(pulls[who])

\* A generation given out is the held snapshot's, or of one that is gone for good.
Genuine(g, v) ==
  g \in 1 .. given /\ v \in 1 .. repo /\ (g = held.generation => v = held.version)

Entries(v) == Snapshot(v).entries
FirstPage(q) ==
  /\ Genuine(q.generation, q.branch) /\ q.entry = q.branch
  /\ q.next = IF Size(q.branch) = 2 THEN 1 ELSE 0

OfOne(p) ==
  /\ p.at = "ask" /\ p # Asking =>
       /\ Genuine(p.cursor.generation, p.branch)
       /\ Size(p.branch) = 2 /\ p.got = <<p.branch>> /\ p.cursor.version = 1
  /\ p.at = "commit" => p.branch \in 1 .. repo /\ p.got = Entries(p.branch)

\* Everything under way is of one snapshot each.
Snapshots ==
  /\ \A i \in DOMAIN wire : wire[i].kind = "push" => FirstPage(wire[i].page)
  /\ \A i \in DOMAIN jobs : jobs[i].kind = "push" => FirstPage(jobs[i].page)
  /\ \A who \in {"applier", "asker"} : OfOne(pulls[who])
  /\ Whole(projection)

ClientInv == Messages /\ (~reused => Snapshots)

\* A snapshot has one page or two.
LEMMA SizeIs ==
  ASSUME NEW v \in Nat
  PROVE  /\ Size(v) \in {1, 2}
         /\ Size(v) = 1 => Entries(v) = <<v>>
         /\ Size(v) = 2 => Entries(v) = <<v, v>>
BY DEF Size, Entries, Snapshot

\* The first page of what is held; any page has the form of one.
LEMMA PageIs ==
  ASSUME EngineInv, NEW n \in Nat
  PROVE  /\ PageFrom(n) \in Pages
         /\ PageFrom(n).branch = held.version /\ PageFrom(n).entry = held.version
         /\ PageFrom(n).generation = held.generation
         /\ PageFrom(n).next = IF n + 1 < Size(held.version) THEN n + 1 ELSE 0
         /\ held.version >= 1 /\ held.generation >= 1 => FirstPage(PageFrom(0))
<1>1. held.version \in Nat /\ held.generation \in Nat
      /\ held.version <= repo /\ held.generation <= given
      /\ repo \in Nat /\ given \in Nat
  BY DEF EngineInv, Numbers, Threads
<1>2. Size(held.version) \in {1, 2}
  BY <1>1, SizeIs
<1> USE <1>1, <1>2
<1>3. \A k \in Nat :
        /\ PageFrom(k).branch = held.version /\ PageFrom(k).entry = held.version
        /\ PageFrom(k).generation = held.generation
        /\ PageFrom(k).next = IF k + 1 < Size(held.version) THEN k + 1 ELSE 0
  BY DEF PageFrom
<1>4. PageFrom(n) \in Pages
  BY DEF PageFrom, Pages
<1>5. held.version >= 1 /\ held.generation >= 1 => FirstPage(PageFrom(0))
  BY <1>3 DEF FirstPage, Genuine
<1> QED
  BY <1>3, <1>4, <1>5

\* Nobody pulls, or has just begun to.
LEMMA PullsRest == IsPull(NoPull) /\ OfOne(NoPull) /\ IsPull(Asking) /\ OfOne(Asking)
<1>1. /\ DOMAIN NoPull = {"at", "branch", "got", "cursor"} /\ NoPull = [f \in DOMAIN NoPull |-> NoPull[f]]
      /\ NoPull.at = "idle" /\ NoPull.branch = 0 /\ NoPull.got = <<>> /\ NoPull.cursor = NoneHeld
  BY DEF NoPull
<1>2. /\ DOMAIN Asking = {"at", "branch", "got", "cursor"} /\ Asking = [f \in DOMAIN Asking |-> Asking[f]]
      /\ Asking.at = "ask" /\ Asking.branch = 0 /\ Asking.got = <<>> /\ Asking.cursor = NoneHeld
  BY <1>1 DEF Asking
<1>3. NoneHeld \in Cursors /\ <<>> \in Seq(Nat) /\ Len(<<>>) = 0
  BY DEF NoneHeld, Cursors
<1>4. IsPull(NoPull) /\ IsPull(Asking)
  BY <1>1, <1>2, <1>3, GitAssumption DEF IsPull
<1> QED
  BY <1>1, <1>2, <1>4 DEF OfOne

\* A page taken makes the pull go on, end, or give up.
LEMMA TakeIs ==
  ASSUME NEW p, IsPull(p), p.at = "ask", NEW q \in Pages, NEW r, r = Take(p, q)
  PROVE  /\ IsPull(r)
         /\ \/ r = NoPull /\ q.next # 0 /\ Len(p.got) + 1 >= MaxPages
            \/ /\ r.at = IF q.next = 0 THEN "commit" ELSE "ask"
               /\ r.branch = IF p.got = <<>> THEN q.branch ELSE p.branch
               /\ r.got = Append(p.got, q.entry) /\ r # Asking
               /\ r.cursor.generation = q.generation /\ r.cursor.version = q.next
<1>1. CASE q.next # 0 /\ Len(p.got) + 1 >= MaxPages
  BY <1>1, PullsRest DEF Take
<1>2. CASE ~(q.next # 0 /\ Len(p.got) + 1 >= MaxPages)
  <2> DEFINE b == IF p.got = <<>> THEN q.branch ELSE p.branch
             at == IF q.next = 0 THEN "commit" ELSE "ask"
             got == Append(p.got, q.entry)
             cursor == [generation |-> q.generation, version |-> q.next]
  <2>1. r = [at |-> at, branch |-> b, got |-> got, cursor |-> cursor]
    BY <1>2 DEF Take
  <2>2. /\ b \in Nat /\ got \in Seq(Nat) /\ Len(got) = Len(p.got) + 1 /\ got # <<>>
        /\ cursor \in Cursors /\ cursor.generation = q.generation /\ cursor.version = q.next
    <3>1. /\ q.branch \in Nat /\ q.entry \in Nat /\ q.generation \in Nat /\ q.next \in Nat
          /\ p.branch \in Nat /\ p.got \in Seq(Nat)
      BY DEF Pages, IsPull
    <3>2. got \in Seq(Nat) /\ Len(got) = Len(p.got) + 1 /\ got # <<>>
      BY <3>1
    <3>3. cursor \in Cursors /\ cursor.generation = q.generation /\ cursor.version = q.next
      BY <3>1 DEF Cursors
    <3> QED
      BY <3>1, <3>2, <3>3
  <2>3. Len(got) <= MaxPages /\ (at = "ask" => Len(got) < MaxPages)
    BY <1>2, <2>2, GitAssumption DEF IsPull
  <2> HIDE DEF b, got, cursor, at
  <2>4. /\ DOMAIN r = {"at", "branch", "got", "cursor"} /\ r = [f \in DOMAIN r |-> r[f]]
        /\ r.at = at /\ r.branch = b /\ r.got = got /\ r.cursor = cursor
    BY <2>1
  <2>5. IsPull(r)
    BY <2>2, <2>3, <2>4 DEF IsPull
  <2>6. r # Asking
    BY <2>2, <2>4 DEF Asking, NoPull
  <2> QED
    BY <2>2, <2>4, <2>5, <2>6 DEF b, got, at
<1> QED
  BY <1>1, <1>2

\* The first page starts a pull of its snapshot.
LEMMA TakesFirst ==
  ASSUME NEW q \in Pages, FirstPage(q)
  PROVE  OfOne(Take(Asking, q))
<1> DEFINE r == Take(Asking, q)
<1>1. Asking.at = "ask" /\ Asking.got = <<>> /\ IsPull(Asking)
  BY PullsRest DEF Asking, NoPull
<1>2. \/ r = NoPull
      \/ /\ r.at = IF q.next = 0 THEN "commit" ELSE "ask"
         /\ r.branch = q.branch /\ r.got = <<q.entry>>
         /\ r.cursor.generation = q.generation /\ r.cursor.version = q.next
  BY <1>1, TakeIs
<1>3. q.branch \in Nat
  BY DEF Pages
<1> HIDE DEF r
<1>4. OfOne(r)
  BY <1>2, <1>3, PullsRest, SizeIs DEF OfOne, FirstPage, Genuine
<1> QED
  BY <1>4 DEF r

\* A cursor that fits gets the other page of the same snapshot.
LEMMA TakesNext ==
  ASSUME EngineInv, NEW p, IsPull(p), OfOne(p), p.at = "ask", p # Asking, Known(p.cursor)
  PROVE  OfOne(Take(p, PageFrom(p.cursor.version)))
<1> DEFINE q == PageFrom(p.cursor.version)
           r == Take(p, q)
<1>1. /\ p.branch = held.version /\ p.branch \in 1 .. repo /\ Size(p.branch) = 2
      /\ p.got = <<p.branch>> /\ p.cursor.version = 1
  BY DEF OfOne, Genuine, Known
<1>2. q \in Pages /\ q.entry = p.branch /\ q.next = 0
  BY <1>1, PageIs
<1> HIDE DEF q
<1>3. \/ r = NoPull
      \/ r.at = "commit" /\ r.branch = p.branch /\ r.got = <<p.branch, p.branch>>
  <2>1. \/ r = NoPull
        \/ /\ r.at = "commit" /\ r.branch = p.branch /\ r.got = Append(p.got, p.branch)
    BY <1>1, <1>2, TakeIs
  <2> QED
    BY <1>1, <2>1
<1>4. repo \in Nat /\ p.branch \in Nat
  BY <1>1 DEF EngineInv, Numbers
<1> HIDE DEF r
<1>5. OfOne(r)
  BY <1>1, <1>3, <1>4, PullsRest, SizeIs DEF OfOne
<1> QED
  BY <1>5 DEF r, q

\* The snapshot held is forgotten, or replaced under a generation nothing has.
Onward ==
  /\ ~reused' => ~reused
  /\ repo <= repo' /\ given <= given'
  /\ ~reused' => \/ held' = held \/ held'.generation = 0 \/ held'.generation > given

\* By cases of the next step: two put a snapshot, two forget it.
LEMMA StepsAreOnward ==
  ASSUME EngineInv, [Next]_vars
  PROVE  Onward
<1> USE DEF EngineInv
<1>1. repo \in Nat /\ given \in Nat
  BY DEF Numbers
<1>2. CASE UNCHANGED <<repo, given, reused, held>>
  BY <1>1, <1>2 DEF Onward
<1>3. CASE \/ SignalFires \/ WatchNudges \/ WatchInvalidates \/ Begin \/ PumpReads \/ PumpFails
           \/ PumpPushes \/ Ask \/ ServeObserve \/ ServeRead \/ ServeFails \/ ServePage
           \/ \E who \in {"applier", "asker"} : ServeCursor(who) \/ Commit(who)
           \/ ServeWatch \/ ServeWatched \/ ServeClose \/ Deliver \/ Invalidate \/ Apply
  <2>1. UNCHANGED <<repo, given, reused, held>>
    BY <1>3 DEF SignalFires, WatchNudges, WatchInvalidates, Begin, PumpReads, PumpFails,
                PumpPushes, Ask, ServeObserve, ServeRead, ServeFails, ServePage, ServeCursor,
                ServeWatch, ServeWatched, ServeClose, Deliver, Invalidate, Apply, Commit,
                repository, engine, ghosts
  <2> QED
    BY <1>2, <2>1
<1>4. CASE PumpHolds \/ ServeHold
  <2>1. PICK v \in 1 .. repo : Hold(v) /\ UNCHANGED <<repo, steps>>
    <3>1. CASE PumpHolds
      BY <3>1 DEF PumpHolds, Threads, Numbers, repository
    <3>2. CASE ServeHold
      BY <3>2 DEF ServeHold, Threads, Numbers, repository
    <3> QED
      BY <1>4, <3>1, <3>2
  <2>2. given <= given' /\ (~reused' => ~reused /\ held'.generation > given)
    BY <2>1, HoldIs
  <2> QED
    BY <1>1, <2>1, <2>2 DEF Onward
<1>5. CASE ServeClosed
  BY <1>1, <1>5 DEF ServeClosed, NoneHeld, Onward, ghosts
<1>6. CASE \E ended, failed \in BOOLEAN : Reconnect(ended, failed)
  <2>1. UNCHANGED <<repo, given, reused>> /\ (held' = held \/ held' = NoneHeld)
    BY <1>6 DEF Reconnect
  <2> QED
    BY <1>1, <2>1 DEF NoneHeld, Onward
<1>7. CASE \E index \in BOOLEAN, told \in {"none", "batch", "bulk"} : Change(index, told)
  BY <1>1, <1>7 DEF Change, Onward, engine
<1> QED
  BY <1>2, <1>3, <1>4, <1>5, <1>6, <1>7
     DEF Next, System, World, Computing, Serving, Applying, vars, repository, engine, ghosts

\* What was of one snapshot stays so.
LEMMA StaysOfOne ==
  ASSUME EngineInv, EngineInv', Onward, ~reused'
  PROVE  /\ \A q : FirstPage(q) => FirstPage(q)'
         /\ \A p : OfOne(p) => OfOne(p)'
         /\ \A p : Whole(p) => Whole(p)'
<1>1. repo \in Nat /\ given \in Nat /\ repo' \in Nat /\ given' \in Nat
  BY DEF EngineInv, Numbers
<1>2. ASSUME NEW g, NEW v, Genuine(g, v) PROVE Genuine(g, v)'
  BY <1>1, <1>2 DEF Genuine, Onward
<1>3. ASSUME NEW q, FirstPage(q) PROVE FirstPage(q)'
  BY <1>2, <1>3 DEF FirstPage
<1>4. ASSUME NEW p, OfOne(p) PROVE OfOne(p)'
  BY <1>1, <1>2, <1>4 DEF OfOne, Onward
<1>5. ASSUME NEW p, Whole(p) PROVE Whole(p)'
  BY <1>1, <1>5 DEF Whole, Onward
<1> QED
  BY <1>3, <1>4, <1>5

\* One of the two pulls goes on.
LEMMA OnePull ==
  ASSUME Messages, NEW who \in {"applier", "asker"}, NEW p, IsPull(p), Pulls(who, p),
         UNCHANGED <<wire, jobs>>
  PROVE  Messages' /\ pulls'[who] = p /\ \A w \in {"applier", "asker"} \ {who} : pulls'[w] = pulls[w]
BY DEF Messages, Pulls

\* The pulls and the queues as they were, or less of them.
LEMMA SnapshotsStay ==
  ASSUME EngineInv, EngineInv', Onward, ~reused', Snapshots, UNCHANGED <<wire, jobs>>,
         \A who \in {"applier", "asker"} : pulls'[who] = pulls[who] \/ OfOne(pulls'[who]),
         UNCHANGED projection \/ Whole(projection')
  PROVE  Snapshots'
<1>1. \A who \in {"applier", "asker"} : OfOne(pulls'[who])
  BY DEF Snapshots
<1>2. \A who \in {"applier", "asker"} : OfOne(pulls[who])'
  BY <1>1, StaysOfOne
<1>3. Whole(projection')
  BY DEF Snapshots
<1>4. Whole(projection)'
  BY <1>3, StaysOfOne
<1>5. \A i \in DOMAIN wire : wire[i].kind = "push" => FirstPage(wire[i].page)
  BY DEF Snapshots
<1> QED
  BY <1>2, <1>4, StaysOfOne DEF Snapshots

\* Nothing on its way, pulled or stored changes; what holds the snapshot may.
LEMMA OnlyTheEngine ==
  ASSUME EngineInv, EngineInv', Onward, ClientInv, UNCHANGED <<wire, jobs, pulls, projection>>
  PROVE  ClientInv'
<1>1. Messages'
  BY DEF ClientInv, Messages
<1>2. ASSUME ~reused' PROVE Snapshots'
  BY <1>2, SnapshotsStay DEF ClientInv, Onward
<1> QED
  BY <1>1, <1>2 DEF ClientInv

\* One pull goes on, of one snapshot.
LEMMA PullGoesOn ==
  ASSUME EngineInv, EngineInv', Onward, ClientInv, NEW who \in {"applier", "asker"}, NEW p,
         IsPull(p), ~reused' => OfOne(p), Pulls(who, p), UNCHANGED <<wire, jobs>>,
         UNCHANGED projection \/ (~reused' => Whole(projection'))
  PROVE  ClientInv'
<1>1. /\ Messages' /\ pulls'[who] = p
      /\ \A w \in {"applier", "asker"} \ {who} : pulls'[w] = pulls[w]
  BY OnePull DEF ClientInv
<1>2. ASSUME ~reused' PROVE Snapshots'
  BY <1>1, <1>2, SnapshotsStay DEF ClientInv, Onward
<1> QED
  BY <1>1, <1>2 DEF ClientInv

\* The invariant of what is under way, by cases of the next step.
LEMMA ClientHolds == Spec => [](EngineInv /\ ClientInv)
<1>1. Init => ClientInv
  <2> SUFFICES ASSUME Init PROVE ClientInv
    OBVIOUS
  <2>1. /\ wire = <<>> /\ jobs = <<>> /\ pulls = [applier |-> NoPull, asker |-> Asking]
        /\ projection = Blank
    BY DEF Init
  <2>2. Messages
    BY <2>1, PullsRest, GitAssumption DEF Messages
  <2>3. Snapshots
    BY <2>1, PullsRest DEF Snapshots, Whole
  <2> QED
    BY <2>2, <2>3 DEF ClientInv
<1>2. ASSUME EngineInv, EngineInv', Onward, ClientInv,
             \/ \E index \in BOOLEAN, told \in {"none", "batch", "bulk"} : Change(index, told)
             \/ SignalFires \/ WatchNudges \/ Begin \/ PumpReads \/ PumpFails \/ PumpHolds
             \/ ServeObserve \/ ServeRead \/ ServeHold \/ ServeWatch \/ ServeWatched
             \/ ServeClose \/ ServeClosed
      PROVE  ClientInv'
  <2>1. UNCHANGED <<wire, jobs, pulls, projection>>
    BY <1>2 DEF Change, SignalFires, WatchNudges, Begin, PumpReads, PumpFails, PumpHolds,
                ServeObserve, ServeRead, ServeHold, ServeWatch, ServeWatched, ServeClose,
                ServeClosed, client
  <2> QED
    BY <1>2, <2>1, OnlyTheEngine
<1>3. ASSUME EngineInv, EngineInv', Onward, ClientInv, NEW n \in Notices,
             n.kind = "push" /\ ~reused' => FirstPage(n.page), wire' = Append(wire, n),
             UNCHANGED <<jobs, pulls, projection>>
      PROVE  ClientInv'
  <2>1. Messages'
    BY <1>3 DEF ClientInv, Messages
  <2>2. ASSUME ~reused' PROVE Snapshots'
    <3>1. /\ \A who \in {"applier", "asker"} : OfOne(pulls'[who])
          /\ Whole(projection')
          /\ \A i \in DOMAIN jobs' : jobs'[i].kind = "push" => FirstPage(jobs'[i].page)
      BY <1>3, <2>2 DEF ClientInv, Onward, Snapshots
    <3>2. \A i \in DOMAIN wire' : wire'[i].kind = "push" => FirstPage(wire'[i].page)
      BY <1>3, <2>2 DEF ClientInv, Onward, Snapshots, Messages
    <3> QED
      BY <1>3, <2>2, <3>1, <3>2, StaysOfOne DEF Snapshots
  <2> QED
    BY <2>1, <2>2 DEF ClientInv
<1>4. ASSUME EngineInv, EngineInv', Onward, ClientInv, WatchInvalidates PROVE ClientInv'
  <2>1. [kind |-> "invalidate"] \in Notices
    BY DEF Notices
  <2> QED
    BY <1>3, <1>4, <2>1 DEF WatchInvalidates, client
<1>5. ASSUME EngineInv, EngineInv', Onward, ClientInv, PumpPushes PROVE ClientInv'
  <2> DEFINE q == PageFrom(0)
  <2>1. held.version >= 1 /\ held.generation >= 1
    BY <1>5 DEF EngineInv, Threads, PumpPushes
  <2>2. q \in Pages /\ FirstPage(q)
    BY <1>5, <2>1, PageIs
  <2>3. wire' = Append(wire, [kind |-> "push", page |-> q]) /\ UNCHANGED <<jobs, pulls, projection>>
    BY <1>5 DEF PumpPushes, client
  <2> HIDE DEF q
  <2> QED
    BY <1>3, <1>5, <2>2, <2>3 DEF Notices
<1>6. ASSUME EngineInv, EngineInv', Onward, ClientInv, Ask \/ ServeFails PROVE ClientInv'
  BY <1>6, PullGoesOn, PullsRest DEF Ask, ServeFails
<1>7. ASSUME EngineInv, EngineInv', Onward, ClientInv, ServePage PROVE ClientInv'
  <2> DEFINE p == IF First(pulls.asker) THEN Take(Asking, PageFrom(0)) ELSE pulls.asker
  <2>1. held.version >= 1 /\ held.generation >= 1
    BY <1>7 DEF EngineInv, Threads, ServePage
  <2>2. PageFrom(0) \in Pages /\ FirstPage(PageFrom(0))
    BY <1>7, <2>1, PageIs
  <2>3. IsPull(Take(Asking, PageFrom(0))) /\ OfOne(Take(Asking, PageFrom(0)))
    BY <2>2, TakesFirst, TakeIs, PullsRest DEF Asking, NoPull
  <2>4. IsPull(p) /\ (~reused' => OfOne(p))
    BY <1>7, <2>3 DEF ClientInv, Onward, Messages, Snapshots
  <2>5. Pulls("asker", p) /\ UNCHANGED <<wire, jobs, projection>>
    BY <1>7 DEF ServePage
  <2> HIDE DEF p
  <2> QED
    BY <1>7, <2>4, <2>5, PullGoesOn
<1>8. ASSUME EngineInv, EngineInv', Onward, ClientInv, NEW who \in {"applier", "asker"},
             ServeCursor(who)
      PROVE  ClientInv'
  <2> DEFINE p == IF Known(pulls[who].cursor)
                  THEN Take(pulls[who], PageFrom(pulls[who].cursor.version)) ELSE NoPull
  <2>1. pulls[who].at = "ask" /\ pulls[who] # Asking /\ IsPull(pulls[who])
    BY <1>8 DEF ServeCursor, First, ClientInv, Messages
  <2>2. pulls[who].cursor.version \in Nat
    BY <2>1 DEF IsPull, Cursors
  <2>3. IsPull(p)
    BY <1>8, <2>1, <2>2, PageIs, TakeIs, PullsRest
  <2>4. ~reused' => OfOne(p)
    BY <1>8, <2>1, TakesNext, PullsRest DEF ClientInv, Onward, Snapshots
  <2>5. Pulls(who, p) /\ UNCHANGED <<wire, jobs, projection>>
    BY <1>8 DEF ServeCursor
  <2> HIDE DEF p
  <2> QED
    BY <1>8, <2>3, <2>4, <2>5, PullGoesOn
<1>9. ASSUME EngineInv, EngineInv', Onward, ClientInv, Deliver PROVE ClientInv'
  <2>1. wire # <<>> /\ wire' = Tail(wire) /\ UNCHANGED <<pulls, projection>>
    BY <1>9 DEF Deliver
  <2>2. jobs' = jobs \/ (Len(jobs) < QueueSize /\ jobs' = Append(jobs, Head(wire)))
    BY <1>9 DEF Deliver
  <2>3. wire \in Seq(Notices) /\ jobs \in Seq(Notices) /\ Head(wire) \in Notices
    BY <1>9, <2>1 DEF ClientInv, Messages
  <2>4. Messages'
    <3>1. wire' \in Seq(Notices)
      BY <2>1, <2>3
    <3>2. jobs' \in Seq(Notices) /\ Len(jobs') <= QueueSize
      <4>1. Append(jobs, Head(wire)) \in Seq(Notices) /\ Len(Append(jobs, Head(wire))) = Len(jobs) + 1
        BY <2>3
      <4>2. Len(jobs) <= QueueSize /\ Len(jobs) \in Nat
        BY <1>9, <2>3 DEF ClientInv, Messages
      <4> QED
        BY <2>2, <2>3, <4>1, <4>2, GitAssumption
    <3> QED
      BY <1>9, <2>1, <3>1, <3>2 DEF ClientInv, Messages
  <2>5. ASSUME ~reused' PROVE Snapshots'
    <3> USE <1>9 DEF ClientInv, Onward, Snapshots
    <3>1. \A i \in DOMAIN wire' : i + 1 \in DOMAIN wire /\ wire'[i] = wire[i + 1]
      BY <2>1, <2>3
    <3>2. \A i \in DOMAIN wire' : wire'[i].kind = "push" => FirstPage(wire'[i].page)
      BY <2>5, <3>1
    <3>3. Head(wire) = wire[1] /\ 1 \in DOMAIN wire
      BY <2>1, <2>3
    <3>4. \A i \in DOMAIN jobs' : jobs'[i].kind = "push" => FirstPage(jobs'[i].page)
      BY <2>2, <2>3, <2>5, <3>3
    <3>5. \A who \in {"applier", "asker"} : OfOne(pulls'[who])
      BY <2>1, <2>5
    <3>6. Whole(projection')
      BY <2>1, <2>5
    <3> QED
      BY <2>5, <3>2, <3>4, <3>5, <3>6, StaysOfOne
  <2> QED
    BY <2>4, <2>5 DEF ClientInv
<1>10. ASSUME EngineInv, EngineInv', Onward, ClientInv, jobs # <<>>, jobs' = Tail(jobs),
              wire' = wire, NEW p, IsPull(p), ~reused' => OfOne(p),
              pulls' = pulls \/ pulls' = [pulls EXCEPT !.applier = p],
              projection' = projection \/ projection' = Blank
       PROVE  ClientInv'
  <2>1. wire \in Seq(Notices) /\ jobs \in Seq(Notices)
    BY <1>10 DEF ClientInv, Messages
  <2>2. Messages'
    <3>1. jobs' \in Seq(Notices) /\ Len(jobs') <= QueueSize
      BY <1>10, <2>1, GitAssumption DEF ClientInv, Messages
    <3>2. /\ DOMAIN pulls' = {"applier", "asker"} /\ pulls' = [who \in DOMAIN pulls' |-> pulls'[who]]
          /\ \A who \in {"applier", "asker"} : IsPull(pulls'[who])
      BY <1>10 DEF ClientInv, Messages
    <3> QED
      BY <1>10, <2>1, <3>1, <3>2 DEF Messages
  <2>3. ASSUME ~reused' PROVE Snapshots'
    <3>1. Snapshots
      BY <1>10, <2>3 DEF ClientInv, Onward
    <3>2. \A i \in DOMAIN jobs' : i + 1 \in DOMAIN jobs /\ jobs'[i] = jobs[i + 1]
      BY <1>10, <2>1
    <3>3. \A i \in DOMAIN jobs' : jobs'[i].kind = "push" => FirstPage(jobs'[i].page)
      BY <3>1, <3>2 DEF Snapshots
    <3>4. \A who \in {"applier", "asker"} : OfOne(pulls'[who])
      BY <1>10, <2>3, <3>1 DEF Snapshots, ClientInv, Messages
    <3>5. Whole(projection')
      BY <1>10, <3>1 DEF Snapshots, Whole
    <3>6. \A i \in DOMAIN wire' : wire'[i].kind = "push" => FirstPage(wire'[i].page)
      BY <1>10, <3>1 DEF Snapshots
    <3> QED
      BY <1>10, <2>3, <3>3, <3>4, <3>5, <3>6, StaysOfOne DEF Snapshots
  <2> QED
    BY <2>2, <2>3 DEF ClientInv
<1>11. ASSUME EngineInv, EngineInv', Onward, ClientInv, Invalidate PROVE ClientInv'
  BY <1>10, <1>11, PullsRest DEF Invalidate
<1>12. ASSUME EngineInv, EngineInv', Onward, ClientInv, Apply PROVE ClientInv'
  <2> DEFINE q == Head(jobs).page
             p == Take(Asking, q)
  <2>1. jobs # <<>> /\ Head(jobs).kind = "push" /\ jobs \in Seq(Notices)
    BY <1>12 DEF Apply, ClientInv, Messages
  <2>2. Head(jobs) \in Notices /\ Head(jobs) = jobs[1] /\ 1 \in DOMAIN jobs
    BY <2>1
  <2>3. q \in Pages
    BY <2>1, <2>2 DEF Notices
  <2>4. ~reused' => FirstPage(q)
    BY <1>12, <2>1, <2>2 DEF ClientInv, Onward, Snapshots
  <2> HIDE DEF q
  <2>5. IsPull(p) /\ (~reused' => OfOne(p))
    BY <2>3, <2>4, TakesFirst, TakeIs, PullsRest DEF Asking, NoPull
  <2>6. /\ jobs' = Tail(jobs) /\ wire' = wire /\ projection' = projection
        /\ pulls' = [pulls EXCEPT !.applier = p]
    BY <1>12 DEF Apply, Pulls, q
  <2> HIDE DEF p
  <2> QED
    BY <1>10, <1>12, <2>1, <2>5, <2>6
<1>13. ASSUME EngineInv, EngineInv', Onward, ClientInv, NEW who \in {"applier", "asker"},
              Commit(who)
       PROVE  ClientInv'
  <2>1. /\ pulls[who].at = "commit" /\ Pulls(who, NoPull) /\ UNCHANGED <<wire, jobs>>
        /\ projection' = [branch |-> pulls[who].branch, entries |-> pulls[who].got]
    BY <1>13 DEF Commit
  <2>2. ~reused' => pulls[who].branch \in 1 .. repo /\ pulls[who].got = Entries(pulls[who].branch)
    BY <1>13, <2>1 DEF ClientInv, Onward, Snapshots, OfOne
  <2>3. ~reused' => Whole(projection')
    BY <2>1, <2>2 DEF Whole, Snapshot, Entries
  <2> QED
    BY <1>13, <2>1, <2>3, PullGoesOn, PullsRest
<1>14. ASSUME EngineInv, EngineInv', Onward, ClientInv, NEW ended, NEW failed,
              Reconnect(ended, failed)
       PROVE  ClientInv'
  <2> DEFINE p == IF failed /\ pulls.applier.at = "ask" THEN NoPull ELSE pulls.applier
  <2>1. wire' = <<>> /\ jobs' = jobs /\ projection' = projection /\ pulls' = [asker |-> Asking, applier |-> p]
    BY <1>14 DEF Reconnect
  <2>2. IsPull(p) /\ (~reused' => OfOne(p))
    BY <1>14, PullsRest DEF ClientInv, Messages, Onward, Snapshots
  <2> HIDE DEF p
  <2>3. Messages'
    BY <1>14, <2>1, <2>2, PullsRest DEF ClientInv, Messages
  <2>4. ASSUME ~reused' PROVE Snapshots'
    <3>1. Snapshots
      BY <1>14, <2>4 DEF ClientInv, Onward
    <3>2. \A who \in {"applier", "asker"} : OfOne(pulls'[who])
      BY <2>1, <2>2, <2>4, PullsRest
    <3>3. \A i \in DOMAIN jobs' : jobs'[i].kind = "push" => FirstPage(jobs'[i].page)
      BY <2>1, <3>1 DEF Snapshots
    <3>4. Whole(projection')
      BY <2>1, <3>1 DEF Snapshots
    <3> QED
      BY <1>14, <2>1, <2>4, <3>2, <3>3, <3>4, StaysOfOne DEF Snapshots
  <2> QED
    BY <2>3, <2>4 DEF ClientInv
<1>15. EngineInv /\ EngineInv' /\ Onward /\ ClientInv /\ UNCHANGED vars => ClientInv'
  BY OnlyTheEngine DEF vars, client
<1>16. EngineInv /\ ClientInv /\ EngineInv' /\ [Next]_vars => ClientInv'
  BY <1>2, <1>4, <1>5, <1>6, <1>7, <1>8, <1>9, <1>11, <1>12, <1>13, <1>14, <1>15, StepsAreOnward
     DEF Next, System, World, Computing, Serving, Applying
<1> QED
  BY <1>1, <1>16, EngineHolds, PTL DEF Spec

\* The client's store holds one snapshot, whole: pages of two are never put together,
\* as long as no generation has been given out again (OneSnapshot).
THEOREM PagesOfOneSnapshot == Spec => []OneSnapshot
<1>1. EngineInv /\ ClientInv => TypeOK
  <2> SUFFICES ASSUME EngineInv, ClientInv PROVE TypeOK
    OBVIOUS
  <2>1. repo \in 1 .. MaxSteps + 1
    BY GitAssumption DEF EngineInv, Numbers
  <2>2. co \in Coalescers /\ (co.running => pump.at # "idle" /\ ~co.pending)
    BY DEF EngineInv, Coalesced
  <2> QED
    BY <2>1, <2>2 DEF EngineInv, Threads, ClientInv, Messages, IsPull, TypeOK, Coalescers
<1>2. ClientInv => (~reused => Whole(projection))
  BY DEF ClientInv, Snapshots
<1> QED
  BY <1>1, <1>2, ClientHolds, PTL DEF OneSnapshot

-----------------------------------------------------------------------------
(* The engine's own knowledge                                              *)

\* Somebody has been told of the last change, or is reading it, or has read it.
Told == \/ signal \/ events # "none" \/ WillRead(co)
        \/ pump.at = "read" \/ (pump.at = "hold" /\ pump.version = repo)
        \/ dispatch.at = "read" \/ (dispatch.at = "hold" /\ dispatch.version = repo)

\* Both watches are there, or the tree's is about to be.
Looked == observed /\ attached /\ (watched \/ dispatch.at = "watch") /\ ~lost

KnowInv == Looked => Told \/ held.version = repo

\* A coalescer keeps that a status will be read, and is told of one.
LEMMA WillReadIs ==
  ASSUME NEW c \in Coalescers
  PROVE  /\ WillRead(Notice(c)) /\ (WillRead(c) => WillRead(Finish(c)))
BY DEF Coalescers, WillRead, Notice, Finish

\* A status held is the repository's if it was, or another replaces it that is, or
\* an older one was put over a newer.
LEMMA HeldIs ==
  ASSUME Threads, Numbers, NEW v \in 1 .. repo, Hold(v), ~lost'
  PROVE  ~lost /\ held'.version = v /\ (held.version = repo => v = repo)
<1>1. held'.version = v /\ held.version \in 0 .. repo /\ repo \in Nat
  BY DEF Threads, Numbers, Hold
<1>2. lost' = (lost \/ held.version > v)
  BY DEF Hold
<1>3. ~lost /\ ~(held.version > v)
  BY <1>2
<1> QED
  BY <1>1, <1>3

LEMMA KnowHolds == Spec => [](EngineInv /\ KnowInv)
<1>1. Init => KnowInv
  BY DEF Init, KnowInv, Looked
<1>2. ASSUME EngineInv, KnowInv, NEW index \in BOOLEAN, NEW told \in {"none", "batch", "bulk"},
             Change(index, told), index \/ told # "none"
      PROVE  KnowInv'
  <2>1. /\ UNCHANGED <<observed, attached, watched, co, dispatch>>
        /\ signal' = (signal \/ (index /\ attached))
        /\ events' = IF watched /\ events # "bulk" /\ told # "none" THEN told ELSE events
        /\ lost' = (lost \/ (dispatch.at = "watch" /\ ~WillRead(co)))
    BY <1>2 DEF Change, engine
  <2> SUFFICES ASSUME Looked' PROVE Told'
    BY DEF KnowInv
  <2>2. observed /\ attached /\ ~lost' /\ (watched \/ dispatch.at = "watch")
    BY <2>1 DEF Looked
  <2>3. CASE dispatch.at = "watch"
    BY <2>1, <2>2, <2>3 DEF Told, WillRead
  <2>4. CASE watched /\ index
    BY <2>1, <2>2, <2>4 DEF Told
  <2>5. CASE watched /\ told # "none"
    BY <2>1, <2>5 DEF Told
  <2> QED
    BY <1>2, <2>2, <2>3, <2>4, <2>5
<1>3. ASSUME EngineInv, KnowInv, SignalFires \/ WatchNudges \/ WatchInvalidates
      PROVE  KnowInv'
  <2>1. co \in Coalescers
    BY <1>3 DEF EngineInv, Coalesced
  <2>2. UNCHANGED <<observed, attached, watched, dispatch, pump, held, repo>>
    BY <1>3 DEF SignalFires, WatchNudges, WatchInvalidates, repository, engine, ghosts
  <2>3. lost => lost'
    BY <1>3 DEF SignalFires, WatchNudges, WatchInvalidates, ghosts
  <2>4. observed => \/ UNCHANGED <<signal, events, co>>
                    \/ co' = Notice(co)
    BY <1>3 DEF SignalFires, WatchNudges, WatchInvalidates, Nudge, repository, engine
  <2>5. WillRead(Notice(co))
    BY <2>1, WillReadIs
  <2> QED
    BY <1>3, <2>2, <2>3, <2>4, <2>5 DEF KnowInv, Looked, Told, WillRead
<1>4. ASSUME EngineInv, KnowInv, Begin \/ PumpReads PROVE KnowInv'
  <2>1. UNCHANGED <<observed, attached, watched, dispatch, held, repo, signal, events, lost>>
    BY <1>4 DEF Begin, PumpReads, repository, ghosts
  <2>2. \/ pump'.at = "read"
        \/ pump'.at = "hold" /\ pump'.version = repo' /\ UNCHANGED co
    BY <1>4, <2>1 DEF Begin, PumpReads, EngineInv, Threads
  <2> QED
    BY <1>4, <2>1, <2>2 DEF KnowInv, Looked, Told
<1>5. ASSUME EngineInv, KnowInv, PumpFails \/ ServeFails PROVE KnowInv'
  BY <1>5 DEF PumpFails, ServeFails, KnowInv, Looked
<1>6. ASSUME EngineInv, KnowInv, PumpHolds PROVE KnowInv'
  <2>1. /\ UNCHANGED <<observed, attached, watched, dispatch, repo, signal, events, co>>
        /\ pump.at = "hold" /\ Hold(pump.version)
    BY <1>6 DEF PumpHolds, repository
  <2>2. pump.version \in 1 .. repo /\ Numbers /\ Threads
    BY <1>6, <2>1 DEF EngineInv, Threads, Numbers
  <2>3. ~lost' => ~lost /\ held'.version = pump.version
                       /\ (held.version = repo => pump.version = repo)
    BY <2>1, <2>2, HeldIs
  <2> QED
    BY <1>6, <2>1, <2>3 DEF KnowInv, Looked, Told
<1>7. ASSUME EngineInv, KnowInv, ServeHold PROVE KnowInv'
  <2>1. /\ UNCHANGED <<observed, attached, watched, pump, repo, signal, events, co>>
        /\ dispatch.at = "hold" /\ Hold(dispatch.version)
        /\ dispatch' = [at |-> "page", version |-> 0]
    BY <1>7 DEF ServeHold, At, repository
  <2>2. dispatch.version \in 1 .. repo /\ Numbers /\ Threads
    BY <1>7, <2>1 DEF EngineInv, Threads, Numbers
  <2>3. ~lost' => ~lost /\ held'.version = dispatch.version
                       /\ (held.version = repo => dispatch.version = repo)
    BY <2>1, <2>2, HeldIs
  <2> QED
    BY <1>7, <2>1, <2>3 DEF KnowInv, Looked, Told
<1>8. ASSUME EngineInv, KnowInv, PumpPushes PROVE KnowInv'
  <2>1. /\ UNCHANGED <<observed, attached, watched, dispatch, repo, held, signal, events, lost>>
        /\ pump.at = "push" /\ co' = Finish(co) /\ co \in Coalescers
    BY <1>8 DEF PumpPushes, repository, ghosts, EngineInv, Coalesced
  <2>2. WillRead(co) => WillRead(co')
    BY <2>1, WillReadIs
  <2> QED
    BY <1>8, <2>1, <2>2 DEF KnowInv, Looked, Told
<1>9. ASSUME EngineInv, KnowInv, ServeObserve \/ ServeRead PROVE KnowInv'
  <2>1. \/ dispatch'.at = "read"
        \/ dispatch'.at = "hold" /\ dispatch'.version = repo'
    BY <1>9 DEF ServeObserve, ServeRead, At, repository
  <2> QED
    BY <2>1 DEF KnowInv, Told
<1>10. ASSUME EngineInv, KnowInv, ServePage \/ ServeWatched PROVE KnowInv'
  <2>1. UNCHANGED <<observed, attached, pump, held, repo, signal, events, co, lost>>
    BY <1>10 DEF ServePage, ServeWatched, repository, ghosts
  <2>2. /\ dispatch'.at = "free" /\ dispatch.at \in {"page", "watch"}
        /\ watched' => watched \/ dispatch.at = "watch"
    BY <1>10 DEF ServePage, ServeWatched, At, repository
  <2> QED
    BY <1>10, <2>1, <2>2 DEF KnowInv, Looked, Told
<1>11. ASSUME EngineInv, KnowInv, ServeWatch PROVE KnowInv'
  <2>1. observed /\ UNCHANGED observed => WillRead(co')
    BY <1>11, WillReadIs DEF ServeWatch, Nudge, EngineInv, Coalesced
  <2> QED
    BY <1>11, <2>1 DEF ServeWatch, KnowInv, Looked, Told
<1>12. ASSUME EngineInv, KnowInv, ServeClose \/ ServeClosed PROVE KnowInv'
  BY <1>12 DEF ServeClose, ServeClosed, KnowInv, Looked
<1>13. ASSUME EngineInv, KnowInv,
              \/ \E who \in {"applier", "asker"} : ServeCursor(who) \/ Commit(who)
              \/ Deliver \/ Invalidate \/ Apply \/ Ask
       PROVE  KnowInv'
  <2>1. UNCHANGED <<repository, engine>>
    BY <1>13 DEF ServeCursor, Commit, Deliver, Invalidate, Apply, Ask
  <2>2. lost => lost'
    <3>1. CASE \E who \in {"applier", "asker"} : ServeCursor(who)
      BY <3>1 DEF ServeCursor
    <3>2. CASE \E who \in {"applier", "asker"} : Commit(who)
      BY <3>2 DEF Commit
    <3>3. CASE Deliver
      BY <3>3 DEF Deliver
    <3>4. CASE Invalidate \/ Apply \/ Ask
      BY <3>4 DEF Invalidate, Apply, Ask, ghosts
    <3> QED
      BY <1>13, <3>1, <3>2, <3>3, <3>4
  <2> QED
    BY <1>13, <2>1, <2>2 DEF KnowInv, Looked, Told, repository, engine, WillRead
<1>14. ASSUME EngineInv, KnowInv, NEW ended \in BOOLEAN, NEW failed \in BOOLEAN,
              Reconnect(ended, failed)
       PROVE  KnowInv'
  <2>1. CASE ended
    BY <1>14, <2>1 DEF Reconnect, KnowInv, Looked
  <2>2. CASE ~ended
    <3>1. Nudge /\ UNCHANGED observed
      BY <1>14, <2>2 DEF Reconnect
    <3>2. observed => WillRead(co')
      BY <1>14, <3>1, WillReadIs DEF Nudge, EngineInv, Coalesced
    <3> QED
      BY <3>1, <3>2 DEF KnowInv, Looked, Told
  <2> QED
    BY <2>1, <2>2
<1>15. KnowInv /\ UNCHANGED vars => KnowInv'
  BY DEF KnowInv, Looked, Told, WillRead, vars, repository, engine, ghosts
<1>16. EngineInv /\ KnowInv /\ [Next]_vars => KnowInv'
  BY <1>2, <1>3, <1>4, <1>5, <1>6, <1>7, <1>8, <1>9, <1>10, <1>11, <1>12, <1>13, <1>14, <1>15
     DEF Next, System, World, Computing, Serving, Applying
<1> QED
  BY <1>1, <1>16, EngineHolds, PTL DEF Spec

\* Once the engine has nothing left to do it holds the repository as it is: a change that
\* comes while a status is read, or before the tree is watched, is read again (EngineKnows).
THEOREM EngineKnowsAtRest == Spec => []EngineKnows
<1>1. KnowInv => EngineKnows
  BY DEF KnowInv, Looked, Told, EngineKnows, Covered, Free
<1> QED
  BY <1>1, KnowHolds, PTL
-----------------------------------------------------------------------------
(* What the client comes to hold                                           *)

\* What tells the engine of a change that no status has.
Signals == signal \/ events # "none" \/ WillRead(co)
Still == Looked /\ ~Signals /\ pump.at = "idle"

\* What the threads and the client are at in the course of an observation. Before one
\* nothing is under way, and a status that is older than a change has a signal behind it.
Order == /\ dispatch.at \in {"read", "hold", "page"} => pulls.asker = Asking
         /\ dispatch.at = "close" => ~observed
Before == ~observed /\ dispatch.at # "close"
Empty == wire = <<>> /\ jobs = <<>> /\ pulls.applier.at = "idle"
Phases ==
  /\ Order
  /\ Before => pump.at = "idle" /\ (~lost => Empty)
  /\ Looked /\ pump.at = "hold" /\ pump.version # repo => Signals
  /\ Looked /\ pump.at = "push" /\ held.version # repo => Signals

\* Where a signal is given there is one, if the workspace is observed.
LEMMA SignalsOn ==
  ASSUME EngineInv, observed',
         \/ \E index \in BOOLEAN, told \in {"none", "batch", "bulk"} :
              Change(index, told) /\ (index \/ told # "none") /\ Looked'
         \/ SignalFires \/ WatchNudges \/ ServeWatch
         \/ \E ended, failed \in BOOLEAN : Reconnect(ended, failed)
  PROVE  Signals'
<1>1. co \in Coalescers
  BY DEF EngineInv, Coalesced
<1>2. WillRead(Notice(co))
  BY <1>1, WillReadIs
<1>3. CASE SignalFires \/ WatchNudges \/ ServeWatch
  BY <1>2, <1>3 DEF SignalFires, WatchNudges, ServeWatch, Nudge, Signals
<1>4. CASE \E ended, failed \in BOOLEAN : Reconnect(ended, failed)
  BY <1>2, <1>4 DEF Reconnect, Nudge, Signals
<1>5. ASSUME NEW index \in BOOLEAN, NEW told \in {"none", "batch", "bulk"},
             Change(index, told), index \/ told # "none", Looked'
      PROVE  Signals'
  <2>1. /\ UNCHANGED <<observed, attached, watched, co, dispatch>>
        /\ signal' = (signal \/ (index /\ attached))
        /\ events' = IF watched /\ events # "bulk" /\ told # "none" THEN told ELSE events
        /\ lost' = (lost \/ (dispatch.at = "watch" /\ ~WillRead(co)))
    BY <1>5 DEF Change, engine
  <2>2. attached /\ ~lost' /\ (watched \/ dispatch.at = "watch")
    BY <1>5, <2>1 DEF Looked
  <2>3. CASE dispatch.at = "watch"
    BY <2>1, <2>2, <2>3 DEF Signals, WillRead
  <2>4. CASE watched
    BY <1>5, <2>1, <2>2, <2>4 DEF Signals
  <2> QED
    BY <2>2, <2>3, <2>4
<1> QED
  BY <1>3, <1>4, <1>5

\* One of the two pulls is another, the other as it was.
LEMMA Pulled ==
  ASSUME Messages, NEW who \in {"applier", "asker"}, NEW p, Pulls(who, p)
  PROVE  /\ pulls'[who] = p
         /\ \A w \in {"applier", "asker"} \ {who} : pulls'[w] = pulls[w]
BY DEF Messages, Pulls

LEMMA PhasesHold == Spec => [](EngineInv /\ ClientInv /\ Phases)
<1> USE DEF Phases, Order, Before, Empty
<1>1. Init => Phases
  BY DEF Init, Asking, NoPull, Looked
<1>2. ASSUME EngineInv, Phases, NEW index \in BOOLEAN, NEW told \in {"none", "batch", "bulk"},
             Change(index, told), index \/ told # "none"
      PROVE  Phases'
  <2>1. Looked' => Signals'
    BY <1>2, SignalsOn DEF Looked
  <2>2. UNCHANGED <<observed, dispatch, pump, held, wire, jobs, pulls>> /\ (lost => lost')
    BY <1>2 DEF Change, engine, client
  <2> QED
    BY <1>2, <2>1, <2>2
<1>3. ASSUME EngineInv, Phases, SignalFires \/ WatchNudges PROVE Phases'
  <2>1. Looked' => Signals'
    BY <1>3, SignalsOn DEF Looked
  <2>2. UNCHANGED <<observed, dispatch, pump, held, wire, jobs, pulls, lost>>
    BY <1>3 DEF SignalFires, WatchNudges, client, ghosts
  <2> QED
    BY <1>3, <2>1, <2>2
<1>4. ASSUME EngineInv, Phases, WatchInvalidates PROVE Phases'
  <2>1. /\ UNCHANGED <<repository, observed, co, dispatch, pump, held, jobs, pulls>>
        /\ (lost => lost') /\ (~observed => lost')
    BY <1>4 DEF WatchInvalidates, client
  <2> QED
    BY <1>4, <2>1 DEF Looked, Signals, repository
<1>5. ASSUME EngineInv, Phases, Begin \/ PumpReads PROVE Phases'
  <2>1. /\ UNCHANGED <<repository, observed, dispatch, held, wire, jobs, pulls, lost>>
        /\ pump'.at = "read" \/ (pump'.at = "hold" /\ pump'.version = repo' /\ pump.at = "read")
        /\ observed \/ pump.at # "idle"
    BY <1>5 DEF Begin, PumpReads, client, ghosts, repository, EngineInv, Threads
  <2> QED
    BY <1>5, <2>1 DEF Looked, repository
<1>6. ASSUME EngineInv, Phases, PumpFails PROVE Phases'
  BY <1>6 DEF PumpFails, Looked, client, EngineInv, Threads
<1>7. ASSUME EngineInv, Phases, PumpHolds \/ ServeHold PROVE Phases'
  <2>1. /\ UNCHANGED <<repository, observed, co, wire, jobs, pulls>>
        /\ lost => lost'
    BY <1>7 DEF PumpHolds, ServeHold, Hold, client
  <2>2. \/ /\ pump.at = "hold" /\ Hold(pump.version) /\ pump' = [pump EXCEPT !.at = "push"]
           /\ dispatch' = dispatch
        \/ /\ dispatch.at = "hold" /\ Hold(dispatch.version) /\ pump' = pump
           /\ dispatch' = [at |-> "page", version |-> 0]
    BY <1>7 DEF PumpHolds, ServeHold, At
  <2>3. \/ pump'.at = "push" /\ pump.at = "hold" /\ dispatch' = dispatch
        \/ pump' = pump /\ dispatch.at = "hold" /\ dispatch'.at = "page"
    BY <1>7, <2>2 DEF EngineInv, Threads
  <2>4. Looked' /\ pump'.at = "push" /\ held'.version # repo => Signals
    <3>1. CASE pump.at = "hold" /\ Hold(pump.version)
      <4>1. pump.version \in 1 .. repo /\ Threads /\ Numbers
        BY <1>7, <3>1 DEF EngineInv, Threads, Numbers
      <4>2. ~lost' => ~lost /\ held'.version = pump.version
        BY <3>1, <4>1, HeldIs
      <4> QED
        BY <1>7, <2>1, <2>3, <3>1, <4>2 DEF Looked, repository
    <3>2. CASE dispatch.at = "hold" /\ Hold(dispatch.version) /\ pump' = pump
      <4>1. dispatch.version \in 1 .. repo /\ Threads /\ Numbers
        BY <1>7, <3>2 DEF EngineInv, Threads, Numbers
      <4>2. ~lost' => ~lost /\ held'.version = dispatch.version
                           /\ (held.version = repo => dispatch.version = repo)
        BY <3>2, <4>1, HeldIs
      <4> QED
        BY <1>7, <2>1, <2>3, <3>2, <4>2 DEF Looked, repository
    <3> QED
      BY <2>2, <3>1, <3>2
  <2>5. Looked' => Looked
    BY <2>1, <2>3 DEF Looked, repository
  <2>6. Signals' = Signals /\ repo' = repo
    BY <2>1 DEF Signals, repository
  <2> QED
    BY <1>7, <2>1, <2>3, <2>4, <2>5, <2>6
<1>8. ASSUME EngineInv, Phases, PumpPushes PROVE Phases'
  <2>1. pump.at = "push" /\ pump'.at = "idle"
        /\ UNCHANGED <<observed, dispatch, held, jobs, pulls, lost>>
    BY <1>8 DEF PumpPushes, client, ghosts
  <2> QED
    BY <1>8, <2>1
<1>9. ASSUME Messages, Phases, Ask \/ ServeFails \/ ServePage PROVE Phases'
  <2>1. /\ UNCHANGED <<repository, observed, co, pump, held, wire, jobs>> /\ (lost => lost')
        /\ \/ dispatch'.at = "free" /\ dispatch.at \in {"read", "page"} /\ \E p : Pulls("asker", p)
           \/ dispatch' = dispatch /\ Pulls("asker", Asking)
    BY <1>9 DEF Ask, ServeFails, ServePage, At, engine, ghosts
  <2>2. /\ pulls'.applier = pulls.applier
        /\ dispatch'.at = "free" \/ (dispatch' = dispatch /\ pulls'.asker = Asking)
    BY <1>9, <2>1, Pulled
  <2> QED
    BY <1>9, <2>1, <2>2 DEF Looked, Signals, repository
<1>10. ASSUME Messages, Phases, ServeObserve PROVE Phases'
  <2>1. /\ UNCHANGED <<signal, events, watched, repo, pump, held, wire, jobs, pulls>>
        /\ dispatch.at = "free" /\ dispatch'.at = "read" /\ (lost => lost')
        /\ pulls.asker = Asking
        /\ observed => UNCHANGED <<observed, attached, co>>
    BY <1>10 DEF ServeObserve, Observe, At, Free, First, client
  <2>2. ~observed => pump.at = "idle"
    BY <1>10, <2>1
  <2>3. observed => Signals' = Signals
    BY <2>1 DEF Signals
  <2> QED
    BY <1>10, <2>1, <2>2, <2>3 DEF Looked
<1>11. ASSUME Messages, Phases, ServeRead \/ ServeWatched PROVE Phases'
  <2>1. /\ UNCHANGED <<repo, signal, events, attached, observed, co, pump, held, wire, jobs, pulls, lost>>
        /\ \/ dispatch.at = "read" /\ dispatch'.at = "hold" /\ watched' = watched
           \/ dispatch.at = "watch" /\ dispatch'.at = "free"
    BY <1>11 DEF ServeRead, ServeWatched, At, client, ghosts, repository
  <2>2. (Looked' => Looked) /\ Signals' = Signals
    BY <2>1 DEF Looked, Signals
  <2> QED
    BY <1>11, <2>1, <2>2
<1>12. ASSUME EngineInv, Phases, ServeWatch PROVE Phases'
  <2>1. Looked' => Signals'
    BY <1>12, SignalsOn DEF Looked
  <2>2. /\ UNCHANGED <<observed, pump, held, wire, jobs, pulls, lost>>
        /\ dispatch.at = "free" /\ dispatch'.at = "watch"
    BY <1>12 DEF ServeWatch, At, Free, client, ghosts
  <2> QED
    BY <1>12, <2>1, <2>2
<1>13. ASSUME Messages, Phases, ServeClose \/ ServeClosed PROVE Phases'
  <2>1. UNCHANGED <<pump, wire, jobs, pulls>> /\ ~observed'
    BY <1>13 DEF ServeClose, ServeClosed, client
  <2>2. \/ dispatch'.at = "close" /\ dispatch.at = "free"
        \/ /\ dispatch'.at = "free" /\ pump.at = "idle"
           /\ lost' = (lost \/ wire # <<>> \/ jobs # <<>> \/ pulls.applier.at # "idle")
    BY <1>13 DEF ServeClose, ServeClosed, PumpJoined, At, Free
  <2> QED
    BY <2>1, <2>2 DEF Looked
<1>14. ASSUME Messages, Phases, \E who \in {"applier", "asker"} : ServeCursor(who) \/ Commit(who)
       PROVE  Phases'
  <2>1. PICK who \in {"applier", "asker"} : ServeCursor(who) \/ Commit(who)
    BY <1>14
  <2>2. /\ UNCHANGED <<repository, observed, co, pump, held, dispatch, wire, jobs>> /\ (lost => lost')
        /\ pulls[who].at # "idle" /\ \E p : Pulls(who, p)
        /\ who = "asker" => Free \/ pulls.asker # Asking
    BY <2>1 DEF ServeCursor, Commit, engine, Asking, NoPull
  <2>3. \A w \in {"applier", "asker"} \ {who} : pulls'[w] = pulls[w]
    BY <1>14, <2>2, Pulled
  <2>4. Order'
    BY <1>14, <2>2, <2>3 DEF Free
  <2>5. Before => lost \/ who = "asker"
    BY <1>14, <2>2
  <2>6. Before' /\ ~lost' => Empty'
    BY <1>14, <2>2, <2>3, <2>5
  <2> QED
    BY <1>14, <2>2, <2>4, <2>6 DEF Looked, Signals, repository
<1>15. ASSUME Messages, Phases, Deliver \/ Invalidate \/ Apply PROVE Phases'
  <2>1. /\ UNCHANGED <<repository, observed, co, pump, held, dispatch>> /\ (lost => lost')
        /\ wire # <<>> \/ jobs # <<>>
    BY <1>15, Pulled DEF Deliver, Invalidate, Apply, engine, ghosts
  <2>2. pulls'.asker = pulls.asker
    BY <1>15, Pulled DEF Deliver, Invalidate, Apply
  <2> QED
    BY <1>15, <2>1, <2>2 DEF Looked, Signals, repository
<1>16. ASSUME EngineInv, Phases, NEW ended \in BOOLEAN, NEW failed \in BOOLEAN,
              Reconnect(ended, failed)
       PROVE  Phases'
  <2>1. /\ wire' = <<>> /\ jobs' = jobs /\ pulls'.asker = Asking
        /\ lost' = (lost \/ jobs # <<>> \/ pulls'.applier.at # "idle")
        /\ dispatch.at = "free"
    BY <1>16 DEF Reconnect, Free
  <2>4. dispatch'.at = "free"
    BY <1>16, <2>1 DEF Reconnect, At
  <2>2. \/ ~observed' /\ pump'.at = "idle"
        \/ UNCHANGED <<observed, pump, held>>
    BY <1>16 DEF Reconnect
  <2>3. Looked' => Signals'
    BY <1>16, SignalsOn DEF Looked
  <2> QED
    BY <1>16, <2>1, <2>2, <2>3, <2>4
<1>17. Phases /\ UNCHANGED vars => Phases'
  BY DEF Looked, Signals, WillRead, vars, repository, engine, client, ghosts
<1>18. EngineInv /\ ClientInv /\ Phases /\ [Next]_vars => Phases'
  <2> SUFFICES ASSUME EngineInv, ClientInv, Phases, [Next]_vars PROVE Phases'
    OBVIOUS
  <2>1. Messages
    BY DEF ClientInv
  <2> HIDE DEF Phases, Order, Before, Empty
  <2> QED
    BY <1>2, <1>3, <1>4, <1>5, <1>6, <1>7, <1>8, <1>9, <1>10, <1>11, <1>12, <1>13, <1>14, <1>15,
       <1>16, <1>17, <2>1 DEF Next, System, World, Computing, Serving, Applying
<1> HIDE DEF Phases, Order, Before, Empty
<1> QED
  BY <1>1, <1>18, ClientHolds, PTL DEF Spec

-----------------------------------------------------------------------------
(* While a workspace is observed, generations only rise                    *)

Seen == observed /\ attached /\ ~lost
Dated(q) == FirstPage(q) /\ q.generation <= held.generation
DatedPull(p) ==
  OfOne(p) /\ (p.at = "ask" /\ p # Asking => p.cursor.generation <= held.generation)
Dates ==
  /\ \A k \in DOMAIN wire : wire[k].kind = "push" => Dated(wire[k].page)
  /\ \A k \in DOMAIN jobs : jobs[k].kind = "push" => Dated(jobs[k].page)
  /\ \A who \in {"applier", "asker"} : DatedPull(pulls[who])
Lineage == Seen => Dates

Rises == /\ repo <= repo' /\ given <= given'
         /\ held' = held \/ held'.generation = held.generation + 1

LEMMA DatesStay ==
  ASSUME EngineInv, EngineInv', Rises
  PROVE  (\A q \in Pages : Dated(q) => Dated(q)') /\ (\A p : IsPull(p) /\ DatedPull(p) => DatedPull(p)')
<1>1. /\ repo \in Nat /\ given \in Nat /\ repo' \in Nat /\ given' \in Nat
      /\ held.generation \in Nat /\ held'.generation \in Nat
  BY DEF EngineInv, Numbers, Threads
<1>2. ASSUME NEW g \in Nat, NEW v, Genuine(g, v), g <= held.generation
      PROVE  Genuine(g, v)' /\ g <= held'.generation
  <2>1. g \in 1 .. given' /\ v \in 1 .. repo' /\ g <= held'.generation
    BY <1>1, <1>2 DEF Genuine, Rises
  <2>2. g = held'.generation => held' = held
    BY <1>1, <1>2 DEF Rises
  <2> QED
    BY <1>2, <2>1, <2>2 DEF Genuine
<1>3. ASSUME NEW q \in Pages, Dated(q) PROVE Dated(q)'
  BY <1>2, <1>3 DEF Dated, FirstPage, Pages
<1>4. ASSUME NEW p, IsPull(p), DatedPull(p) PROVE DatedPull(p)'
  <2>1. p.cursor.generation \in Nat
    BY <1>4 DEF IsPull, Cursors
  <2>2. p.at = "commit" => p.branch \in 1 .. repo'
    BY <1>1, <1>4 DEF DatedPull, OfOne, Rises
  <2> QED
    BY <1>2, <1>4, <2>1, <2>2 DEF DatedPull, OfOne
<1> QED
  BY <1>3, <1>4

\* An observation goes on, or begins.
LEMMA SeenOn ==
  ASSUME EngineInv, Phases, [Next]_vars, Seen'
  PROVE  /\ Rises
         /\ Seen \/ (ServeObserve /\ Before /\ ~lost)
<1>1. repo \in Nat /\ given \in Nat /\ held.generation \in Nat
  BY DEF EngineInv, Numbers, Threads
<1>2. CASE UNCHANGED <<repo, given, held, observed, attached>> /\ (lost => lost')
  BY <1>1, <1>2 DEF Seen, Rises
<1>3. CASE SignalFires \/ WatchNudges \/ Begin \/ PumpReads \/ PumpPushes \/ Ask \/ ServeRead
           \/ ServePage \/ ServeWatch \/ ServeWatched \/ Invalidate \/ Apply \/ UNCHANGED vars
  <2>1. UNCHANGED <<repo, given, held, observed, attached, lost>>
    BY <1>3 DEF SignalFires, WatchNudges, Begin, PumpReads, PumpPushes, Ask, ServeRead, ServePage,
                ServeWatch, ServeWatched, Invalidate, Apply, vars, repository, engine, ghosts
  <2> QED
    BY <1>2, <2>1
<1>4. CASE WatchInvalidates \/ PumpFails \/ ServeFails \/ Deliver
           \/ \E who \in {"applier", "asker"} : ServeCursor(who) \/ Commit(who)
  <2>1. UNCHANGED <<repo, given, held, observed, attached>> /\ (lost => lost')
    BY <1>4 DEF WatchInvalidates, PumpFails, ServeFails, Deliver, ServeCursor, Commit,
                repository, engine
  <2> QED
    BY <1>2, <2>1
<1>5. CASE PumpHolds \/ ServeHold
  <2>1. PICK v \in 1 .. repo : Hold(v) /\ UNCHANGED <<repo, steps, observed, attached>>
    <3>1. CASE PumpHolds
      BY <3>1 DEF PumpHolds, EngineInv, Threads, Numbers, repository
    <3>2. CASE ServeHold
      BY <3>2 DEF ServeHold, EngineInv, Threads, Numbers, repository
    <3> QED
      BY <1>5, <3>1, <3>2
  <2>2. given <= given' /\ held'.generation = held.generation + 1
    BY <2>1, HoldIs DEF EngineInv
  <2>3. lost => lost'
    BY <2>1 DEF Hold
  <2> QED
    BY <1>1, <2>1, <2>2, <2>3 DEF Seen, Rises
<1>6. CASE ServeObserve
  <2>1. /\ UNCHANGED <<repo, given, held>> /\ (lost => lost') /\ dispatch.at = "free"
        /\ observed => UNCHANGED <<observed, attached>>
    BY <1>6 DEF ServeObserve, Observe, Free
  <2>2. Rises
    BY <1>1, <2>1 DEF Rises
  <2>3. CASE observed
    BY <2>1, <2>2, <2>3 DEF Seen
  <2>4. CASE ~observed
    BY <1>6, <2>1, <2>2, <2>4 DEF Seen, Before
  <2> QED
    BY <2>3, <2>4
<1>7. CASE ServeClose \/ ServeClosed
  BY <1>7 DEF ServeClose, ServeClosed, Phases, Order, Seen
<1>8. CASE \E ended, failed \in BOOLEAN : Reconnect(ended, failed)
  <2>1. /\ UNCHANGED <<repo, given>> /\ (lost => lost')
        /\ ~observed' \/ UNCHANGED <<held, observed, attached>>
    BY <1>8 DEF Reconnect
  <2>2. UNCHANGED <<repo, given, held, observed, attached>>
    BY <2>1 DEF Seen
  <2> QED
    BY <1>2, <2>1, <2>2
<1>9. CASE \E index \in BOOLEAN, told \in {"none", "batch", "bulk"} : Change(index, told)
  <2>1. UNCHANGED <<given, held, observed, attached>> /\ repo' = repo + 1 /\ (lost => lost')
    BY <1>9 DEF Change, engine
  <2> QED
    BY <1>1, <2>1 DEF Seen, Rises
<1> QED
  BY <1>3, <1>4, <1>5, <1>6, <1>7, <1>8, <1>9
     DEF Next, System, World, Computing, Serving, Applying

\* What is pulled first, and what is pulled next, has a date.
LEMMA TakesDated ==
  ASSUME EngineInv
  PROVE  /\ \A q \in Pages : Dated(q) => DatedPull(Take(Asking, q))
         /\ \A p : IsPull(p) /\ DatedPull(p) /\ p.at = "ask" /\ p # Asking /\ Known(p.cursor) =>
              DatedPull(Take(p, PageFrom(p.cursor.version)))
         /\ DatedPull(NoPull) /\ DatedPull(Asking)
<1>1. ASSUME NEW q \in Pages, Dated(q) PROVE DatedPull(Take(Asking, q))
  <2>1. OfOne(Take(Asking, q))
    BY <1>1, TakesFirst DEF Dated
  <2>2. Asking.at = "ask" /\ IsPull(Asking) /\ NoPull.at = "idle"
    BY PullsRest DEF Asking, NoPull
  <2>3. Take(Asking, q) = NoPull \/ Take(Asking, q).cursor.generation = q.generation
    BY <2>2, TakeIs
  <2> QED
    BY <1>1, <2>1, <2>2, <2>3 DEF DatedPull, Dated
<1>2. ASSUME NEW p, IsPull(p), DatedPull(p), p.at = "ask", p # Asking, Known(p.cursor)
      PROVE  DatedPull(Take(p, PageFrom(p.cursor.version)))
  <2>1. p.cursor.version \in Nat /\ held.generation \in Nat
    BY <1>2 DEF IsPull, Cursors, EngineInv, Threads, Numbers
  <2>2. /\ PageFrom(p.cursor.version) \in Pages
        /\ PageFrom(p.cursor.version).generation = held.generation
    BY <2>1, PageIs
  <2>3. OfOne(Take(p, PageFrom(p.cursor.version)))
    BY <1>2, TakesNext DEF DatedPull
  <2>4. \/ Take(p, PageFrom(p.cursor.version)) = NoPull
        \/ Take(p, PageFrom(p.cursor.version)).cursor.generation = held.generation
    BY <1>2, <2>2, TakeIs
  <2> QED
    BY <2>1, <2>3, <2>4 DEF DatedPull, NoPull
<1>3. DatedPull(NoPull) /\ DatedPull(Asking)
  BY PullsRest DEF DatedPull, NoPull
<1> QED
  BY <1>1, <1>2, <1>3

\* What has a date now has one after the step.
LEMMA DatesMove ==
  ASSUME EngineInv, EngineInv', Messages', Rises,
         \A k \in DOMAIN wire' : wire'[k].kind = "push" => Dated(wire'[k].page),
         \A k \in DOMAIN jobs' : jobs'[k].kind = "push" => Dated(jobs'[k].page),
         \A who \in {"applier", "asker"} : DatedPull(pulls'[who])
  PROVE  Dates'
<1>1. /\ \A k \in DOMAIN wire' : wire'[k].kind = "push" => wire'[k].page \in Pages
      /\ \A k \in DOMAIN jobs' : jobs'[k].kind = "push" => jobs'[k].page \in Pages
  <2>1. wire' \in Seq(Notices) /\ jobs' \in Seq(Notices)
    BY DEF Messages
  <2>2. \A n \in Notices : n.kind = "push" => n.page \in Pages
    BY DEF Notices
  <2> QED
    BY <2>1, <2>2
<1>2. \A who \in {"applier", "asker"} : IsPull(pulls'[who])
  BY DEF Messages
<1> QED
  BY <1>1, <1>2, DatesStay DEF Dates

LEMMA LineageHolds == Spec => [](EngineInv /\ ClientInv /\ Phases /\ Lineage)
<1>1. Init => Lineage
  BY DEF Init, Lineage, Seen
<1>2. ASSUME EngineInv, EngineInv', ClientInv, ClientInv', Phases, Lineage, [Next]_vars, Seen'
      PROVE  Dates'
  <2> USE <1>2
  <2>1. Rises /\ (Dates \/ (ServeObserve /\ Before /\ ~lost)) /\ Messages /\ Messages'
    BY SeenOn DEF Lineage, ClientInv
  <2>2. CASE ServeObserve /\ Before /\ ~lost
    <3>1. wire' = <<>> /\ jobs' = <<>> /\ pulls'.applier.at = "idle" /\ pulls'.asker = Asking
      BY <2>2 DEF ServeObserve, Phases, Empty, First, client
    <3>2. DatedPull(pulls'.applier) /\ DatedPull(pulls'.asker)
      BY <3>1, TakesDated DEF DatedPull, OfOne
    <3> QED
      BY <2>1, <3>1, <3>2, DatesMove
  <2>3. CASE Dates /\ UNCHANGED <<wire, jobs, pulls>>
    BY <2>1, <2>3, DatesMove DEF Dates
  <2>4. ASSUME Dates, SignalFires \/ WatchNudges \/ Begin \/ PumpReads \/ PumpFails \/ PumpHolds
                      \/ ServeObserve \/ ServeRead \/ ServeHold \/ ServeWatch \/ ServeWatched
                      \/ ServeClose \/ ServeClosed \/ UNCHANGED vars
                      \/ \E index \in BOOLEAN, told \in {"none", "batch", "bulk"} : Change(index, told)
        PROVE  Dates'
    <3>1. UNCHANGED <<wire, jobs, pulls>>
      BY <2>4 DEF SignalFires, WatchNudges, Begin, PumpReads, PumpFails, PumpHolds, ServeObserve,
                  ServeRead, ServeHold, ServeWatch, ServeWatched, ServeClose, ServeClosed, Change,
                  client, vars
    <3> QED
      BY <2>3, <2>4, <3>1
  <2>5. ASSUME Dates, NEW n, n.kind = "push" => Dated(n.page), wire' = Append(wire, n),
               UNCHANGED <<jobs, pulls>>
        PROVE  Dates'
    <3>1. \A k \in DOMAIN wire' : wire'[k] = n \/ (k \in DOMAIN wire /\ wire'[k] = wire[k])
      BY <2>1, <2>5 DEF Messages
    <3>2. \A k \in DOMAIN wire' : wire'[k].kind = "push" => Dated(wire'[k].page)
      BY <2>5, <3>1 DEF Dates
    <3> QED
      BY <2>1, <2>5, <3>2, DatesMove DEF Dates
  <2>6. ASSUME Dates, WatchInvalidates PROVE Dates'
    BY <2>5, <2>6 DEF WatchInvalidates, client
  <2>7. held.version >= 1 /\ held.generation >= 1 => PageFrom(0) \in Pages /\ Dated(PageFrom(0))
    BY PageIs DEF Dated, EngineInv, Threads, Numbers
  <2>8. ASSUME Dates, PumpPushes PROVE Dates'
    <3>1. wire' = Append(wire, [kind |-> "push", page |-> PageFrom(0)]) /\ UNCHANGED <<jobs, pulls>>
      BY <2>8 DEF PumpPushes, client
    <3>2. Dated(PageFrom(0))
      BY <2>7, <2>8 DEF PumpPushes, EngineInv, Threads
    <3> QED
      BY <2>5, <2>8, <3>1, <3>2
  <2>9. ASSUME Dates, NEW who \in {"applier", "asker"}, NEW p, Pulls(who, p), DatedPull(p),
               UNCHANGED <<wire, jobs>>
        PROVE  Dates'
    <3>1. \A w \in {"applier", "asker"} : pulls'[w] = p \/ pulls'[w] = pulls[w]
      BY <2>1, <2>9, Pulled
    <3> QED
      BY <2>1, <2>9, <3>1, DatesMove DEF Dates
  <2>10. ASSUME Dates, Ask \/ ServeFails \/ \E who \in {"applier", "asker"} : Commit(who)
         PROVE  Dates'
    BY <2>9, <2>10, TakesDated DEF Ask, ServeFails, Commit
  <2>11. ASSUME Dates, ServePage PROVE Dates'
    <3>1. DatedPull(Take(Asking, PageFrom(0)))
      BY <2>7, <2>11, TakesDated DEF ServePage, EngineInv, Threads
    <3>2. DatedPull(pulls.asker)
      BY <2>11 DEF Dates
    <3> QED
      BY <2>9, <2>11, <3>1, <3>2 DEF ServePage
  <2>12. ASSUME Dates, NEW who \in {"applier", "asker"}, ServeCursor(who) PROVE Dates'
    <3> DEFINE p == IF Known(pulls[who].cursor)
                    THEN Take(pulls[who], PageFrom(pulls[who].cursor.version)) ELSE NoPull
    <3>1. pulls[who].at = "ask" /\ pulls[who] # Asking /\ IsPull(pulls[who]) /\ DatedPull(pulls[who])
      BY <2>1, <2>12 DEF ServeCursor, First, Messages, Dates
    <3>2. DatedPull(p)
      BY <3>1, TakesDated
    <3>3. Pulls(who, p) /\ UNCHANGED <<wire, jobs>>
      BY <2>12 DEF ServeCursor
    <3> HIDE DEF p
    <3> QED
      BY <2>9, <2>12, <3>2, <3>3
  <2>13. ASSUME Dates, Deliver PROVE Dates'
    <3>1. /\ wire # <<>> /\ wire' = Tail(wire) /\ UNCHANGED pulls
          /\ jobs' = jobs \/ jobs' = Append(jobs, Head(wire))
      BY <2>13 DEF Deliver
    <3>2. \A k \in DOMAIN wire' : k + 1 \in DOMAIN wire /\ wire'[k] = wire[k + 1]
      BY <2>1, <3>1 DEF Messages
    <3>3. \A k \in DOMAIN jobs' : \/ k \in DOMAIN jobs /\ jobs'[k] = jobs[k]
                                  \/ 1 \in DOMAIN wire /\ jobs'[k] = wire[1]
      BY <2>1, <3>1 DEF Messages
    <3> QED
      BY <2>1, <2>13, <3>1, <3>2, <3>3, DatesMove DEF Dates
  <2>14. ASSUME Dates, Invalidate \/ Apply PROVE Dates'
    <3>1. jobs # <<>> /\ jobs' = Tail(jobs) /\ wire' = wire
      BY <2>14 DEF Invalidate, Apply
    <3>2. /\ \A k \in DOMAIN jobs' : k + 1 \in DOMAIN jobs /\ jobs'[k] = jobs[k + 1]
          /\ 1 \in DOMAIN jobs /\ Head(jobs) = jobs[1] /\ jobs[1] \in Notices
      BY <2>1, <3>1 DEF Messages
    <3>3. \A w \in {"applier", "asker"} : DatedPull(pulls'[w])
      <4>1. CASE Invalidate
        BY <2>14, <4>1 DEF Invalidate, Dates
      <4>2. CASE Apply
        <5>1. jobs[1].page \in Pages /\ Dated(jobs[1].page) /\ Pulls("applier", Take(Asking, jobs[1].page))
          BY <2>14, <3>2, <4>2 DEF Apply, Dates, Notices
        <5>2. \A w \in {"applier", "asker"} : pulls'[w] = Take(Asking, jobs[1].page) \/ pulls'[w] = pulls[w]
          BY <2>1, <5>1, Pulled
        <5> QED
          BY <2>14, <5>1, <5>2, TakesDated DEF Dates
      <4> QED
        BY <2>14, <4>1, <4>2
    <3> QED
      BY <2>1, <2>14, <3>1, <3>2, <3>3, DatesMove DEF Dates
  <2>15. ASSUME Dates, \E ended, failed \in BOOLEAN : Reconnect(ended, failed) PROVE Dates'
    <3>1. /\ wire' = <<>> /\ jobs' = jobs /\ pulls'.asker = Asking
          /\ pulls'.applier \in {NoPull, pulls.applier}
      BY <2>15 DEF Reconnect
    <3> QED
      BY <2>1, <2>15, <3>1, TakesDated, DatesMove DEF Dates
  <2> QED
    BY <2>1, <2>2, <2>4, <2>6, <2>8, <2>10, <2>11, <2>12, <2>13, <2>14, <2>15
       DEF Next, System, World, Computing, Serving, Applying
<1>3. EngineInv /\ ClientInv /\ Phases /\ Lineage /\ EngineInv' /\ ClientInv' /\ [Next]_vars
        => Lineage'
  BY <1>2 DEF Lineage
<1> QED
  BY <1>1, <1>3, PhasesHold, PTL DEF Spec

-----------------------------------------------------------------------------
(* Who brings the client the repository as it is                           *)

\* Nothing on its way clears what the client has.
Clears(n) == n.kind = "invalidate"
Quiet == /\ \A k \in DOMAIN wire : ~Clears(wire[k])
         /\ \A k \in DOMAIN jobs : ~Clears(jobs[k])

\* A push of it, with nothing behind that clears it; or the applier is at it.
Brings(n, g) == n.kind = "push" /\ n.page.branch = repo /\ n.page.generation = g
BroughtIn(seq, g) ==
  \E k \in DOMAIN seq : Brings(seq[k], g) /\ \A j \in DOMAIN seq : j > k => ~Clears(seq[j])
Sent(g) == \/ BroughtIn(wire, g)
           \/ (\A k \in DOMAIN wire : ~Clears(wire[k])) /\ BroughtIn(jobs, g)
Fits(p) == p.branch = repo /\ p # Asking /\ p.at \in {"ask", "commit"}
Applied(g) == Quiet /\ Fits(pulls.applier) /\ pulls.applier.cursor.generation = g
Carried(g) == Sent(g) \/ Applied(g)

\* Or whoever refreshes is, with a cursor that is known; or the store has it.
AskerFits ==
  Fits(pulls.asker) /\ (pulls.asker.at = "ask" => pulls.asker.cursor.generation = held.generation)
Stored == Quiet /\ projection = Snapshot(repo)

\* With nothing left to be told of, somebody brings it or the store has it; and whoever
\* refreshes has a cursor that is known, or need not.
Arriving ==
  (\E g \in Nat : Carried(g)) \/ Stored \/ (Quiet /\ (pulls.asker = Asking \/ AskerFits))
Refreshed == pulls.asker.at # "idle" /\ pulls.asker # Asking =>
               AskerFits \/ Carried(held.generation) \/ Stored
Brought == Still => Arriving /\ Refreshed

\* How it comes that nobody has anything left to be told.
LEMMA StillOn ==
  ASSUME EngineInv, Phases, [Next]_vars, Still'
  PROVE  \/ PumpPushes /\ Looked /\ ~Signals
         \/ ServeObserve /\ Before /\ ~lost
         \/ /\ Still
            /\ \/ Ask \/ (ServeObserve /\ observed) \/ ServeRead \/ ServeHold \/ ServePage
               \/ ServeWatched \/ Deliver \/ Invalidate \/ Apply \/ UNCHANGED vars
               \/ \E who \in {"applier", "asker"} : ServeCursor(who) \/ Commit(who)
<1>1. observed' /\ attached' /\ ~lost' /\ Looked' /\ ~Signals' /\ pump'.at = "idle"
  BY DEF Still, Looked
<1>2. CASE \/ SignalFires \/ WatchNudges \/ ServeWatch
           \/ \E index \in BOOLEAN, told \in {"none", "batch", "bulk"} :
                Change(index, told) /\ (index \/ told # "none")
           \/ \E ended, failed \in BOOLEAN : Reconnect(ended, failed)
  BY <1>1, <1>2, SignalsOn
<1>3. CASE Begin \/ PumpReads \/ PumpHolds
  <2>1. DOMAIN pump = {"at", "version"}
    BY DEF EngineInv, Threads
  <2>2. pump'.at \in {"read", "hold", "push"}
    BY <1>3, <2>1 DEF Begin, PumpReads, PumpHolds
  <2> QED
    BY <1>1, <2>2
<1>4. CASE PumpFails \/ ServeFails
  BY <1>1, <1>4 DEF PumpFails, ServeFails
<1>5. CASE ServeClose \/ ServeClosed
  BY <1>1, <1>5 DEF ServeClose, ServeClosed, Phases, Order
<1>6. CASE WatchInvalidates
  <2>1. /\ UNCHANGED <<repository, observed, co, pump>>
        /\ lost' = (lost \/ ~observed \/ ~(WillRead(co) \/ co.running))
    BY <1>6 DEF WatchInvalidates
  <2>2. WillRead(co) \/ co.running
    BY <1>1, <2>1
  <2>3. ~WillRead(co) /\ pump.at = "idle"
    BY <1>1, <2>1 DEF Signals, WillRead
  <2> QED
    BY <2>2, <2>3 DEF EngineInv, Coalesced
<1>7. CASE PumpPushes
  <2>1. /\ UNCHANGED <<repository, observed, dispatch, lost>> /\ co' = Finish(co)
    BY <1>7 DEF PumpPushes, ghosts
  <2>2. WillRead(co) => WillRead(co')
    BY <2>1, WillReadIs DEF EngineInv, Coalesced
  <2> QED
    BY <1>1, <1>7, <2>1, <2>2 DEF Looked, Signals, repository
<1>8. CASE ServeObserve
  <2>1. /\ UNCHANGED <<repo, signal, events, watched, pump>> /\ (lost => lost')
        /\ dispatch.at = "free" /\ dispatch'.at = "read"
        /\ observed => UNCHANGED <<attached, co>>
    BY <1>8 DEF ServeObserve, Observe, Free, At
  <2>2. CASE observed
    BY <1>1, <1>8, <2>1, <2>2 DEF Still, Looked, Signals
  <2>3. CASE ~observed
    BY <1>1, <1>8, <2>1, <2>3 DEF Before
  <2> QED
    BY <2>2, <2>3
<1>9. CASE \/ Ask \/ ServeRead \/ ServeHold \/ ServePage \/ ServeWatched \/ Deliver \/ Invalidate
           \/ Apply \/ UNCHANGED vars \/ \E who \in {"applier", "asker"} : ServeCursor(who) \/ Commit(who)
  <2>1. UNCHANGED <<repo, signal, events, attached, observed, co, pump>>
    BY <1>9 DEF Ask, ServeRead, ServeHold, ServePage, ServeWatched, Deliver, Invalidate, Apply,
                ServeCursor, Commit, vars, repository, engine
  <2>2. lost => lost'
    <3>1. CASE ServeHold \/ Deliver \/ \E who \in {"applier", "asker"} : ServeCursor(who) \/ Commit(who)
      BY <3>1 DEF ServeHold, Hold, Deliver, ServeCursor, Commit
    <3>2. CASE Ask \/ ServeRead \/ ServePage \/ ServeWatched \/ Invalidate \/ Apply \/ UNCHANGED vars
      BY <3>2 DEF Ask, ServeRead, ServePage, ServeWatched, Invalidate, Apply, vars, ghosts
    <3> QED
      BY <1>9, <3>1, <3>2
  <2>3. watched' \/ dispatch'.at = "watch" => watched \/ dispatch.at = "watch"
    <3>1. CASE ServeRead \/ ServeHold \/ ServePage \/ ServeWatched
      BY <3>1 DEF ServeRead, ServeHold, ServePage, ServeWatched, At, repository
    <3>2. CASE \/ Ask \/ Deliver \/ Invalidate \/ Apply \/ UNCHANGED vars
               \/ \E who \in {"applier", "asker"} : ServeCursor(who) \/ Commit(who)
      <4>1. UNCHANGED <<watched, dispatch>>
        BY <3>2 DEF Ask, Deliver, Invalidate, Apply, ServeCursor, Commit, vars, repository, engine
      <4> QED
        BY <4>1
    <3> QED
      BY <1>9, <3>1, <3>2
  <2> QED
    BY <1>1, <1>9, <2>1, <2>2, <2>3 DEF Still, Looked, Signals
<1> QED
  BY <1>2, <1>3, <1>4, <1>5, <1>6, <1>7, <1>8, <1>9
     DEF Next, System, World, Computing, Serving, Applying

\* Where nothing is sent or delivered, the same is on its way.
LEMMA WayStays ==
  ASSUME UNCHANGED <<wire, jobs, repo>>
  PROVE  (Quiet' <=> Quiet) /\ \A g : Sent(g)' <=> Sent(g)
BY DEF Quiet, Sent, BroughtIn, Brings, Clears

\* What is still there, is: the status held is the repository's, and all that is under way
\* has a date.
LEMMA StillIs ==
  ASSUME EngineInv, KnowInv, Lineage, Still
  PROVE  Dates /\ (dispatch.at \notin {"read", "hold"} => held.version = repo /\ held # NoneHeld)
BY DEF KnowInv, Told, Still, Signals, Looked, Lineage, Seen, EngineInv, Numbers, Threads, NoneHeld

\* A snapshot of which each page is the same has all of them.
LEMMA GotIs ==
  ASSUME NEW p, DatedPull(p), p.at = "commit"
  PROVE  [branch |-> p.branch, entries |-> p.got] = Snapshot(p.branch)
BY DEF DatedPull, OfOne, Entries, Snapshot

\* The first page taken, of a snapshot of at most two.
LEMMA FirstTaken ==
  ASSUME MaxPages >= 2, NEW q \in Pages
  PROVE  /\ Take(Asking, q).branch = q.branch /\ Take(Asking, q) # Asking
         /\ Take(Asking, q).at \in {"ask", "commit"}
         /\ Take(Asking, q).cursor.generation = q.generation
<1>1. Asking.at = "ask" /\ Asking.got = <<>> /\ IsPull(Asking) /\ Len(Asking.got) = 0
  BY PullsRest DEF Asking, NoPull
<1>2. ~(Len(Asking.got) + 1 >= MaxPages)
  BY <1>1, GitAssumption
<1> QED
  BY <1>1, <1>2, TakeIs

\* The second page taken, of the snapshot held.
LEMMA SecondTaken ==
  ASSUME EngineInv, NEW p, IsPull(p), DatedPull(p), p.at = "ask", p # Asking, Known(p.cursor)
  PROVE  LET r == Take(p, PageFrom(p.cursor.version))
         IN  r.at = "commit" /\ r # Asking /\ r.branch = p.branch
             /\ r.cursor.generation = held.generation /\ p.cursor.generation = held.generation
<1> DEFINE q == PageFrom(p.cursor.version)
           r == Take(p, q)
<1>1. /\ p.branch = held.version /\ Size(p.branch) = 2 /\ p.got = <<p.branch>> /\ p.got # <<>>
      /\ p.cursor.version = 1 /\ p.cursor.generation = held.generation
  <2>1. /\ Genuine(p.cursor.generation, p.branch) /\ Size(p.branch) = 2
        /\ p.got = <<p.branch>> /\ p.cursor.version = 1
    BY DEF DatedPull, OfOne
  <2>2. p.got # <<>>
    BY <2>1
  <2>3. p.cursor.generation = held.generation
    BY DEF Known
  <2> QED
    BY <2>1, <2>2, <2>3 DEF Genuine
<1>2. q \in Pages /\ q.next = 0 /\ q.generation = held.generation
  BY <1>1, PageIs
<1> HIDE DEF q
<1>3. r.at = "commit" /\ r # Asking /\ r.branch = p.branch /\ r.cursor.generation = held.generation
  BY <1>1, <1>2, TakeIs
<1> QED
  BY <1>1, <1>3 DEF q

\* A delivery keeps the order.
LEMMA DeliveryKeeps ==
  ASSUME Messages, wire # <<>>, wire' = Tail(wire), jobs' = Append(jobs, Head(wire)), repo' = repo
  PROVE  (Quiet => Quiet') /\ \A g : Sent(g) => Sent(g)'
<1>1. wire \in Seq(Notices) /\ jobs \in Seq(Notices)
  BY DEF Messages
<1>2. /\ 1 \in DOMAIN wire /\ Head(wire) = wire[1]
      /\ \A k \in DOMAIN wire' : k + 1 \in DOMAIN wire /\ wire'[k] = wire[k + 1]
      /\ \A k \in DOMAIN wire : k # 1 => k - 1 \in DOMAIN wire' /\ wire'[k - 1] = wire[k]
  BY <1>1
<1>3. /\ Len(jobs) + 1 \in DOMAIN jobs' /\ jobs'[Len(jobs) + 1] = wire[1]
      /\ \A k \in DOMAIN jobs' : (k \in DOMAIN jobs /\ jobs'[k] = jobs[k]) \/ k = Len(jobs) + 1
      /\ \A k \in DOMAIN jobs : k \in DOMAIN jobs' /\ jobs'[k] = jobs[k]
  BY <1>1, <1>2
<1>4. Quiet => Quiet'
  BY <1>2, <1>3 DEF Quiet
<1>5. ASSUME NEW g, BroughtIn(wire, g) PROVE Sent(g)'
  <2>1. PICK k \in DOMAIN wire : Brings(wire[k], g) /\ \A j \in DOMAIN wire : j > k => ~Clears(wire[j])
    BY <1>5 DEF BroughtIn
  <2>2. k \in Nat /\ k >= 1 /\ DOMAIN wire' \subseteq Nat
    BY <1>1, <1>2
  <2>3. CASE k = 1
    <3>1. \A j \in DOMAIN wire' : ~Clears(wire'[j])
      BY <1>2, <2>1, <2>2, <2>3
    <3>2. PICK m \in DOMAIN jobs' : jobs'[m] = wire[k] /\ \A j \in DOMAIN jobs' : ~(j > m)
      <4>1. \A j \in DOMAIN jobs' : ~(j > Len(jobs) + 1)
        BY <1>1, <1>3
      <4> QED
        BY <1>3, <2>3, <4>1
    <3> QED
      BY <2>1, <3>1, <3>2 DEF Sent, BroughtIn, Clears, Brings
  <2>4. CASE k # 1
    <3>1. \A j \in DOMAIN wire' : j > k - 1 => ~Clears(wire'[j])
      BY <1>2, <2>1, <2>2, <2>4
    <3>2. k - 1 \in DOMAIN wire' /\ wire'[k - 1] = wire[k]
      BY <1>2, <2>4
    <3> QED
      BY <2>1, <3>1, <3>2 DEF Sent, BroughtIn, Clears, Brings
  <2> QED
    BY <2>3, <2>4
<1>6. ASSUME NEW g, \A k \in DOMAIN wire : ~Clears(wire[k]), BroughtIn(jobs, g) PROVE Sent(g)'
  <2>1. PICK k \in DOMAIN jobs : Brings(jobs[k], g) /\ \A j \in DOMAIN jobs : j > k => ~Clears(jobs[j])
    BY <1>6 DEF BroughtIn
  <2>2. \A j \in DOMAIN wire' : ~Clears(wire'[j])
    BY <1>2, <1>6
  <2>3. \A j \in DOMAIN jobs' : j > k => ~Clears(jobs'[j])
    BY <1>2, <1>3, <1>6, <2>1
  <2>4. k \in DOMAIN jobs' /\ jobs'[k] = jobs[k]
    BY <1>3
  <2> QED
    BY <2>1, <2>2, <2>3, <2>4 DEF Sent, BroughtIn, Clears, Brings
<1> QED
  BY <1>4, <1>5, <1>6 DEF Sent

\* The applier takes what brings it, or leaves it where it was.
LEMMA TakingKeeps ==
  ASSUME Messages, jobs # <<>>, jobs' = Tail(jobs), wire' = wire, repo' = repo
  PROVE  /\ Quiet => Quiet'
         /\ \A g : Sent(g) => Sent(g)' \/ (Quiet' /\ Brings(jobs[1], g))
<1>1. wire \in Seq(Notices) /\ jobs \in Seq(Notices)
  BY DEF Messages
<1>2. /\ 1 \in DOMAIN jobs
      /\ \A k \in DOMAIN jobs' : k + 1 \in DOMAIN jobs /\ jobs'[k] = jobs[k + 1]
      /\ \A k \in DOMAIN jobs : k # 1 => k - 1 \in DOMAIN jobs' /\ jobs'[k - 1] = jobs[k]
  BY <1>1
<1>3. Quiet => Quiet'
  BY <1>2 DEF Quiet, Clears
<1>4. ASSUME NEW g, BroughtIn(wire, g) PROVE Sent(g)'
  BY <1>4 DEF Sent, BroughtIn, Clears, Brings
<1>5. ASSUME NEW g, \A k \in DOMAIN wire : ~Clears(wire[k]), BroughtIn(jobs, g)
      PROVE  Sent(g)' \/ (Quiet' /\ Brings(jobs[1], g))
  <2>1. PICK k \in DOMAIN jobs : Brings(jobs[k], g) /\ \A j \in DOMAIN jobs : j > k => ~Clears(jobs[j])
    BY <1>5 DEF BroughtIn
  <2>2. k \in Nat /\ k >= 1 /\ DOMAIN jobs' \subseteq Nat \ {0}
    BY <1>1, <1>2
  <2>3. \A j \in DOMAIN jobs' : j > k - 1 => ~Clears(jobs'[j])
    BY <1>2, <2>1, <2>2
  <2>4. CASE k = 1
    BY <1>5, <2>1, <2>2, <2>3, <2>4 DEF Quiet, Clears
  <2>5. CASE k # 1
    BY <1>2, <1>5, <2>1, <2>3, <2>5 DEF Sent, BroughtIn, Clears, Brings
  <2> QED
    BY <2>4, <2>5
<1> QED
  BY <1>3, <1>4, <1>5 DEF Sent

\* What is brought stays so while nothing is left to be told of, by cases of the next step.
LEMMA BroughtStays ==
  ASSUME MaxPages >= 2, EngineInv, ClientInv, KnowInv, Phases, Lineage, Brought, [Next]_vars, Still'
  PROVE  Arriving' /\ Refreshed'
<1> USE DEF Arriving, Refreshed, Carried
<1>1. Messages /\ repo \in Nat /\ held.generation \in Nat /\ held.version \in Nat
  BY DEF ClientInv, EngineInv, Numbers, Threads
<1>2. CASE PumpPushes /\ Looked /\ ~Signals
  <2> DEFINE n == [kind |-> "push", page |-> PageFrom(0)]
  <2>1. /\ pump.at = "push" /\ UNCHANGED <<repo, held>> /\ wire' = Append(wire, n)
    BY <1>2 DEF PumpPushes, repository
  <2>2. held.version = repo
    BY <1>2, <2>1 DEF Phases
  <2>3. n.kind = "push" /\ n.page.branch = repo /\ n.page.generation = held.generation
    BY <2>2, PageIs
  <2> HIDE DEF n
  <2>4. /\ Len(wire) + 1 \in DOMAIN wire' /\ wire'[Len(wire) + 1] = n
        /\ \A j \in DOMAIN wire' : ~(j > Len(wire) + 1)
    BY <1>1, <2>1 DEF Messages
  <2>5. Sent(held.generation)'
    BY <2>1, <2>3, <2>4 DEF Sent, BroughtIn, Brings
  <2>6. held'.generation \in Nat
    BY <1>1, <2>1
  <2> QED
    BY <2>1, <2>5, <2>6
<1>3. CASE ServeObserve /\ Before /\ ~lost
  <2>1. wire' = <<>> /\ jobs' = <<>> /\ pulls'.asker = Asking
    BY <1>3 DEF ServeObserve, Phases, Empty, First, client
  <2> QED
    BY <2>1 DEF Quiet
<1>4. CASE Still
  <2>1. Arriving /\ Refreshed /\ Dates
        /\ (dispatch.at \notin {"read", "hold"} => held.version = repo /\ held # NoneHeld)
    BY <1>4, StillIs DEF Brought
  <2>2. CASE UNCHANGED <<wire, jobs, repo, pulls, projection, held>>
    BY <2>1, <2>2, WayStays DEF Applied, AskerFits, Fits, Stored
  <2>3. CASE (ServeObserve /\ observed) \/ ServeRead \/ ServeWatched \/ UNCHANGED vars
    <3>1. UNCHANGED <<wire, jobs, repo, pulls, projection, held>>
      BY <2>3 DEF ServeObserve, ServeRead, ServeWatched, vars, repository, engine, client
    <3> QED
      BY <2>2, <3>1
  <2>4. CASE ServeHold
    <3>1. UNCHANGED <<wire, jobs, repo, pulls, projection>> /\ pulls.asker = Asking
      BY <2>4 DEF ServeHold, Phases, Order, repository, client
    <3> QED
      BY <2>1, <3>1, WayStays DEF Applied, Fits, Stored
  <2>5. CASE Ask
    <3>1. /\ UNCHANGED <<wire, jobs, repo, projection, held>> /\ pulls.asker.at = "idle"
          /\ pulls'.asker = Asking /\ pulls'.applier = pulls.applier
      BY <1>1, <2>5, Pulled DEF Ask, repository, engine
    <3> QED
      BY <2>1, <3>1, WayStays DEF Applied, Fits, Stored, AskerFits, Asking, NoPull
  <2>6. CASE ServePage
    <3>1. pulls.asker = Asking /\ held.version = repo
      BY <2>1, <2>6 DEF ServePage, Phases, Order
    <3>2. /\ UNCHANGED <<wire, jobs, repo, projection, held>>
          /\ pulls'.asker = Take(Asking, PageFrom(0)) /\ pulls'.applier = pulls.applier
      BY <1>1, <2>6, <3>1, Pulled DEF ServePage, First, repository
    <3>3. PageFrom(0) \in Pages /\ PageFrom(0).branch = repo /\ PageFrom(0).generation = held.generation
      BY <3>1, PageIs
    <3>4. AskerFits'
      BY <3>2, <3>3, FirstTaken DEF AskerFits, Fits
    <3> QED
      BY <2>1, <3>1, <3>2, <3>4, WayStays DEF Applied, Fits, Stored
  <2>7. CASE ServeCursor("asker")
    <3>1. /\ pulls.asker.at = "ask" /\ pulls.asker # Asking /\ dispatch.at = "free"
          /\ IsPull(pulls.asker) /\ DatedPull(pulls.asker) /\ held.version = repo /\ held # NoneHeld
          /\ UNCHANGED <<wire, jobs, repo, projection, held>>
      BY <1>1, <2>1, <2>7 DEF ServeCursor, First, Free, Messages, Dates, repository, engine
    <3>2. /\ pulls'.asker = IF Known(pulls.asker.cursor)
                            THEN Take(pulls.asker, PageFrom(pulls.asker.cursor.version)) ELSE NoPull
          /\ pulls'.applier = pulls.applier
      BY <1>1, <2>7, Pulled DEF ServeCursor
    <3>3. CASE Known(pulls.asker.cursor)
      <4>1. /\ pulls'.asker.at = "commit" /\ pulls'.asker # Asking
            /\ pulls'.asker.branch = pulls.asker.branch
            /\ pulls.asker.cursor.generation = held.generation
        BY <3>1, <3>2, <3>3, SecondTaken
      <4>2. pulls.asker.branch = repo
        BY <3>1, <4>1 DEF DatedPull, OfOne, Genuine
      <4>3. AskerFits'
        BY <3>1, <4>1, <4>2 DEF AskerFits, Fits
      <4> QED
        BY <2>1, <3>1, <3>2, <4>3, WayStays DEF Applied, Fits, Stored
    <3>4. CASE ~Known(pulls.asker.cursor)
      <4>1. ~AskerFits
        BY <3>1, <3>4 DEF AskerFits, Known
      <4>2. pulls'.asker.at = "idle"
        BY <3>2, <3>4 DEF NoPull
      <4>3. Carried(held.generation) \/ Stored
        BY <2>1, <3>1, <4>1
      <4> QED
        BY <1>1, <3>1, <3>2, <4>2, <4>3, WayStays DEF Applied, Fits, Stored
    <3> QED
      BY <3>3, <3>4
  <2>8. CASE ServeCursor("applier")
    <3>1. /\ pulls.applier.at = "ask" /\ pulls.applier # Asking /\ dispatch.at = "free"
          /\ IsPull(pulls.applier) /\ DatedPull(pulls.applier) /\ held.version = repo
          /\ held # NoneHeld /\ UNCHANGED <<wire, jobs, repo, projection, held>>
      BY <1>1, <2>1, <2>8 DEF ServeCursor, First, Free, Messages, Dates, repository, engine
    <3>2. /\ pulls'.applier = IF Known(pulls.applier.cursor)
                              THEN Take(pulls.applier, PageFrom(pulls.applier.cursor.version))
                              ELSE NoPull
          /\ pulls'.asker = pulls.asker
      BY <1>1, <2>8, Pulled DEF ServeCursor
    <3>3. CASE Known(pulls.applier.cursor)
      <4>1. /\ pulls'.applier.at = "commit" /\ pulls'.applier # Asking
            /\ pulls'.applier.branch = pulls.applier.branch
            /\ pulls'.applier.cursor.generation = pulls.applier.cursor.generation
        BY <3>1, <3>2, <3>3, SecondTaken
      <4>2. \A g : Applied(g) => Applied(g)'
        BY <3>1, <4>1, WayStays DEF Applied, Fits
      <4> QED
        BY <2>1, <3>1, <3>2, <4>2, WayStays DEF AskerFits, Fits, Stored
    <3>4. CASE ~Known(pulls.applier.cursor)
      <4>1. ~lost' /\ lost' = (lost \/ ~Coming)
        BY <2>8, <3>4 DEF ServeCursor, Still, Looked
      <4>2. Coming
        BY <4>1
      <4>3. ~Applied(held.generation)
        BY <3>1, <3>4 DEF Applied, Known
      <4>4. Refreshed'
        BY <2>1, <3>1, <3>2, <4>3, WayStays DEF AskerFits, Fits, Stored
      <4>5. CASE Stored \/ \E g \in Nat : Sent(g)
        BY <3>1, <4>4, <4>5, WayStays DEF Stored
      <4>6. CASE Quiet /\ (pulls.asker = Asking \/ AskerFits)
        BY <3>1, <3>2, <4>4, <4>6, WayStays DEF AskerFits, Fits
      <4>7. CASE Quiet /\ pulls.asker.at # "idle" /\ pulls.asker # Asking
        BY <1>1, <2>1, <4>3, <4>5, <4>6, <4>7
      <4>8. CASE Quiet /\ pulls.asker.at = "idle"
        <5>1. PICK seq \in {wire, jobs} : \E k \in DOMAIN seq :
                seq[k].kind = "push" /\ seq[k].page.generation = held.generation
          BY <1>4, <4>2, <4>8 DEF Coming, Still
        <5>2. \A k \in DOMAIN seq : /\ ~Clears(seq[k])
                                    /\ seq[k].kind = "push" => Dated(seq[k].page)
          BY <2>1, <4>8 DEF Quiet, Dates
        <5>3. \A q : Dated(q) /\ q.generation = held.generation => q.branch = repo
          BY <3>1 DEF Dated, FirstPage, Genuine
        <5>4. BroughtIn(seq, held.generation)
          BY <5>1, <5>2, <5>3 DEF BroughtIn, Brings
        <5>5. Sent(held.generation)
          BY <4>8, <5>1, <5>4 DEF Sent, Quiet
        <5> QED
          BY <1>1, <4>5, <5>5
      <4> QED
        BY <2>1, <4>5, <4>6, <4>7, <4>8 DEF Applied
    <3> QED
      BY <3>3, <3>4
  <2>9. CASE Deliver
    <3>1. /\ wire # <<>> /\ wire' = Tail(wire) /\ UNCHANGED <<repo, pulls, projection, held>>
          /\ jobs' = Append(jobs, Head(wire)) \/ lost'
      BY <2>9 DEF Deliver, repository, engine
    <3>2. (Quiet => Quiet') /\ \A g : Sent(g) => Sent(g)'
      BY <1>1, <3>1, DeliveryKeeps DEF Still, Looked
    <3> QED
      BY <2>1, <3>1, <3>2 DEF Applied, AskerFits, Fits, Stored
  <2>10. CASE Invalidate
    <3>1. /\ jobs # <<>> /\ jobs' = Tail(jobs) /\ UNCHANGED <<wire, repo, pulls, held>>
          /\ Head(jobs).kind = "invalidate"
      BY <2>10 DEF Invalidate, repository, engine
    <3>2. 1 \in DOMAIN jobs /\ jobs[1].kind = "invalidate"
      BY <1>1, <3>1 DEF Messages
    <3>3. ~Quiet /\ \A g : ~Brings(jobs[1], g)
      BY <3>2 DEF Quiet, Clears, Brings
    <3>4. \A g : Sent(g) => Sent(g)'
      BY <1>1, <3>1, <3>3, TakingKeeps
    <3> QED
      BY <2>1, <3>1, <3>3, <3>4 DEF Applied, AskerFits, Fits, Stored
  <2>11. CASE Apply
    <3>1. /\ jobs # <<>> /\ jobs' = Tail(jobs) /\ UNCHANGED <<wire, repo, projection, held>>
          /\ pulls.applier.at = "idle" /\ Head(jobs).kind = "push"
          /\ pulls'.asker = pulls.asker /\ pulls'.applier = Take(Asking, Head(jobs).page)
      BY <1>1, <2>11, Pulled DEF Apply, repository, engine
    <3>2. Head(jobs) = jobs[1] /\ jobs[1].kind = "push" /\ jobs[1] \in Notices
      BY <1>1, <3>1 DEF Messages
    <3>3. jobs[1].page \in Pages
      BY <3>2 DEF Notices
    <3>4. \A g : Quiet' /\ Brings(jobs[1], g) => Applied(g)'
      BY <3>1, <3>2, <3>3, FirstTaken DEF Applied, Fits, Brings
    <3>5. (Quiet => Quiet') /\ \A g : Carried(g) => Carried(g)'
      BY <1>1, <3>1, <3>4, TakingKeeps DEF Applied, Fits
    <3> QED
      BY <2>1, <3>1, <3>5 DEF AskerFits, Fits, Stored
  <2>12. ASSUME NEW who \in {"applier", "asker"}, Commit(who) PROVE Arriving' /\ Refreshed'
    <3>1. /\ pulls[who].at = "commit" /\ Pulls(who, NoPull) /\ UNCHANGED <<wire, jobs, repo, held>>
          /\ projection' = [branch |-> pulls[who].branch, entries |-> pulls[who].got]
          /\ lost' = (lost \/ projection.branch > pulls[who].branch)
      BY <2>12 DEF Commit, repository, engine
    <3>2. pulls'[who].at = "idle" /\ \A w \in {"applier", "asker"} \ {who} : pulls'[w] = pulls[w]
      BY <1>1, <3>1, Pulled DEF NoPull
    <3>3. projection' = Snapshot(pulls[who].branch) /\ pulls[who].branch \in 1 .. repo
      BY <2>1, <3>1, GotIs DEF Dates, DatedPull, OfOne
    <3>4. ~(projection.branch > pulls[who].branch)
      BY <3>1 DEF Still, Looked
    <3>5. Stored => Stored'
      <4>1. projection = Snapshot(repo) => projection.branch = repo
        BY DEF Snapshot
      <4>2. projection = Snapshot(repo) => pulls[who].branch = repo
        BY <1>1, <3>3, <3>4, <4>1
      <4> QED
        BY <3>1, <3>3, <4>2, WayStays DEF Stored
    <3>6. Quiet /\ pulls[who].branch = repo => Stored'
      BY <3>1, <3>3, WayStays DEF Stored
    <3>7. \A g : Sent(g) => Sent(g)'
      BY <3>1, WayStays
    <3>8. CASE who = "asker"
      <4>1. pulls'.asker.at = "idle" /\ pulls'.applier = pulls.applier
        BY <3>2, <3>8
      <4>2. pulls.asker.at = "commit" /\ pulls.asker # Asking
        BY <3>1, <3>8 DEF Asking, NoPull
      <4>3. \A g : Carried(g) => Carried(g)'
        BY <3>1, <3>7, <4>1, WayStays DEF Applied, Fits
      <4>4. AskerFits \/ Carried(held.generation) \/ Stored
        BY <2>1, <4>2
      <4>5. AskerFits => Stored' \/ \E g \in Nat : Carried(g)
        BY <2>1, <3>5, <3>6, <3>8 DEF AskerFits, Fits, Stored, Applied
      <4> QED
        BY <1>1, <3>5, <4>1, <4>3, <4>4, <4>5
    <3>9. CASE who = "applier"
      <4>1. pulls'.applier.at = "idle" /\ pulls'.asker = pulls.asker
        BY <3>2, <3>9
      <4>2. \A g : Carried(g) => Sent(g)' \/ Stored'
        BY <3>6, <3>7, <3>9 DEF Applied, Fits
      <4>3. (AskerFits => AskerFits') /\ (Quiet => Quiet') /\ held' = held
        BY <3>1, <4>1, WayStays DEF AskerFits, Fits
      <4> QED
        BY <2>1, <3>5, <4>1, <4>2, <4>3
    <3> QED
      BY <3>8, <3>9
  <2> HIDE DEF Arriving, Refreshed, Carried
  <2> QED
    BY <1>2, <1>3, <1>4, StillOn, <2>3, <2>4, <2>5, <2>6, <2>7, <2>8, <2>9, <2>10, <2>11, <2>12
<1> QED
  BY <1>2, <1>3, <1>4, StillOn

\* The view shows the store, unless a commit was not announced.
Viewed == ~behind => shown = projection

LEMMA BroughtHolds ==
  ASSUME MaxPages >= 2
  PROVE  Spec => [](EngineInv /\ ClientInv /\ Phases /\ KnowInv /\ Lineage /\ Brought)
<1>1. Init => Brought
  BY DEF Init, Brought, Still, Looked
<1>2. EngineInv /\ ClientInv /\ Phases /\ KnowInv /\ Lineage /\ Brought /\ [Next]_vars => Brought'
  BY BroughtStays DEF Brought
<1> QED
  BY <1>1, <1>2, LineageHolds, KnowHolds, PTL DEF Spec

LEMMA ViewedHolds == Spec => []Viewed
<1>1. Init => Viewed
  BY DEF Init, Viewed
<1>2. Viewed /\ [Next]_vars => Viewed'
  <2> SUFFICES ASSUME Viewed, [Next]_vars PROVE Viewed'
    OBVIOUS
  <2>1. CASE UNCHANGED <<shown, projection, behind>>
    BY <2>1 DEF Viewed
  <2>2. CASE \/ \E index \in BOOLEAN, told \in {"none", "batch", "bulk"} : Change(index, told)
             \/ SignalFires \/ WatchNudges \/ WatchInvalidates \/ Computing \/ PumpFails
             \/ ServeObserve \/ ServeRead \/ ServeHold \/ ServePage \/ ServeFails \/ ServeWatch
             \/ ServeWatched \/ ServeClose \/ ServeClosed \/ Ask \/ Deliver \/ Apply \/ UNCHANGED vars
    <3>1. UNCHANGED <<shown, projection, behind>>
      BY <2>2 DEF Change, SignalFires, WatchNudges, WatchInvalidates, Computing, Begin, PumpReads,
                  PumpHolds, PumpPushes, Hold, PumpFails, ServeObserve, ServeRead, ServeHold,
                  ServePage, ServeFails, ServeWatch, ServeWatched, ServeClose, ServeClosed, Ask,
                  Deliver, Apply, client, ghosts, vars
    <3> QED
      BY <2>1, <3>1
  <2>3. CASE Invalidate
    BY <2>3 DEF Invalidate, Viewed
  <2>4. CASE \E who \in {"applier", "asker"} : ServeCursor(who) \/ Commit(who)
    BY <2>4 DEF ServeCursor, Commit, Announced, ViewReads, Untold, Viewed
  <2>5. CASE \E ended, failed \in BOOLEAN : Reconnect(ended, failed)
    BY <2>5 DEF Reconnect, Announced, ViewReads, Untold, Viewed
  <2> QED
    BY <2>2, <2>3, <2>4, <2>5 DEF Next, System, World, Computing, Serving, Applying
<1> QED
  BY <1>1, <1>2, PTL DEF Spec

\* At rest the store holds the repository as it is, whatever pushes, invalidations, pages and
\* refreshes crossed on the way, and the view shows the store unless the last commit was not
\* announced (SettledIsShown). A snapshot has two pages at most, so a client that may pull two
\* never gives up.
THEOREM TheRepositoryIsShown ==
  ASSUME MaxPages >= 2
  PROVE  Spec => []SettledIsShown
<1>1. ClientInv /\ Brought /\ Viewed => SettledIsShown
  <2> SUFFICES ASSUME ClientInv, Brought, Viewed, Resting, Covered
               PROVE  projection = Snapshot(repo) /\ (~behind => shown = projection)
    BY DEF SettledIsShown
  <2>1. wire = <<>> /\ jobs = <<>> /\ Still /\ pulls.applier.at = "idle" /\ pulls.asker.at = "idle"
    BY DEF Resting, Covered, Still, Looked, Signals, ClientInv, Messages
  <2>2. /\ \A g : ~Carried(g)
        /\ ~AskerFits /\ pulls.asker # Asking
    BY <2>1 DEF Carried, Sent, BroughtIn, Applied, AskerFits, Fits, Asking, NoPull
  <2>3. Stored
    BY <2>1, <2>2 DEF Brought, Arriving
  <2> QED
    BY <2>3 DEF Stored, Viewed
<1> QED
  BY <1>1, BroughtHolds, ViewedHolds, PTL
=============================================================================
