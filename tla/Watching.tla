------------------------------ MODULE Watching ------------------------------
(***************************************************************************)
(* File watching on the host: the WatchSet and its reference counts        *)
(* (domain/watch.rs, use_cases/watch.rs), the inotify adapter, the thread  *)
(* of one workspace (watch_thread.rs) with its Coalescer, and the registry *)
(* of those threads (watchers.rs).                                         *)
(*                                                                         *)
(* The host is a root directory with files and one directory Sub that may  *)
(* be removed and made again; the kernel's queue is bounded. The client    *)
(* asks for paths and applies what it is told to what it holds.            *)
(***************************************************************************)
EXTENDS Coalescer

CONSTANTS
  Root, Sub,       \* the directories
  TopFiles,        \* the files of Root
  SubFiles,        \* the files of Sub
  Excluded,        \* the paths the exclusions match
  QueueLimit,      \* fs.inotify.max_queued_events
  MaxSteps         \* bound: changes on the host and requests of the client

Files == TopFiles \cup SubFiles
Paths == Files \cup {Sub}
ASSUME PathsAreDistinct == Root \notin Paths /\ Sub \notin Files /\ TopFiles \cap SubFiles = {}

VARIABLES
  exists,       \* the paths there are
  life,         \* which Sub this is: a directory made again is another one
  queue,        \* the kernel's queue
  dropped,      \* the kernel had to drop events
  directories,  \* InotifyWatcher.directories: descriptor -> directory
  ids,          \* InotifyWatcher.ids: id -> descriptor
  adapterNext,  \* InotifyWatcher.next
  set,          \* WatchSet.watches: directory -> [id, reasons]
  setNext,      \* WatchSet.next
  co,           \* the Coalescer
  service,      \* Watchers.services has the workspace
  wanted,       \* the paths the client has asked for
  granted,      \* those of them whose directories were all acquired
  unbalanced,   \* a path that was never granted has been released
  view,         \* the paths the client has been told of
  stale,        \* the paths written since the client was last told
  crossed,      \* the paths whose events the coalescer put out of order
  steps

host == <<exists, life, queue, dropped>>
asked == <<service, wanted, granted, unbalanced>>
registered == <<directories, ids, adapterNext, set, setNext>>
vars == <<host, registered, co, asked, view, stale, crossed, steps>>

Parent(p) == IF p \in SubFiles THEN Sub ELSE Root
Inode(d) == <<d, IF d = Sub THEN life ELSE 0>>
Step == steps < MaxSteps /\ steps' = steps + 1
-----------------------------------------------------------------------------
(* The host.                                                               *)

\* A descriptor is of one inode, and given out once: a directory that is watched again
\* after its watch was removed has another. It reports while its directory is there.
Descriptors(known, d) == {wd \in DOMAIN known : <<wd[1], wd[2]>> = Inode(d)}
Reports(d) == Descriptors(directories, d) # {} /\ (d = Sub => Sub \in exists)
Seen(d, mask, p, cookie) ==
  IF Reports(d)
  THEN <<[wd |-> CHOOSE wd \in Descriptors(directories, d) : TRUE, mask |-> mask, path |-> p,
          cookie |-> cookie]>>
  ELSE <<>>
SelfGone == Seen(Sub, "deleteSelf", Sub, 0) \o Seen(Sub, "ignored", Sub, 0)

\* The kernel appends, but for an event that repeats the last one; a full
\* queue takes one overflow event, which names no descriptor.
Overflow == [wd |-> <<"none", 0, 0>>, mask |-> "overflow", path |-> Root, cookie |-> 0]
KernelPut(q, e) ==
  IF q # <<>> /\ Last(q) = e THEN q
  ELSE IF Len(q) < QueueLimit THEN Append(q, e)
  ELSE IF Last(q) = Overflow THEN q ELSE Append(q, Overflow)
Reported(events) == /\ queue' = Fold(KernelPut, queue, events)
                    /\ dropped' = (dropped \/ Overflow \in Range(queue'))

Changed(p) == stale' = IF Reports(Parent(p)) THEN stale \cup {p} ELSE stale

CreateFile(p) == /\ Step /\ p \notin exists /\ Parent(p) \in exists \cup {Root}
                 /\ exists' = exists \cup {p} /\ Changed(p)
                 /\ Reported(Seen(Parent(p), "create", p, 0) \o Seen(Parent(p), "modify", p, 0))
                 /\ UNCHANGED <<life, registered, co, asked, view, crossed>>

\* Writing a file that is being written already costs no step: it may go on.
Write(p) == /\ p \in exists /\ Changed(p)
            /\ \/ p \in stale /\ Len(queue) < QueueLimit /\ steps' = steps
               \/ p \notin stale /\ Step
            /\ Reported(Seen(Parent(p), "modify", p, 0))
            /\ UNCHANGED <<exists, life, registered, co, asked, view, crossed>>

Delete(p) == /\ Step /\ p \in exists /\ exists' = exists \ {p} /\ stale' = stale \ {p}
             /\ Reported(Seen(Parent(p), "delete", p, 0))
             /\ UNCHANGED <<life, registered, co, asked, view, crossed>>

Cookies == {e.cookie : e \in Range(queue)} \cup DOMAIN co.from \cup DOMAIN co.to
Unused == CHOOSE k \in 1..(2 * MaxSteps + 1) : k \notin Cookies
Move(p, q) == /\ Step /\ p \in exists /\ p # q /\ Parent(q) \in exists \cup {Root}
              /\ exists' = (exists \ {p}) \cup {q}
              /\ stale' = IF Reports(Parent(q)) THEN (stale \ {p}) \cup {q} ELSE stale \ {p}
              /\ Reported(Seen(Parent(p), "movedFrom", p, Unused)
                            \o Seen(Parent(q), "movedTo", q, Unused))
              /\ UNCHANGED <<life, registered, co, asked, view, crossed>>

MakeSub == /\ Step /\ Sub \notin exists
           /\ exists' = exists \cup {Sub} /\ life' = life + 1
           /\ Reported(Seen(Root, "create", Sub, 0))
           /\ UNCHANGED <<registered, co, asked, view, stale, crossed>>

RemoveSub == /\ Step /\ Sub \in exists /\ exists \cap SubFiles = {}
             /\ exists' = exists \ {Sub}
             /\ Reported(SelfGone \o Seen(Root, "delete", Sub, 0))
             /\ UNCHANGED <<life, registered, co, asked, view, stale, crossed>>
-----------------------------------------------------------------------------
(* The registrations of one thread: [set, setNext, directories, ids, next].*)

Registrations == [set |-> set, setNext |-> setNext, directories |-> directories,
                  ids |-> ids, next |-> adapterNext]
Keep(r) == /\ set' = r.set /\ setNext' = r.setNext
           /\ directories' = r.directories /\ ids' = r.ids /\ adapterNext' = r.next
Nothing == [k \in {} |-> 0]
Put(f, k, v) == [x \in DOMAIN f \cup {k} |-> IF x = k THEN v ELSE f[x]]
Drop(f, k) == Restrict(f, DOMAIN f \ {k})

\* directories_for: the directory of a path and those above it.
DirectoriesFor(p) == IF p = Sub \/ p \in SubFiles THEN {Sub, Root} ELSE {Root}

\* InotifyWatcher::watch and unwatch.
AdapterWatch(r, d) ==
  LET there == Descriptors(r.directories, d)
      wd == IF there # {} THEN CHOOSE w \in there : TRUE ELSE Append(Inode(d), r.next + 1)
  IN  [r EXCEPT !.next = @ + 1, !.directories = Put(@, wd, d), !.ids = Put(@, r.next + 1, wd)]
AdapterUnwatch_Wrong(r, id) == [r EXCEPT !.ids = Drop(@, id)]
AdapterUnwatch(r, id) ==
  IF id \in DOMAIN r.ids
  THEN [r EXCEPT !.ids = Drop(@, id), !.directories = Drop(@, r.ids[id])] ELSE r

\* WatchSet::acquire counts; a directory new to the set is watched, and
\* released again when the kernel refuses.
Acquire(r, d, full) ==
  IF d \in DOMAIN r.set THEN [r EXCEPT !.set[d].reasons = @ + 1]
  ELSE IF d \in full THEN [r EXCEPT !.setNext = @ + 1]
  ELSE AdapterWatch([r EXCEPT
         !.setNext = @ + 1, !.set = Put(@, d, [id |-> r.setNext + 1, reasons |-> 1])], d)

\* watch_paths, of one path: from its directory up. One refusal ends it.
WatchPath(r, p, full) ==
  LET below == IF Sub \in DirectoriesFor(p) THEN Acquire(r, Sub, full) ELSE r
  IN  IF DirectoriesFor(p) \ {Root} \subseteq DOMAIN below.set
      THEN Acquire(below, Root, full) ELSE below
\* Of all that is wanted: each path that needs a directory is a reason for it.
Needing(paths, d) == Cardinality({p \in paths \cap (exists \ Excluded) : d \in DirectoriesFor(p)})
AcquireAll(r, d, n) ==
  IF n = 0 THEN r
  ELSE [Acquire(r, d, {}) EXCEPT !.set[d].reasons = @ + n - 1]

\* WatchSet::release, and the adapter's unwatch when no reason is left.
Release_Wrong(r, d) ==
  IF d \notin DOMAIN r.set THEN r
  ELSE AdapterUnwatch([r EXCEPT !.set = Drop(@, d)], r.set[d].id)
Release(r, d) ==
  IF d \notin DOMAIN r.set THEN r
  ELSE IF r.set[d].reasons > 1 THEN [r EXCEPT !.set[d].reasons = @ - 1]
  ELSE AdapterUnwatch([r EXCEPT !.set = Drop(@, d)], r.set[d].id)
UnwatchPath(r, p) ==
  LET below == IF Sub \in DirectoriesFor(p) THEN Release(r, Sub) ELSE r
  IN  IF p \in exists THEN Release(below, Root) ELSE r

\* with_service: a request finds its thread, or starts one. What a directory
\* new to the adapter holds is read by the client at that moment; what the coalescer has
\* of it, from when it was watched before, is told all the same.
PathsOf(halves) == {h.path : h \in Range(halves)}
Outstanding == UNION {MentionedBy(e) : e \in Range(co.pending)}
                 \cup PathsOf(co.from) \cup PathsOf(co.to)
Request(r) ==
  LET new == {p \in Paths : /\ Descriptors(r.directories, Parent(p)) # {}
                            /\ Descriptors(directories, Parent(p)) = {}}
  IN  /\ Keep(r) /\ service' = TRUE
      /\ view' = (view \ new) \cup (exists \cap new) /\ stale' = stale \ new
      /\ crossed' = crossed \cup (new \cap Outstanding)
      /\ UNCHANGED <<host, co>>

Watch(p, full) ==
  /\ Step /\ p \notin wanted /\ wanted' = wanted \cup {p}
  /\ \E r \in {IF p \in exists \ Excluded THEN WatchPath(Registrations, p, full) ELSE Registrations} :
       /\ Request(r)
       /\ granted' = IF p \in exists \ Excluded /\ DirectoriesFor(p) \subseteq DOMAIN r.set
                     THEN granted \cup {p} ELSE granted
  /\ UNCHANGED unbalanced

\* After a reconnection the client asks for everything again, in any order: Root comes
\* first when the first path needs no other directory.
Reestablish ==
  /\ Step /\ wanted # {}
  /\ \E order \in {<<Sub, Root>>} \cup
                   (IF Needing(wanted, Root) > Needing(wanted, Sub) THEN {<<Root, Sub>>} ELSE {}) :
       \E r \in {AcquireAll(Registrations, order[1], Needing(wanted, order[1]))} :
         \E s \in {AcquireAll(r, order[2], Needing(wanted, order[2]))} : Request(s)
  /\ UNCHANGED <<wanted, granted, unbalanced>>

Unwatch(p) == /\ Step /\ p \in wanted /\ wanted' = wanted \ {p}
              /\ unbalanced' = (unbalanced \/ p \in exists \ granted)
              /\ granted' = granted \ {p}
              /\ \E r \in {UnwatchPath(Registrations, p)} : Request(r)

\* forget: the thread releases everything and ends; what was pending goes.
Forget == /\ Step /\ service
          /\ service' = FALSE /\ wanted' = {} /\ granted' = {} /\ unbalanced' = FALSE
          /\ Keep([set |-> Nothing, setNext |-> 0, directories |-> Nothing, ids |-> Nothing, next |-> 0])
          /\ co' = Fresh /\ view' = {} /\ stale' = {} /\ crossed' = {}
          /\ queue' = <<>> /\ dropped' = FALSE
          /\ UNCHANGED <<exists, life>>
-----------------------------------------------------------------------------
(* The thread.                                                             *)

\* poll: an event of a descriptor it does not know is passed over.
KindOf(mask) == CASE mask = "overflow" -> "overflow"
                  [] mask = "create" -> "created"
                  [] mask = "movedFrom" -> "movedFrom"
                  [] mask = "movedTo" -> "movedTo"
                  [] mask \in {"delete", "deleteSelf"} -> "deleted"
                  [] OTHER -> "modified"
Known(e) == e.wd \in DOMAIN directories
Poll == LET known == SelectSeq(queue, Known) IN
  [i \in DOMAIN known |-> [kind |-> KindOf(known[i].mask), path |-> known[i].path,
                           cookie |-> known[i].cookie]]

\* What the client makes of one event, and of an invalidation: it reads again.
Tell(seen, e) ==
  CASE e.event.kind = "created" ->
         [view |-> seen.view \cup {e.path}, stale |-> seen.stale \ {e.path}]
    [] e.event.kind = "modified" -> [view |-> seen.view, stale |-> seen.stale \ {e.path}]
    [] e.event.kind = "deleted" -> [view |-> seen.view \ {e.path}, stale |-> seen.stale \ {e.path}]
    [] e.event.kind = "renamed" ->
         [view |-> (seen.view \ {e.path}) \cup {e.event.to},
          stale |-> seen.stale \ {e.path, e.event.to}]
    [] OTHER -> [view |-> exists, stale |-> {}]

\* One turn of the loop: poll, the exclusions, accept each, drain, send.
LeftToOthers(c) == {p \in PathsOf(c.from) \cup PathsOf(c.to) :
                      \/ p \in PathsOf(c.from) \cap PathsOf(c.to)
                      \/ \E e \in Range(c.pending) : p \in MentionedBy(e)}
Accepted(s, raw) == LET c == Accept(s.co, raw) IN
  [co |-> c, crossed |-> s.crossed \cup Overtakes(s.co, raw, c)]
Drained(s) ==
  LET d == DrainDue(s.co)
      told == Fold(Tell, [view |-> view, stale |-> stale], d.events)
  IN  [co |-> d.c, view |-> told.view, stale |-> told.stale,
       crossed |-> IF Bulk(s.co) THEN {}
                   ELSE s.crossed \cup LeftToOthers(s.co)]
Awake == service /\ (queue # <<>> \/ NextDeadline(co))
Turn ==
  /\ Awake
  /\ LET raws == SelectSeq(Poll, LAMBDA r : r.path \notin Excluded)
     IN  \E t \in {Drained(Fold(Accepted, [co |-> co, crossed |-> crossed], raws))} :
           co' = t.co /\ view' = t.view /\ stale' = t.stale /\ crossed' = t.crossed
  /\ queue' = <<>>
  /\ UNCHANGED <<exists, life, dropped, registered, asked, steps>>

Tick == /\ service /\ (co.pending # <<>> \/ DOMAIN co.from \cup DOMAIN co.to # {} \/ DOMAIN co.recent # {})
        /\ co' = Elapse(co)
        /\ UNCHANGED <<host, registered, asked, view, stale, crossed, steps>>
-----------------------------------------------------------------------------
Init == /\ exists \in {{Sub}, TopFiles, TopFiles \cup {Sub}} /\ life = 0
        /\ queue = <<>> /\ dropped = FALSE
        /\ directories = Nothing /\ ids = Nothing /\ adapterNext = 0
        /\ set = Nothing /\ setNext = 0 /\ co = Fresh /\ service = FALSE
        /\ wanted = {} /\ granted = {} /\ unbalanced = FALSE
        /\ view = {} /\ stale = {} /\ crossed = {} /\ steps = 0

Changes == \/ \E p \in Files : CreateFile(p) \/ Write(p) \/ Delete(p) \/ \E q \in Files : Move(p, q)
           \/ MakeSub \/ RemoveSub
Requests == \/ \E p \in Paths : Unwatch(p) \/ \E full \in {{}, {Root}, {Sub}} : Watch(p, full)
            \/ Reestablish \/ Forget
Next == Changes \/ Requests \/ Turn \/ Tick
\* The thread runs: WF_vars(Turn), spelled out, for Turn is enabled exactly
\* when the thread is awake. And the clock goes on.
ThreadRuns == []<>~Awake \/ []<><<Turn>>_vars
Spec == Init /\ [][Next]_vars /\ ThreadRuns /\ WF_vars(Tick)
-----------------------------------------------------------------------------

\* Types, and what ties the parts together: no path is pending twice, no move is
\* both halves, a thread that is not there has nothing pending.
TypeOK ==
  /\ exists \subseteq Paths /\ life \in 0..MaxSteps
  /\ Len(queue) <= QueueLimit + 1 /\ dropped \in BOOLEAN
  /\ DOMAIN set \subseteq {Root, Sub} /\ \A d \in DOMAIN set : set[d].reasons \in 1..(3 * MaxSteps)
  /\ \A d \in DOMAIN set : set[d].id \in 1..setNext
  /\ DOMAIN ids \subseteq 1..adapterNext
  /\ \A i, j \in DOMAIN co.pending : co.pending[i].path = co.pending[j].path => i = j
  /\ DOMAIN co.from \cap DOMAIN co.to = {}
  /\ granted \subseteq wanted /\ wanted \subseteq Paths /\ view \subseteq Paths
  /\ service \in BOOLEAN /\ (~service => co = Fresh /\ directories = Nothing)

\* A watched path is known for what it is once nothing is on its way: there
\* when it is there, and not written to since. Not so where the kernel had to
\* drop events (poll passes over the event that says so) and for the paths
\* whose events the coalescer puts out of order around a move. (And the state is as
\* TypeOK has it.)
Settled == queue = <<>> /\ Quiet(co)
ToldAtRest ==
  TypeOK /\ ((service /\ Settled /\ ~dropped) =>
               \A p \in Paths \ (Excluded \cup crossed) :
                 Reports(Parent(p)) => (p \in view <=> p \in exists) /\ p \notin stale)

\* A granted path keeps its kernel watches as long as it is granted: of its directory and of
\* those above it, the set has an entry (the counts of WatchSet follow acquisitions and
\* releases) and the adapter still holds a descriptor. Not so once a path that was refused
\* or excluded has been released; and once the kernel refused a watch, which only the set
\* numbers, only the entry is certain. (The descriptor of a directory that was removed and
\* made again is of the one that is gone: RemadeIsWatched.)
GrantedIsWatched ==
  ~unbalanced =>
    \A p \in granted : \A d \in DirectoriesFor(p) :
      /\ d \in DOMAIN set
      /\ setNext = adapterNext => \E wd \in DOMAIN directories : wd[1] = d

\* The set and the adapter number the watches apart, and agree on every one of
\* them: what the set releases is the watch of that directory, and none is
\* left over. Not so once the kernel refused one, which only the set numbers.
NumbersAgree ==
  setNext = adapterNext =>
    /\ \A d \in DOMAIN set : /\ set[d].id \in DOMAIN ids
                             /\ ids[set[d].id][1] = d
    /\ DOMAIN ids = {set[d].id : d \in DOMAIN set}
    /\ DOMAIN directories = Range(ids)

\* A file that is written, however long the writing goes on, is told of: the
\* instant of an entry is set by its first event.
WritingIsTold ==
  \A p \in Files \ Excluded :
    p \in stale ~> (p \notin stale \/ dropped \/ p \in crossed \/ ~Reports(Parent(p)))

\* What poll drops: the specification has a dropped queue told as invalidateAll.
DroppedIsTold == (service /\ Settled) =>
  \A p \in TopFiles \ (Excluded \cup crossed) : Reports(Root) => (p \in view <=> p \in exists)

\* What a directory made again would need: acquire counts a directory the set has, and
\* watches only a new one.
RemadeIsWatched ==
  (~unbalanced /\ setNext = adapterNext) =>
    \A p \in granted : \A d \in DirectoriesFor(p) : Descriptors(directories, d) # {}

\* What a refusal would need: unwatch ends the watch of what was released, whatever the
\* kernel refused before.
RefusedEndsNoOther ==
  ~unbalanced => \A p \in granted : \A d \in DirectoriesFor(p) : \E wd \in DOMAIN directories : wd[1] = d
=============================================================================
