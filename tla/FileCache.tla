------------------------------ MODULE FileCache ------------------------------
(* Files and listings of the host as the client answers them from its cache: *)
(* reads confirmed by a digest, reads of the engine made in three steps,     *)
(* listings, saves, the prefetch that follows a connection, and the cache    *)
(* store's own life - opened, migrated, rebuilt, evicted, and left by a      *)
(* client that ends between any two steps.                                   *)
(*                                                                           *)
(* The engine's answer and the client's use of it are separate steps, and so *)
(* are the reads of the disk one answer is made of: the host changes in      *)
(* between.                                                                  *)
EXTENDS CacheStore

CONSTANTS Files, Dirs,      \* the paths of the host: files, and directories below the root
          Contents,         \* what a file may hold
          Manifests,        \* the files prefetched by their name
          Recent,           \* the sequence of files git names as lately changed
          InlineRead,       \* a longer file is fetched in bulk
          Chunk,            \* the length of a range the prefetch reads
          PrefetchBudget,
          MaxSteps          \* bound: changes, calls, losses and ends
ASSUME CacheAssumption ==
    /\ Files \cap Dirs = {} /\ Root \notin Files \cup Dirs /\ Manifests \subseteq Files
    /\ Contents \subseteq Seq(Nat) /\ Chunk \in Nat \ {0} /\ MaxSteps \in Nat

VARIABLES host,     \* what each file holds, or nothing
          up,       \* the connection
          disk,     \* what lies where the store is kept, and whether its log does
          store,    \* the store that is open
          app,      \* the client: its phase, its run, and where its store is
          read,     \* the one read of a file in flight, or its answer
          save,     \* the one save in flight
          fetch,    \* listings asked of the engine: by the tree, by the prefetch
          pre,      \* the prefetch
          owed,     \* edits retained and not confirmed, deleted or discarded
          spent
vars == <<host, up, disk, store, app, read, save, fetch, pre, owed, spent>>

Absent == <<>>              \* a file that is not there; an empty file is not in Contents
Spend == spent < MaxSteps /\ spent' = spent + 1
Ready == app.phase = "ready"
Online == Ready /\ up

\* The store is written where it lies: to the disk, or to memory and a file
\* that is no longer linked, which end with the client.
Put(s) ==
    /\ store' = s
    /\ disk' = IF app.kept THEN [disk EXCEPT !.held = {s}] ELSE disk

Quiet == [at |-> "idle", path |-> Root, whole |-> TRUE, entry |-> {}, size |-> 0,
          bytes |-> <<>>, hash |-> <<>>, how |-> "none", seen |-> {}, raced |-> FALSE]
NoSave == [at |-> "idle", path |-> Root, text |-> <<>>, base |-> <<>>, heard |-> TRUE]
NoFetch == [at |-> "idle", dir |-> Root, listing |-> <<>>]
NoPrefetch == [at |-> "idle", left |-> <<>>, chain |-> <<>>, got |-> <<>>, first |-> {},
               size |-> 0, part |-> <<>>]
Rested == /\ read' = Quiet /\ save' = NoSave /\ pre' = NoPrefetch
          /\ fetch' = [x \in {"tree", "prefetch"} |-> NoFetch]
Fetching(x) == fetch[x].at # "idle"

-----------------------------------------------------------------------------
(* The client's start: open, migrate, rebuild what cannot be read, evict.    *)

\* An empty database takes no log: what was left of one is removed with it.
Opened == IF disk.held = {} THEN Created ELSE CHOOSE s \in disk.held : TRUE

Open ==
    /\ app.phase = "stopped"
    /\ IF disk.torn
       THEN app' = [app EXCEPT !.phase = "discard", !.then = "open", !.run = @ + 1]
            /\ UNCHANGED <<disk, store>>
       ELSE /\ app' = [app EXCEPT !.phase = "migrate", !.kept = TRUE, !.run = @ + 1]
            /\ store' = Opened
            /\ disk' = [disk EXCEPT !.held = {Opened}, !.log = disk.held # {}]
    /\ UNCHANGED <<host, up, read, save, fetch, pre, owed, spent>>

\* Discarding removes the database, then its log. The client may end between.
Discard ==
    /\ app.phase = "discard"
    /\ IF disk.held # {} \/ disk.torn
       THEN disk' = [disk EXCEPT !.held = {}, !.torn = FALSE] /\ app' = [app EXCEPT !.kept = FALSE]
       ELSE disk' = [disk EXCEPT !.log = FALSE] /\ app' = [app EXCEPT !.phase = app.then]
    /\ owed' = {}
    /\ UNCHANGED <<host, up, store, read, save, fetch, pre, spent>>

\* The removal fails. At the first opening the store is then one in memory; at
\* a rebuild the store that could not be removed is opened again and used.
DiscardFails ==
    /\ app.phase = "discard" /\ (disk.held # {} \/ disk.torn)
    /\ Spend
    /\ app' = [app EXCEPT !.phase = app.then]
    /\ UNCHANGED <<host, up, disk, store, read, save, fetch, pre, owed>>

OpenAgain ==
    /\ app.phase = "open"
    /\ app' = [app EXCEPT !.phase = "migrate", !.kept = ~disk.torn]
    /\ store' = IF disk.torn THEN Created ELSE Opened
    /\ disk' = IF disk.torn THEN disk ELSE [disk EXCEPT !.held = {Opened}, !.log = TRUE]
    /\ UNCHANGED <<host, up, read, save, fetch, pre, owed, spent>>

Migrate ==
    /\ app.phase = "migrate"
    /\ store.version # CurrentVersion
    /\ \/ store.version < CurrentVersion /\ Put(Step(store)) /\ UNCHANGED <<app, spent>>
       \/ /\ IF store.version < CurrentVersion THEN Spend ELSE UNCHANGED spent
          /\ app' = [app EXCEPT !.phase = "discard", !.then = "reopen"]
          /\ UNCHANGED <<disk, store>>
    /\ UNCHANGED <<host, up, read, save, fetch, pre, owed>>

\* Versions a migration may stop at: one that is too new, at its own.
Reachable(s) == IF s.version > CurrentVersion THEN {s.version} ELSE s.version .. CurrentVersion

\* After a rebuild the store is evicted, opened anew and migrated, whatever comes of
\* it; if it does not open, the one in memory stays.
Reopen ==
    /\ app.phase = "reopen"
    /\ IF disk.torn
       THEN app' = [app EXCEPT !.phase = "open workspace"] /\ UNCHANGED <<disk, store, spent>>
       ELSE /\ app' = [app EXCEPT !.phase = "open workspace", !.kept = TRUE]
            /\ \E before \in 1 .. app.run, to \in Reachable(Opened) :
                 /\ IF to < CurrentVersion THEN Spend ELSE UNCHANGED spent
                 /\ store' = Migrated(Evict(Opened, before), to)
            /\ disk' = [disk EXCEPT !.held = {store'}, !.log = TRUE]
    /\ UNCHANGED <<host, up, read, save, fetch, pre, owed>>

\* Two weeks may have passed since any earlier run.
EvictOld ==
    /\ app.phase = "migrate" /\ store.version = CurrentVersion
    /\ \E before \in 1 .. app.run : Put(Evict(store, before))
    /\ app' = [app EXCEPT !.phase = "open workspace"]
    /\ UNCHANGED <<host, up, read, save, fetch, pre, owed, spent>>

OpenWorkspace ==
    /\ app.phase = "open workspace"
    /\ Put(Register(store))
    /\ app' = [app EXCEPT !.phase = "ready"]
    /\ UNCHANGED <<host, up, read, save, fetch, pre, owed, spent>>

DeleteWorkspace ==
    /\ Ready /\ store.known
    /\ Spend
    /\ Put(Forget(store))
    /\ owed' = {}
    /\ UNCHANGED <<host, up, app, read, save, fetch, pre>>

\* The client ends, between any two steps.
End ==
    /\ app.phase # "stopped"
    /\ Spend
    /\ app' = [app EXCEPT !.phase = "stopped", !.kept = FALSE]
    /\ store' = Created
    /\ owed' = IF app.kept THEN owed ELSE {}
    /\ Rested
    /\ UNCHANGED <<host, up, disk>>

-----------------------------------------------------------------------------
(* The host changes; what a call in flight has seen of its file, and whether *)
(* the file changed between the engine's own steps of one answer, is kept.   *)

HostChanges(p, content) ==
    /\ Spend
    /\ host[p] # content
    /\ host' = [host EXCEPT ![p] = content]
    /\ read' = IF read.path # p \/ read.at \in {"idle", "done"} THEN read
               ELSE [read EXCEPT !.seen = @ \cup {Digest(content)},
                                 !.raced = @ \/ read.at \in {"bytes", "digest"}]
    /\ UNCHANGED <<up, disk, store, app, save, fetch, pre, owed>>

\* Every request in flight is answered with the loss; the engine finishes a save.
LoseConnection ==
    /\ up /\ Ready
    /\ Spend
    /\ up' = FALSE
    /\ read' = IF read.at \in {"idle", "done"} THEN read
               ELSE [read EXCEPT !.at = "done", !.how = "Offline"]
    /\ save' = [save EXCEPT !.heard = FALSE]
    /\ fetch' = [x \in DOMAIN fetch |-> NoFetch]
    /\ pre' = NoPrefetch
    /\ UNCHANGED <<host, disk, store, app, owed>>
Connect ==
    /\ ~up
    /\ up' = TRUE
    /\ UNCHANGED <<host, disk, store, app, read, save, fetch, pre, owed, spent>>

-----------------------------------------------------------------------------
(* read_file.                                                                *)

Part(bytes, from, length) ==
    SubSeq(bytes, from, IF from + length - 1 < Len(bytes) THEN from + length - 1 ELSE Len(bytes))
Answer(r, how, bytes, hash) ==
    [r EXCEPT !.at = "done", !.how = how, !.hash = hash,
              !.bytes = IF r.whole THEN bytes ELSE Part(bytes, 1, Chunk)]
Settle(how, bytes, hash) == read' = Answer(read, how, bytes, hash)

\* A cached file is confirmed, another fetched; offline it is answered as it is.
Called(p, whole) ==
    [Quiet EXCEPT !.path = p, !.whole = whole, !.entry = Lookup(store, p),
                  !.seen = {Digest(host[p])},
                  !.at = IF Lookup(store, p) = {} THEN "size" ELSE "confirm"]
ReadFile(p, whole) ==
    /\ Ready /\ read.at \in {"idle", "done"}
    /\ Spend
    /\ IF up THEN read' = Called(p, whole)
       ELSE IF Lookup(store, p) = {}
       THEN read' = Answer(Called(p, whole), "Unavailable", <<>>, <<>>)
       ELSE \E entry \in Lookup(store, p) :
                read' = Answer(Called(p, whole), "PossiblyStale", entry.bytes, entry.hash)
    /\ UNCHANGED <<host, up, disk, store, app, save, fetch, pre, owed>>

\* The engine's answer to stat: the digest, or that there is no such file.
Stat ==
    /\ read.at = "confirm"
    /\ read' = [read EXCEPT !.at = "confirmed", !.hash = Digest(host[read.path])]
    /\ UNCHANGED <<host, up, disk, store, app, save, fetch, pre, owed, spent>>

Compared_Wrong(entry) == Len(entry.bytes) = Len(read.hash)
Compared(entry) == entry.hash = read.hash

Confirmed ==
    /\ read.at = "confirmed"
    /\ \E entry \in read.entry :
         \/ /\ Compared(entry)
            /\ Put(ClearUnproven(Touch(store, read.path, app.run), read.path))
            /\ Settle("Current", entry.bytes, entry.hash)
         \/ /\ ~Compared(entry) /\ read.hash # Absent
            /\ read' = [read EXCEPT !.at = "size"]
            /\ UNCHANGED <<disk, store>>
         \/ /\ ~Compared(entry) /\ read.hash = Absent
            /\ Settle("Failed", <<>>, <<>>)
            /\ UNCHANGED <<disk, store>>
    /\ UNCHANGED <<host, up, app, save, fetch, pre, owed, spent>>

\* CONFIRM_LIMIT passes first: the cached file is answered as not verified.
ConfirmElapses ==
    /\ read.at \in {"confirm", "confirmed"}
    /\ Spend
    /\ \E entry \in read.entry : Settle("Unverified", entry.bytes, entry.hash)
    /\ UNCHANGED <<host, up, disk, store, app, save, fetch, pre, owed>>

\* The engine asks the length, reads as much, and then reads all of it for the
\* digest. A file over the inline limit is refused and fetched in bulk: its
\* digest first, then its bytes, which have to agree.
EngineSize ==
    /\ read.at = "size"
    /\ IF host[read.path] = Absent THEN Settle("Failed", <<>>, <<>>)
       ELSE IF read.whole /\ Len(host[read.path]) > InlineRead
       THEN read' = [read EXCEPT !.at = "bulk", !.hash = Digest(host[read.path])]
       ELSE read' = [read EXCEPT !.at = "bytes",
                        !.size = IF read.whole THEN Len(host[read.path]) ELSE Chunk]
    /\ UNCHANGED <<host, up, disk, store, app, save, fetch, pre, owed, spent>>

EngineBytes ==
    /\ read.at = "bytes"
    /\ IF host[read.path] = Absent THEN Settle("Failed", <<>>, <<>>)
       ELSE read' = [read EXCEPT !.at = "digest", !.bytes = Part(host[read.path], 1, read.size)]
    /\ UNCHANGED <<host, up, disk, store, app, save, fetch, pre, owed, spent>>
EngineDigest ==
    /\ read.at = "digest"
    /\ IF host[read.path] = Absent THEN Settle("Failed", <<>>, <<>>)
       ELSE read' = [read EXCEPT !.at = "answered", !.hash = Digest(host[read.path])]
    /\ UNCHANGED <<host, up, disk, store, app, save, fetch, pre, owed, spent>>
BulkFetch ==
    /\ read.at = "bulk"
    /\ IF Digest(host[read.path]) = read.hash
       THEN read' = [read EXCEPT !.at = "answered", !.bytes = host[read.path]]
       ELSE Settle("Failed", <<>>, <<>>)
    /\ UNCHANGED <<host, up, disk, store, app, save, fetch, pre, owed, spent>>

\* A whole file is put in the cache under the digest that came with it.
Keeps == read.whole
FetchAndCache ==
    /\ read.at = "answered"
    /\ IF Keeps THEN Put(PutContent(store, read.path, read.bytes, read.hash, app.run))
                ELSE UNCHANGED <<disk, store>>
    /\ Settle("Current", read.bytes, read.hash)
    /\ UNCHANGED <<host, up, app, save, fetch, pre, owed, spent>>

-----------------------------------------------------------------------------
(* write_file: the engine reads and compares, replaces, and reads again; the *)
(* client keeps what it wrote if that is what the engine read back.          *)

SaveFile(text) ==
    /\ Online /\ save.at = "idle"
    /\ read.at = "done" /\ read.whole /\ read.how \in {"Current", "Unverified", "PossiblyStale"}
    /\ Spend
    /\ save' = [at |-> "compare", path |-> read.path, text |-> text, base |-> read.hash,
                heard |-> TRUE]
    /\ UNCHANGED <<host, up, disk, store, app, read, fetch, pre, owed>>
EngineCompare ==
    /\ save.at = "compare"
    /\ save' = IF host[save.path] # Absent /\ Digest(host[save.path]) = save.base
               THEN [save EXCEPT !.at = "replace"] ELSE NoSave
    /\ UNCHANGED <<host, up, disk, store, app, read, fetch, pre, owed, spent>>
EngineReplace ==
    /\ save.at = "replace"
    /\ host' = [host EXCEPT ![save.path] = save.text]
    /\ save' = [save EXCEPT !.at = "reread"]
    /\ read' = IF read.path # save.path \/ read.at \in {"idle", "done"} THEN read
               ELSE [read EXCEPT !.seen = @ \cup {Digest(save.text)},
                                 !.raced = @ \/ read.at \in {"bytes", "digest"}]
    /\ UNCHANGED <<up, disk, store, app, fetch, pre, owed, spent>>
\* `base` is from here on the digest the engine answers with.
EngineReread ==
    /\ save.at = "reread"
    /\ save' = IF host[save.path] = Absent THEN NoSave
               ELSE [save EXCEPT !.at = "written", !.base = Digest(host[save.path])]
    /\ UNCHANGED <<host, up, disk, store, app, read, fetch, pre, owed, spent>>
Written ==
    /\ save.at = "written"
    /\ CASE ~save.heard -> UNCHANGED <<disk, store>>
         [] save.heard /\ Digest(save.text) = save.base ->
              Put(PutContent(store, save.path, save.text, save.base, app.run))
         [] OTHER -> Put(MarkUnproven(store, save.path))
    /\ save' = NoSave
    /\ UNCHANGED <<host, up, app, read, fetch, pre, owed, spent>>

\* Held while there is no connection, and confirmed later.
Retain(p) ==
    /\ Ready /\ ~up /\ Retains(store)
    /\ Spend
    /\ Put(RetainEdit(store, p))
    /\ owed' = owed \cup {p}
    /\ UNCHANGED <<host, up, app, read, save, fetch, pre>>
Settled(p) ==
    /\ Online /\ p \in store.pending
    /\ Put(ForgetPending(store, p))
    /\ owed' = owed \ {p}
    /\ UNCHANGED <<host, up, app, read, save, fetch, pre, spent>>

-----------------------------------------------------------------------------
(* read_directory: what is cached, or else the engine's first page.          *)

HostListing(dir) ==
    [p \in {p \in Dirs \cup {f \in Files : host[f] # Absent} : Parent(p) = dir} |->
        [dir |-> p \in Dirs, size |-> IF p \in Dirs THEN 0 ELSE Len(host[p])]]
Asked(x, dir) ==
    IF Children(store, dir) # {} THEN UNCHANGED fetch
    ELSE fetch' = [fetch EXCEPT ![x] = [NoFetch EXCEPT !.at = "asked", !.dir = dir]]

ReadDirectory(dir) ==
    /\ Online /\ ~Fetching("tree") /\ Children(store, dir) = {}
    /\ Spend
    /\ Asked("tree", dir)
    /\ UNCHANGED <<host, up, disk, store, app, read, save, pre, owed>>
EngineLists(x) ==
    /\ fetch[x].at = "asked"
    /\ fetch' = [fetch EXCEPT ![x].at = "answered", ![x].listing = HostListing(fetch[x].dir)]
    /\ UNCHANGED <<host, up, disk, store, app, read, save, pre, owed, spent>>
Listed(x) ==
    /\ fetch[x].at = "answered"
    /\ Put(PutListing(store, fetch[x].dir, fetch[x].listing))
    /\ fetch' = [fetch EXCEPT ![x] = NoFetch]
    /\ UNCHANGED <<host, up, app, read, save, pre, owed, spent>>

-----------------------------------------------------------------------------
(* The prefetch: manifests and lately changed files, in ranges, one run at a *)
(* time and within a budget.                                                 *)

Only(at) == pre.at = at /\ ~Fetching("prefetch")
PrefetchIn(p) == [pre EXCEPT !.at = "listing", !.chain = [i \in 1 .. Len(p) |-> SubSeq(p, 1, i - 1)],
                             !.got = <<>>, !.first = {}]
StartPrefetch ==
    /\ Online /\ pre.at = "idle"
    /\ Spend
    /\ Asked("prefetch", Root)
    /\ pre' = [NoPrefetch EXCEPT !.at = "candidates"]
    /\ UNCHANGED <<host, up, disk, store, app, read, save, owed>>
Candidates ==
    /\ Only("candidates")
    /\ LET shown == {p \in Manifests : p \in Children(store, Root) /\ ~store.rows[p].dir}
           named == SetToSeq(shown)
       IN  pre' = [pre EXCEPT !.at = "next", !.left = named \o SelectSeq(Recent, LAMBDA p : p \notin shown)]
    /\ UNCHANGED <<host, up, disk, store, app, read, save, fetch, owed, spent>>
NextCandidate ==
    /\ Only("next")
    /\ IF pre.left = <<>> THEN pre' = NoPrefetch
       ELSE IF Lookup(store, Head(pre.left)) # {}
       THEN pre' = [pre EXCEPT !.left = Tail(@)]
       ELSE pre' = PrefetchIn(Head(pre.left))
    /\ UNCHANGED <<host, up, disk, store, app, read, save, fetch, owed, spent>>
\* Each directory on the way down is listed, unless it lists the next already.
ListWay ==
    /\ Only("listing") /\ pre.chain # <<>>
    /\ LET dir == Head(pre.chain)
           next == SubSeq(Head(pre.left), 1, Len(dir) + 1)
       IN  IF next \in Children(store, dir) THEN UNCHANGED fetch ELSE Asked("prefetch", dir)
    /\ pre' = [pre EXCEPT !.chain = Tail(@)]
    /\ UNCHANGED <<host, up, disk, store, app, read, save, owed, spent>>
Skip == pre' = [pre EXCEPT !.at = "next", !.left = Tail(@)]
WithinBudget ==
    /\ Only("listing") /\ pre.chain = <<>>
    /\ LET p == Head(pre.left)
       IN  IF p \notin DOMAIN store.rows THEN Skip
           ELSE IF store.rows[p].dir THEN Skip
           ELSE IF CachedBytes(store) + store.rows[p].size > PrefetchBudget THEN pre' = NoPrefetch
           ELSE pre' = [pre EXCEPT !.at = "size"]
    /\ UNCHANGED <<host, up, disk, store, app, read, save, fetch, owed, spent>>
\* One range: again the engine's three steps.
RangeSize ==
    /\ pre.at = "size"
    /\ IF host[Head(pre.left)] = Absent THEN Skip
       ELSE pre' = [pre EXCEPT !.at = "bytes", !.size = Len(host[Head(pre.left)])]
    /\ UNCHANGED <<host, up, disk, store, app, read, save, fetch, owed, spent>>
RangeBytes ==
    /\ pre.at = "bytes"
    /\ IF host[Head(pre.left)] = Absent THEN Skip
       ELSE pre' = [pre EXCEPT !.at = "digest",
                               !.part = Part(host[Head(pre.left)], Len(pre.got) + 1, Chunk)]
    /\ UNCHANGED <<host, up, disk, store, app, read, save, fetch, owed, spent>>
RangeDigest ==
    /\ pre.at = "digest"
    /\ LET digest == Digest(host[Head(pre.left)])
           got == pre.got \o pre.part
           done == pre.part = <<>> \/ Len(got) >= pre.size
       IN  IF digest = Absent \/ pre.first \notin {{}, {digest}} THEN Skip
           ELSE pre' = [pre EXCEPT !.first = {digest}, !.got = got, !.part = <<>>,
                                   !.at = IF done THEN "fetched" ELSE "size"]
    /\ UNCHANGED <<host, up, disk, store, app, read, save, fetch, owed, spent>>
WholeFile_Wrong == TRUE
WholeFile == pre.first = {Digest(pre.got)}
CacheRanges ==
    /\ pre.at = "fetched"
    /\ IF WholeFile THEN \E digest \in pre.first :
                          Put(PutContent(store, Head(pre.left), pre.got, digest, app.run))
                    ELSE UNCHANGED <<disk, store>>
    /\ Skip
    /\ UNCHANGED <<host, up, app, read, save, fetch, owed, spent>>

-----------------------------------------------------------------------------
Old == [version |-> CurrentVersion - 1, tables |-> CurrentVersion - 1, known |-> TRUE,
        pending |-> {},
        rows |-> [p \in Manifests |-> [Blank([dir |-> FALSE, size |-> 1]) EXCEPT
                     !.cached = TRUE, !.bytes = <<2>>, !.hash = <<2>>, !.used = 1]]]
Future == [Old EXCEPT !.version = CurrentVersion + 1, !.tables = CurrentVersion + 1,
                      !.pending = Manifests]

\* Nothing on the disk, a store of an earlier build, of a later one, or one that does not open.
Init ==
    /\ host \in [Files -> {c \in Contents : Len(c) <= InlineRead}]
    /\ up = TRUE
    /\ \E held \in {{}, {Old}, {Future}}, torn \in BOOLEAN :
         /\ torn => held = {}
         /\ disk = [held |-> held, torn |-> torn, log |-> held # {} \/ torn]
         /\ owed = UNION {s.pending : s \in held}
    /\ store = Created
    /\ app = [phase |-> "stopped", then |-> "none", run |-> 1, kept |-> FALSE]
    /\ read = Quiet /\ save = NoSave /\ pre = NoPrefetch
    /\ fetch = [x \in {"tree", "prefetch"} |-> NoFetch]
    /\ spent = 0

Next ==
    \/ Open \/ Discard \/ DiscardFails \/ OpenAgain \/ Migrate \/ Reopen \/ EvictOld
    \/ OpenWorkspace \/ DeleteWorkspace \/ End \/ LoseConnection \/ Connect
    \/ \E p \in Files :
         \/ \E content \in Contents \cup {Absent} : HostChanges(p, content)
         \/ \E whole \in BOOLEAN : ReadFile(p, whole)
         \/ Retain(p) \/ Settled(p)
    \/ Stat \/ Confirmed \/ ConfirmElapses \/ EngineSize \/ EngineBytes \/ EngineDigest
    \/ BulkFetch \/ FetchAndCache
    \/ \E text \in Contents : SaveFile(text)
    \/ EngineCompare \/ EngineReplace \/ EngineReread \/ Written
    \/ \E dir \in Dirs \cup {Root} : ReadDirectory(dir)
    \/ \E x \in DOMAIN fetch : EngineLists(x) \/ Listed(x)
    \/ StartPrefetch \/ Candidates \/ NextCandidate \/ ListWay \/ WithinBudget
    \/ RangeSize \/ RangeBytes \/ RangeDigest \/ CacheRanges

Spec == Init /\ [][Next]_vars

-----------------------------------------------------------------------------
\* What each part of the state may hold; the store that is open is the one on
\* the disk whenever it is kept there, and there is no listing without a row's kind.
TypeOK ==
    /\ host \in [Files -> Contents \cup {Absent}]
    /\ app.phase \in {"stopped", "discard", "open", "migrate", "reopen", "open workspace", "ready"}
    /\ app.kept /\ app.phase \notin {"stopped", "discard"} => disk.held = {store}
    /\ DOMAIN store.rows \subseteq Files \cup Dirs
    /\ store.pending \subseteq Files
    /\ spent \in 0 .. MaxSteps

\* A file answered as current comes with a digest the host's file had at some
\* time during the call: it was confirmed, or fetched, then, and never before.
AnswerIsRecent ==
    read.at = "done" /\ read.how = "Current" => read.hash \in read.seen

\* What a step puts in the cache is what its digest says, whether it came in
\* ranges, from a save or from a whole read - except from a whole read whose
\* file the host changed between the engine's reads of it.
StoredWhole ==
    [][\A p \in DOMAIN store'.rows :
         LET row == store'.rows[p]
         IN  row.cached /\ row.bytes # row.hash =>
               \/ \E s \in disk.held \cup {store} :
                    p \in DOMAIN s.rows /\ s.rows[p].hash = row.hash /\ s.rows[p].bytes = row.bytes
               \/ read.at = "answered" /\ read.path = p /\ read.raced]_vars

\* A store has the tables its version says, in whatever step the client ended. (And
\* the state is as TypeOK has it.)
SchemaMatchesVersion ==
    TypeOK /\ \A s \in disk.held \cup {store} : s.tables = s.version

\* An edit retained is there in every later run until it is confirmed, its
\* workspace is deleted, or the store it lies in is discarded.
RetainedOutlivesRuns ==
    app.phase = "ready" => owed \subseteq store.pending

\* The digest a content is kept under is the digest of its bytes.
DigestIsOfTheBytes ==
    \A p \in DOMAIN store.rows : store.rows[p].cached => store.rows[p].hash = store.rows[p].bytes
=============================================================================
