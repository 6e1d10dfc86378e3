-------------------------- MODULE FileCache_proofs --------------------------
(***************************************************************************)
(* The client's cache for any files, contents and bounds: an answer called *)
(* current is recent, a store has the tables of its version, what was      *)
(* retained is found again, and contents agree with their digests.         *)
(***************************************************************************)
EXTENDS FileCache, SequenceTheorems, TLAPS

Paths == Files \cup Dirs

(* Stores                                                                  *)

IsRow(r) ==
  /\ DOMAIN r = {"dir", "size", "cached", "bytes", "hash", "unproven", "used"}
  /\ r = [f \in DOMAIN r |-> r[f]]

IsStore(s) ==
  /\ DOMAIN s = {"version", "tables", "known", "rows", "pending"} /\ s = [f \in DOMAIN s |-> s[f]]
  /\ s.version \in Nat /\ s.tables = s.version
  /\ s.rows = [p \in DOMAIN s.rows |-> s.rows[p]] /\ DOMAIN s.rows \subseteq Paths
  /\ \A p \in DOMAIN s.rows : IsRow(s.rows[p])
  /\ s.pending \subseteq Files

\* Every content t has, s has under the same digest.
HadAll(s, t) ==
  \A p \in DOMAIN t.rows : t.rows[p].cached =>
    /\ p \in DOMAIN s.rows /\ s.rows[p].cached
    /\ s.rows[p].hash = t.rows[p].hash /\ s.rows[p].bytes = t.rows[p].bytes

\* What was had before a store that was had before, was had.
LEMMA HadBefore ==
  ASSUME NEW s, NEW t, NEW u, HadAll(s, t), HadAll(t, u)
  PROVE  HadAll(s, u)
BY DEF HadAll

\* t is a store with nothing new in it.
Comes(s, t) == IsStore(t) /\ HadAll(s, t) /\ t.pending = s.pending

\* A store that was just created is empty, so it has nothing new.
LEMMA CreatedIs == IsStore(Created) /\ Created.pending = {} /\ \A s : HadAll(s, Created)
<1>1. DOMAIN <<>> = {} /\ <<>> = [p \in {} |-> <<>>[p]]
  OBVIOUS
<1> QED
  BY <1>1 DEF Created, IsStore, HadAll

\* A store under other rows.
LEMMA WithRows ==
  ASSUME NEW s, IsStore(s), NEW R, R = [p \in DOMAIN R |-> R[p]], DOMAIN R \subseteq Paths,
         \A p \in DOMAIN R : IsRow(R[p]), NEW t, t = [s EXCEPT !.rows = R]
  PROVE  IsStore(t) /\ t.rows = R /\ t.pending = s.pending /\ t.version = s.version
BY DEF IsStore

\* One row is written, with the same content or another.
LEMMA WithRow ==
  ASSUME NEW s, IsStore(s), NEW q \in DOMAIN s.rows, NEW r, IsRow(r),
         NEW t, t = [s EXCEPT !.rows[q] = r]
  PROVE  /\ IsStore(t) /\ t.pending = s.pending
         /\ t.rows = [p \in DOMAIN s.rows |-> IF p = q THEN r ELSE s.rows[p]]
BY DEF IsStore

\* The version and the tables move together (Step, Migrated).
LEMMA WithVersion ==
  ASSUME NEW s, IsStore(s), NEW v \in Nat, NEW t, t = [s EXCEPT !.version = v, !.tables = v]
  PROVE  Comes(s, t) /\ t.version = v
BY DEF IsStore, Comes, HadAll

\* One step of the schema keeps every row and every edit.
LEMMA StepIs ==
  ASSUME NEW s, IsStore(s)
  PROVE  Comes(s, Step(s)) /\ Step(s).version = s.version + 1
<1>1. s.version + 1 \in Nat
  BY DEF IsStore
<1>2. Step(s) = [s EXCEPT !.version = s.version + 1, !.tables = s.version + 1]
  BY DEF IsStore, Step
<1> QED
  BY <1>1, <1>2, WithVersion

\* So do the steps of a migration that stops at v.
LEMMA MigratedIs ==
  ASSUME NEW s, IsStore(s), NEW v \in Nat
  PROVE  Comes(s, Migrated(s, v))
<1>1. s.tables + (v - s.version) = v
  BY DEF IsStore
<1>2. Migrated(s, v) = [s EXCEPT !.version = v, !.tables = v]
  BY <1>1 DEF Migrated, IsStore
<1> QED
  BY <1>2, WithVersion

\* Registering the workspace changes neither rows nor edits.
LEMMA RegisterIs ==
  ASSUME NEW s, IsStore(s)
  PROVE  Comes(s, Register(s))
BY DEF Register, Comes, IsStore, HadAll

\* With the workspace its rows and edits go, and nothing comes.
LEMMA ForgetIs ==
  ASSUME NEW s, IsStore(s)
  PROVE  IsStore(Forget(s)) /\ HadAll(s, Forget(s))
<1>1. DOMAIN <<>> = {} /\ <<>> = [p \in {} |-> <<>>[p]]
  OBVIOUS
<1> QED
  BY <1>1 DEF Forget, IsStore, HadAll

\* A row that keeps its content.
LEMMA SameContent ==
  ASSUME NEW s, IsStore(s), NEW q \in DOMAIN s.rows, NEW r, IsRow(r),
         r.cached = s.rows[q].cached, r.hash = s.rows[q].hash, r.bytes = s.rows[q].bytes,
         NEW t, t = [s EXCEPT !.rows[q] = r]
  PROVE  Comes(s, t)
<1>1. /\ IsStore(t) /\ t.pending = s.pending
      /\ t.rows = [p \in DOMAIN s.rows |-> IF p = q THEN r ELSE s.rows[p]]
  BY WithRow
<1> QED
  BY <1>1 DEF Comes, HadAll

\* A mark of a row, or its content taken: still a row.
LEMMA RowIs ==
  ASSUME NEW q, IsRow(q), NEW v
  PROVE  /\ IsRow([q EXCEPT !.unproven = v])
         /\ [q EXCEPT !.unproven = v].cached = q.cached
         /\ [q EXCEPT !.unproven = v].hash = q.hash
         /\ [q EXCEPT !.unproven = v].bytes = q.bytes
BY DEF IsRow

LEMMA EmptiedIs ==
  ASSUME NEW q, IsRow(q),
         NEW r, r = [q EXCEPT !.cached = FALSE, !.bytes = <<>>, !.hash = <<>>, !.unproven = FALSE]
  PROVE  IsRow(r) /\ ~r.cached
<1>1. DOMAIN r = DOMAIN q /\ r = [f \in DOMAIN r |-> r[f]]
  BY DEF IsRow
<1>2. ~r.cached
  BY DEF IsRow
<1> QED
  BY <1>1, <1>2 DEF IsRow

\* The three marks of a row leave its content: when it was last asked for,
LEMMA TouchIs ==
  ASSUME NEW s, IsStore(s), NEW p, NEW n
  PROVE  Comes(s, Touch(s, p, n))
<1>1. CASE p \notin DOMAIN s.rows
  BY <1>1 DEF Touch, Comes, HadAll
<1>2. CASE p \in DOMAIN s.rows
  <2> DEFINE r == [s.rows[p] EXCEPT !.used = n]
  <2>1. /\ IsRow(r) /\ r.cached = s.rows[p].cached
        /\ r.hash = s.rows[p].hash /\ r.bytes = s.rows[p].bytes
    BY <1>2 DEF IsStore, IsRow
  <2>2. Touch(s, p, n) = [s EXCEPT !.rows[p] = r]
    BY <1>2 DEF Touch
  <2> QED
    BY <1>2, <2>1, <2>2, SameContent
<1> QED
  BY <1>1, <1>2

\* that it is proven again,
LEMMA ClearIs ==
  ASSUME NEW s, IsStore(s), NEW p
  PROVE  Comes(s, ClearUnproven(s, p))
<1>1. CASE p \notin DOMAIN s.rows
  BY <1>1 DEF ClearUnproven, Comes, HadAll
<1>2. CASE p \in DOMAIN s.rows
  <2> DEFINE r == [s.rows[p] EXCEPT !.unproven = FALSE]
  <2>1. /\ IsRow(r) /\ r.cached = s.rows[p].cached
        /\ r.hash = s.rows[p].hash /\ r.bytes = s.rows[p].bytes
    <3>1. IsRow(s.rows[p])
      BY <1>2 DEF IsStore
    <3> QED
      BY <3>1, RowIs
  <2>2. ClearUnproven(s, p) = [s EXCEPT !.rows[p] = r]
    BY <1>2 DEF ClearUnproven
  <2> QED
    BY <1>2, <2>1, <2>2, SameContent
<1> QED
  BY <1>1, <1>2

\* and that it is not.
LEMMA MarkIs ==
  ASSUME NEW s, IsStore(s), NEW p
  PROVE  Comes(s, MarkUnproven(s, p))
<1>1. CASE ~(p \in DOMAIN s.rows /\ s.rows[p].cached)
  BY <1>1 DEF MarkUnproven, Comes, HadAll
<1>2. CASE p \in DOMAIN s.rows /\ s.rows[p].cached
  <2> DEFINE r == [s.rows[p] EXCEPT !.unproven = TRUE]
  <2>1. /\ IsRow(r) /\ r.cached = s.rows[p].cached
        /\ r.hash = s.rows[p].hash /\ r.bytes = s.rows[p].bytes
    <3>1. IsRow(s.rows[p])
      BY <1>2 DEF IsStore
    <3> QED
      BY <3>1, RowIs
  <2>2. MarkUnproven(s, p) = [s EXCEPT !.rows[p] = r]
    BY <1>2 DEF MarkUnproven
  <2> QED
    BY <1>2, <2>1, <2>2, SameContent
<1> QED
  BY <1>1, <1>2

\* Eviction takes contents, never rows or edits.
LEMMA EvictIs ==
  ASSUME NEW s, IsStore(s), NEW n
  PROVE  Comes(s, Evict(s, n)) /\ Evict(s, n).version = s.version
<1> DEFINE old(r) == r.used # 0 /\ r.used < n
           gone(r) == [r EXCEPT !.cached = FALSE, !.bytes = <<>>, !.hash = <<>>, !.unproven = FALSE]
           R == [p \in DOMAIN s.rows |-> IF old(s.rows[p]) THEN gone(s.rows[p]) ELSE s.rows[p]]
<1>1. ASSUME NEW p \in DOMAIN s.rows PROVE IsRow(gone(s.rows[p])) /\ ~gone(s.rows[p]).cached
  <2>1. IsRow(s.rows[p])
    BY <1>1 DEF IsStore
  <2> QED
    BY <2>1, EmptiedIs
<1>2. Evict(s, n) = [s EXCEPT !.rows = R]
  BY DEF Evict
<1>3. /\ DOMAIN R = DOMAIN s.rows
      /\ \A p \in DOMAIN R : IsRow(R[p]) /\ (R[p] = s.rows[p] \/ ~R[p].cached)
  <2> HIDE DEF gone, old
  <2> QED
    BY <1>1 DEF IsStore
<1>4. R = [p \in DOMAIN R |-> R[p]] /\ DOMAIN R \subseteq Paths
  BY <1>3 DEF IsStore
<1> HIDE DEF R
<1>5. /\ IsStore(Evict(s, n)) /\ Evict(s, n).rows = R
      /\ Evict(s, n).pending = s.pending /\ Evict(s, n).version = s.version
  BY <1>2, <1>3, <1>4, WithRows
<1> QED
  BY <1>3, <1>5 DEF Comes, HadAll

\* A listing brings rows without content, and a row it names keeps its own.
LEMMA ListingIs ==
  ASSUME NEW s, IsStore(s), NEW dir, NEW listing, DOMAIN listing \subseteq Paths
  PROVE  Comes(s, PutListing(s, dir, listing))
<1> DEFINE kept == DOMAIN s.rows \ (Children(s, dir) \ DOMAIN listing)
           named(p) == [s.rows[p] EXCEPT !.dir = listing[p].dir, !.size = listing[p].size]
           Line(p) == IF p \notin DOMAIN listing THEN s.rows[p]
                      ELSE IF p \notin kept THEN Blank(listing[p]) ELSE named(p)
           R == [p \in kept \cup DOMAIN listing |-> Line(p)]
<1>1. CASE ~s.known
  BY <1>1 DEF PutListing, Comes, HadAll
<1>2. CASE s.known
  <2>1. PutListing(s, dir, listing) = [s EXCEPT !.rows = R]
    BY <1>2 DEF PutListing
  <2>2. ASSUME NEW p \in kept
        PROVE  /\ IsRow(named(p)) /\ named(p).cached = s.rows[p].cached
               /\ named(p).hash = s.rows[p].hash /\ named(p).bytes = s.rows[p].bytes
    BY <2>2 DEF IsStore, IsRow
  <2>3. \A e : IsRow(Blank(e)) /\ ~Blank(e).cached
    BY DEF Blank, IsRow
  <2>4. /\ DOMAIN R = kept \cup DOMAIN listing /\ kept \subseteq DOMAIN s.rows
        /\ \A p \in DOMAIN R : /\ IsRow(R[p])
                               /\ R[p].cached => /\ p \in DOMAIN s.rows /\ s.rows[p].cached
                                                 /\ s.rows[p].hash = R[p].hash
                                                 /\ s.rows[p].bytes = R[p].bytes
    <3>1. kept \subseteq DOMAIN s.rows
      OBVIOUS
    <3> HIDE DEF kept, named
    <3> QED
      BY <2>2, <2>3, <3>1 DEF IsStore
  <2>5. R = [p \in DOMAIN R |-> R[p]] /\ DOMAIN R \subseteq Paths
    <3>1. DOMAIN s.rows \subseteq Paths
      BY DEF IsStore
    <3>2. DOMAIN R \subseteq Paths
      BY <2>4, <3>1
    <3> HIDE DEF kept, named, Line
    <3> QED
      BY <3>2
  <2> HIDE DEF R
  <2>6. LET t == PutListing(s, dir, listing)
        IN  IsStore(t) /\ t.rows = R /\ t.pending = s.pending
    BY <2>1, <2>4, <2>5, WithRows
  <2> QED
    BY <2>4, <2>6 DEF Comes, HadAll
<1> QED
  BY <1>1, <1>2

\* What is put under a path is the one new content.
LEMMA PutIs ==
  ASSUME NEW s, IsStore(s), NEW p, NEW b, NEW h, NEW n,
         NEW t, t = PutContent(s, p, b, h, n)
  PROVE  /\ IsStore(t) /\ t.pending = s.pending
         /\ \A q \in DOMAIN t.rows : t.rows[q].cached =>
              \/ q \in DOMAIN s.rows /\ s.rows[q].hash = t.rows[q].hash
                                     /\ s.rows[q].bytes = t.rows[q].bytes
              \/ q = p /\ t.rows[q].hash = h /\ t.rows[q].bytes = b
<1>1. CASE Len(b) > CacheMaxBytes \/ p \notin DOMAIN s.rows
  BY <1>1 DEF PutContent
<1>2. CASE ~(Len(b) > CacheMaxBytes \/ p \notin DOMAIN s.rows)
  <2> DEFINE r == [s.rows[p] EXCEPT !.cached = TRUE, !.bytes = b, !.hash = h, !.used = n]
  <2>1. IsRow(r) /\ r.hash = h /\ r.bytes = b
    BY <1>2 DEF IsStore, IsRow
  <2>2. t = [s EXCEPT !.rows[p] = r]
    BY <1>2 DEF PutContent
  <2> HIDE DEF r
  <2>3. /\ IsStore(t) /\ t.pending = s.pending
        /\ t.rows = [q \in DOMAIN s.rows |-> IF q = p THEN r ELSE s.rows[q]]
    BY <1>2, <2>1, <2>2, WithRow
  <2> QED
    BY <2>1, <2>3
<1> QED
  BY <1>1, <1>2

\* Edits are added and removed; contents stay.
LEMMA EditIs ==
  ASSUME NEW s, IsStore(s), NEW p \in Files
  PROVE  /\ IsStore(RetainEdit(s, p)) /\ HadAll(s, RetainEdit(s, p))
         /\ s.pending \subseteq RetainEdit(s, p).pending
         /\ Retains(s) => p \in RetainEdit(s, p).pending
         /\ IsStore(ForgetPending(s, p)) /\ HadAll(s, ForgetPending(s, p))
         /\ ForgetPending(s, p).pending = s.pending \ {p}
BY DEF RetainEdit, ForgetPending, IsStore, HadAll
-----------------------------------------------------------------------------
(* The store on the disk, the one that is open, and what is owed           *)

Phases == {"stopped", "discard", "open", "migrate", "reopen", "open workspace", "ready"}

Fetches ==
  /\ fetch = [x \in {"tree", "prefetch"} |-> fetch[x]]
  /\ \A x \in {"tree", "prefetch"} :
       /\ DOMAIN fetch[x] = {"at", "dir", "listing"}
       /\ fetch[x] = [f \in DOMAIN fetch[x] |-> fetch[x][f]]
       /\ fetch[x].at = "answered" => DOMAIN fetch[x].listing \subseteq Paths

\* A store that is kept is the one on the disk.
Kept ==
  /\ DOMAIN disk = {"held", "torn", "log"} /\ disk = [f \in DOMAIN disk |-> disk[f]]
  /\ DOMAIN app = {"phase", "then", "run", "kept"} /\ app = [f \in DOMAIN app |-> app[f]]
  /\ app.phase \in Phases /\ (app.phase = "discard" => app.then \in {"open", "reopen"})
  /\ IsStore(store) /\ \A s \in disk.held : IsStore(s)
  /\ \A s, t \in disk.held : s = t
  /\ disk.torn => disk.held = {}
  /\ app.kept => disk.held = {store} /\ ~disk.torn

\* What is owed lies on the disk, or in a store that ends with the run.
OwedInv ==
  /\ app.phase = "ready" => owed \subseteq store.pending
  /\ app.kept \/ app.phase # "ready" => \A p \in owed : \E s \in disk.held : p \in s.pending
  /\ ~app.kept /\ app.phase \notin {"ready", "stopped"} => owed = {}

StoreInv == Kept /\ OwedInv /\ Fetches

\* The store is written.
LEMMA Putting ==
  ASSUME StoreInv, NEW t, IsStore(t), Put(t), NEW ph \in {"migrate", "open workspace", "ready"},
         app' = [app EXCEPT !.phase = ph],
         app.kept \/ ph = "ready" => owed' \subseteq t.pending,
         ~app.kept /\ ph # "ready" => owed' = {}
  PROVE  Kept' /\ OwedInv'
<1>1. /\ app'.phase = ph /\ app'.kept = app.kept
      /\ DOMAIN app' = DOMAIN app /\ app' = [f \in DOMAIN app' |-> app'[f]]
  BY DEF StoreInv, Kept
<1>2. store' = t
  BY DEF Put
<1>3. CASE app.kept
  <2>1. disk' = [disk EXCEPT !.held = {t}]
    BY <1>3 DEF Put
  <2>2. /\ DOMAIN disk' = DOMAIN disk /\ disk' = [f \in DOMAIN disk' |-> disk'[f]]
        /\ disk'.held = {t} /\ disk'.torn = disk.torn
    BY <2>1 DEF StoreInv, Kept
  <2> QED
    BY <1>1, <1>2, <1>3, <2>2 DEF StoreInv, Kept, OwedInv, Phases
<1>4. CASE ~app.kept
  <2>1. disk' = disk
    BY <1>4 DEF Put
  <2>a. /\ DOMAIN app' = {"phase", "then", "run", "kept"} /\ app' = [f \in DOMAIN app' |-> app'[f]]
        /\ app'.phase \in Phases /\ app'.phase # "discard" /\ ~app'.kept
    BY <1>1, <1>4 DEF StoreInv, Kept, Phases
  <2>b. /\ DOMAIN disk = {"held", "torn", "log"} /\ disk = [f \in DOMAIN disk |-> disk[f]]
        /\ \A s \in disk.held : IsStore(s)
        /\ \A s, u \in disk.held : s = u
        /\ disk.torn => disk.held = {}
    BY DEF StoreInv, Kept
  <2>2. Kept'
    BY <1>2, <2>1, <2>a, <2>b DEF Kept
  <2>3. OwedInv'
    BY <1>1, <1>2, <1>4, <2>1 DEF OwedInv
  <2> QED
    BY <2>2, <2>3
<1> QED
  BY <1>3, <1>4

\* The store is written, and no edit comes or goes.
LEMMA PuttingSame ==
  ASSUME StoreInv, NEW t, IsStore(t), t.pending = store.pending, Put(t),
         NEW ph \in {"migrate", "open workspace", "ready"},
         app' = [app EXCEPT !.phase = ph], app.phase \notin {"stopped"},
         app.phase = "ready" => ph = "ready", owed' = owed
  PROVE  Kept' /\ OwedInv'
<1>1. app.kept \/ app.phase = "ready" => owed \subseteq store.pending
  BY DEF StoreInv, Kept, OwedInv
<1>2. ~app.kept /\ app.phase # "ready" => owed = {}
  BY DEF StoreInv, OwedInv
<1> QED
  BY <1>1, <1>2, Putting

\* Opened is the store on the disk, or a new one.
LEMMA OpenedIs ==
  ASSUME Kept
  PROVE  /\ IsStore(Opened) /\ (disk.held = {} => Opened = Created)
         /\ disk.held # {} => disk.held = {Opened}
<1>1. CASE disk.held = {}
  BY <1>1, CreatedIs DEF Opened
<1>2. CASE disk.held # {}
  <2>1. Opened \in disk.held
    BY <1>2 DEF Opened
  <2> QED
    BY <1>2, <2>1 DEF Kept
<1> QED
  BY <1>1, <1>2
\* Nothing is written.
LEMMA StoreStays ==
  ASSUME StoreInv, UNCHANGED <<disk, store, app, owed>>
  PROVE  Kept' /\ OwedInv'
BY DEF StoreInv, Kept, OwedInv

\* A call of the client that is up writes the store.
LEMMA ReadyPut ==
  ASSUME StoreInv, Ready, NEW t, IsStore(t), t.pending = store.pending, Put(t),
         UNCHANGED <<app, owed>>
  PROVE  Kept' /\ OwedInv'
<1>1. app' = [app EXCEPT !.phase = "ready"] /\ app.phase = "ready"
  BY DEF StoreInv, Kept, Ready
<1> QED
  BY <1>1, PuttingSame

\* Calls are those of a client that is up.
Working ==
  ~Ready => /\ read = Quiet /\ save = NoSave /\ pre = NoPrefetch
            /\ fetch = [x \in {"tree", "prefetch"} |-> NoFetch]

\* What a listing in flight answers with are paths of the host.
LEMMA FetchStays ==
  ASSUME Fetches
  PROVE  /\ UNCHANGED fetch => Fetches'
         /\ fetch' = [x \in {"tree", "prefetch"} |-> NoFetch] => Fetches'
         /\ \A x \in {"tree", "prefetch"} : \A d : Asked(x, d) => Fetches'
<1>1. UNCHANGED fetch => Fetches'
  BY DEF Fetches
<1>2. fetch' = [x \in {"tree", "prefetch"} |-> NoFetch] => Fetches'
  BY DEF Fetches, NoFetch
<1>3. ASSUME NEW x \in {"tree", "prefetch"}, NEW d, Asked(x, d) PROVE Fetches'
  <2>1. CASE UNCHANGED fetch
    BY <1>1, <2>1
  <2>2. CASE fetch' = [fetch EXCEPT ![x] = [NoFetch EXCEPT !.at = "asked", !.dir = d]]
    BY <2>2 DEF Fetches, NoFetch
  <2> QED
    BY <1>3, <2>1, <2>2 DEF Asked
<1> QED
  BY <1>1, <1>2, <1>3

StoreIsKept == StoreInv /\ Working

\* A call goes on: nothing is written, at most a listing is asked for.
LEMMA WhileReady ==
  ASSUME StoreIsKept, Ready, UNCHANGED <<disk, store, app, owed>>,
         UNCHANGED fetch \/ \E x \in {"tree", "prefetch"} : \E d : Asked(x, d)
  PROVE  StoreIsKept'
<1>1. Kept' /\ OwedInv'
  BY StoreStays DEF StoreIsKept
<1>2. Fetches'
  BY FetchStays DEF StoreIsKept, StoreInv
<1> QED
  BY <1>1, <1>2 DEF StoreIsKept, StoreInv, Working, Ready

\* The invariant of the store, by cases of the next step.
LEMMA StoreInvHolds == Spec => []StoreIsKept
<1>1. Init => StoreIsKept
  <2> SUFFICES ASSUME Init PROVE StoreIsKept
    OBVIOUS
  <2>1. IsStore(Old) /\ Old.pending = {}
    <3>1. CurrentVersion - 1 \in Nat
      BY StoreAssumption
    <3>2. Old.rows = [p \in DOMAIN Old.rows |-> Old.rows[p]] /\ DOMAIN Old.rows = Manifests
      BY DEF Old
    <3>3. ASSUME NEW p \in Manifests PROVE IsRow(Old.rows[p])
      BY DEF Old, Blank, IsRow
    <3>4. /\ DOMAIN Old = {"version", "tables", "known", "rows", "pending"}
          /\ Old = [f \in DOMAIN Old |-> Old[f]]
          /\ Old.version = CurrentVersion - 1 /\ Old.tables = CurrentVersion - 1 /\ Old.pending = {}
      BY DEF Old
    <3> QED
      BY <3>1, <3>2, <3>3, <3>4, CacheAssumption DEF IsStore, Paths
  <2>2. IsStore(Future) /\ Future.pending = Manifests
    <3>1. CurrentVersion + 1 \in Nat
      BY StoreAssumption
    <3> QED
      BY <2>1, <3>1, CacheAssumption DEF Future, IsStore
  <2>3. PICK held \in {{}, {Old}, {Future}}, torn \in BOOLEAN :
          /\ torn => held = {}
          /\ disk = [held |-> held, torn |-> torn, log |-> held # {} \/ torn]
          /\ owed = UNION {s.pending : s \in held}
    BY DEF Init
  <2>4. /\ app = [phase |-> "stopped", then |-> "none", run |-> 1, kept |-> FALSE]
        /\ store = Created
        /\ read = Quiet /\ save = NoSave /\ pre = NoPrefetch
        /\ fetch = [x \in {"tree", "prefetch"} |-> NoFetch]
    BY DEF Init
  <2>5. Kept
    BY <2>1, <2>2, <2>3, <2>4, CreatedIs DEF Kept, Phases
  <2>6. OwedInv
    BY <2>3, <2>4 DEF OwedInv
  <2>7. Fetches
    BY <2>4 DEF Fetches, NoFetch
  <2> QED
    BY <2>4, <2>5, <2>6, <2>7 DEF StoreIsKept, StoreInv, Working
<1>2. ASSUME StoreIsKept, Open PROVE StoreIsKept'
  <2> USE <1>2 DEF StoreIsKept
  <2>0. Working'
    BY DEF Open, Working, Ready, StoreInv, Kept
  <2>1. Fetches'
    BY FetchStays DEF Open, StoreInv
  <2>2. CASE disk.torn
    <3>1. /\ app' = [app EXCEPT !.phase = "discard", !.then = "open", !.run = @ + 1]
          /\ UNCHANGED <<disk, store, owed>> /\ app.phase = "stopped"
      BY <2>2 DEF Open
    <3>2. /\ DOMAIN app' = DOMAIN app /\ app' = [f \in DOMAIN app' |-> app'[f]] /\ ~app'.kept
          /\ app'.phase = "discard" /\ app'.then = "open"
      BY <2>2, <3>1 DEF StoreInv, Kept
    <3>3. owed = {}
      BY <2>2, <3>1 DEF StoreInv, Kept, OwedInv
    <3>4. Kept'
      BY <3>1, <3>2 DEF StoreInv, Kept, Phases
    <3>5. OwedInv'
      BY <3>1, <3>2, <3>3 DEF OwedInv
    <3> QED
      BY <2>0, <2>1, <3>4, <3>5 DEF StoreInv
  <2>3. CASE ~disk.torn
    <3>1. /\ app' = [app EXCEPT !.phase = "migrate", !.kept = TRUE, !.run = @ + 1]
          /\ store' = Opened
          /\ disk' = [disk EXCEPT !.held = {Opened}, !.log = disk.held # {}] /\ owed' = owed
          /\ app.phase = "stopped"
      BY <2>3 DEF Open
    <3>2. /\ DOMAIN app' = DOMAIN app /\ app' = [f \in DOMAIN app' |-> app'[f]] /\ app'.kept
          /\ app'.phase = "migrate"
          /\ DOMAIN disk' = DOMAIN disk /\ disk' = [f \in DOMAIN disk' |-> disk'[f]]
          /\ disk'.held = {Opened} /\ ~disk'.torn
      <4>1. /\ DOMAIN disk = {"held", "torn", "log"} /\ disk = [f \in DOMAIN disk |-> disk[f]]
            /\ DOMAIN app = {"phase", "then", "run", "kept"} /\ app = [f \in DOMAIN app |-> app[f]]
        BY DEF StoreInv, Kept
      <4>2. /\ DOMAIN app' = DOMAIN app /\ app' = [f \in DOMAIN app' |-> app'[f]]
            /\ app'.kept /\ app'.phase = "migrate"
        BY <3>1, <4>1
      <4>3. /\ DOMAIN disk' = DOMAIN disk /\ disk' = [f \in DOMAIN disk' |-> disk'[f]]
            /\ disk'.held = {Opened} /\ disk'.torn = disk.torn
        BY <3>1, <4>1
      <4> QED
        BY <2>3, <4>2, <4>3
    <3>3. Kept'
      BY <3>1, <3>2, OpenedIs DEF StoreInv, Kept, Phases
    <3>4. \A p \in owed : p \in Opened.pending
      BY <3>1, OpenedIs DEF StoreInv, OwedInv
    <3>5. OwedInv'
      BY <3>1, <3>2, <3>4 DEF OwedInv
    <3> QED
      BY <2>0, <2>1, <3>3, <3>5 DEF StoreInv
  <2> QED
    BY <2>2, <2>3
<1>3. ASSUME StoreIsKept, Discard PROVE StoreIsKept'
  <2> USE <1>3 DEF StoreIsKept
  <2>0. Working'
    BY DEF Discard, Working, Ready, StoreInv, Kept
  <2>1. Fetches'
    BY FetchStays DEF Discard, StoreInv
  <2>2. OwedInv'
    BY DEF Discard, OwedInv
  <2>3. CASE disk.held # {} \/ disk.torn
    <3>1. /\ disk' = [disk EXCEPT !.held = {}, !.torn = FALSE] /\ app' = [app EXCEPT !.kept = FALSE]
          /\ store' = store
      BY <2>3 DEF Discard
    <3>2. Kept'
      BY <3>1 DEF StoreInv, Kept
    <3> QED
      BY <2>0, <2>1, <2>2, <3>2 DEF StoreInv
  <2>4. CASE ~(disk.held # {} \/ disk.torn)
    <3>1. /\ disk' = [disk EXCEPT !.log = FALSE] /\ app' = [app EXCEPT !.phase = app.then]
          /\ store' = store /\ app.phase = "discard"
      BY <2>4 DEF Discard
    <3>2. Kept'
      BY <2>4, <3>1 DEF StoreInv, Kept, Phases
    <3> QED
      BY <2>0, <2>1, <2>2, <3>2 DEF StoreInv
  <2> QED
    BY <2>3, <2>4
<1>4. ASSUME StoreIsKept, DiscardFails PROVE StoreIsKept'
  <2> USE <1>4 DEF StoreIsKept
  <2>0. Working'
    BY DEF DiscardFails, Working, Ready, StoreInv, Kept
  <2>1. Fetches'
    BY FetchStays DEF DiscardFails, StoreInv
  <2>2. /\ app' = [app EXCEPT !.phase = app.then] /\ UNCHANGED <<disk, store, owed>>
        /\ app.phase = "discard" /\ app.then \in {"open", "reopen"}
    BY DEF DiscardFails, StoreInv, Kept
  <2>3. Kept'
    BY <2>2 DEF StoreInv, Kept, Phases
  <2>4. OwedInv'
    BY <2>2 DEF StoreInv, Kept, OwedInv
  <2> QED
    BY <2>0, <2>1, <2>3, <2>4 DEF StoreInv
<1>5. ASSUME StoreIsKept, OpenAgain PROVE StoreIsKept'
  <2> USE <1>5 DEF StoreIsKept
  <2>0. Working'
    BY DEF OpenAgain, Working, Ready, StoreInv, Kept
  <2>1. Fetches'
    BY FetchStays DEF OpenAgain, StoreInv
  <2>2. /\ app' = [app EXCEPT !.phase = "migrate", !.kept = ~disk.torn] /\ owed' = owed
        /\ app.phase = "open"
    BY DEF OpenAgain
  <2>3. /\ DOMAIN app' = DOMAIN app /\ app' = [f \in DOMAIN app' |-> app'[f]]
        /\ (app'.kept <=> ~disk.torn) /\ app'.phase = "migrate"
    BY <2>2 DEF StoreInv, Kept
  <2>4. CASE disk.torn
    <3>1. store' = Created /\ disk' = disk /\ disk.held = {}
      BY <2>4 DEF OpenAgain, StoreInv, Kept
    <3>2. owed = {}
      BY <2>2, <3>1 DEF StoreInv, OwedInv
    <3>3. Kept'
      BY <2>3, <2>4, <3>1, CreatedIs DEF StoreInv, Kept, Phases
    <3>4. OwedInv'
      BY <2>2, <2>3, <3>2 DEF OwedInv
    <3> QED
      BY <2>0, <2>1, <3>3, <3>4 DEF StoreInv
  <2>5. CASE ~disk.torn
    <3>1. store' = Opened /\ disk' = [disk EXCEPT !.held = {Opened}, !.log = TRUE]
      BY <2>5 DEF OpenAgain
    <3>2. /\ DOMAIN disk' = DOMAIN disk /\ disk' = [f \in DOMAIN disk' |-> disk'[f]]
          /\ disk'.held = {Opened} /\ ~disk'.torn
      BY <2>5, <3>1 DEF StoreInv, Kept
    <3>3. Kept'
      BY <2>3, <3>1, <3>2, OpenedIs DEF StoreInv, Kept, Phases
    <3>4. \A p \in owed : p \in Opened.pending
      BY <2>2, OpenedIs DEF StoreInv, OwedInv
    <3>5. OwedInv'
      BY <2>2, <2>3, <2>5, <3>2, <3>4 DEF OwedInv
    <3> QED
      BY <2>0, <2>1, <3>3, <3>5 DEF StoreInv
  <2> QED
    BY <2>4, <2>5
<1>6. ASSUME StoreIsKept, Migrate PROVE StoreIsKept'
  <2> USE <1>6 DEF StoreIsKept
  <2>0. Working'
    BY DEF Migrate, Working, Ready, StoreInv, Kept
  <2>1. Fetches'
    BY FetchStays DEF Migrate, StoreInv
  <2>2. owed' = owed /\ app.phase = "migrate"
    BY DEF Migrate
  <2>3. CASE Put(Step(store)) /\ UNCHANGED app
    <3>1. IsStore(Step(store)) /\ Step(store).pending = store.pending
      BY StepIs DEF StoreInv, Kept, Comes
    <3>2. app' = [app EXCEPT !.phase = "migrate"]
      BY <2>2, <2>3 DEF StoreInv, Kept
    <3>3. Kept' /\ OwedInv'
      BY <2>2, <2>3, <3>1, <3>2, PuttingSame
    <3> QED
      BY <2>0, <2>1, <3>3 DEF StoreInv
  <2>4. CASE app' = [app EXCEPT !.phase = "discard", !.then = "reopen"] /\ UNCHANGED <<disk, store>>
    <3>1. Kept'
      BY <2>4 DEF StoreInv, Kept, Phases
    <3>2. OwedInv'
      BY <2>2, <2>4 DEF StoreInv, Kept, OwedInv
    <3> QED
      BY <2>0, <2>1, <3>1, <3>2 DEF StoreInv
  <2> QED
    BY <2>3, <2>4 DEF Migrate
<1>7. ASSUME StoreIsKept, Reopen PROVE StoreIsKept'
  <2> USE <1>7 DEF StoreIsKept
  <2>0. Working'
    BY DEF Reopen, Working, Ready, StoreInv, Kept
  <2>1. Fetches'
    BY FetchStays DEF Reopen, StoreInv
  <2>2. owed' = owed /\ app.phase = "reopen"
    BY DEF Reopen
  <2>3. CASE disk.torn
    <3>1. app' = [app EXCEPT !.phase = "open workspace"] /\ UNCHANGED <<disk, store>>
      BY <2>3 DEF Reopen
    <3>2. Kept'
      BY <3>1 DEF StoreInv, Kept, Phases
    <3>3. OwedInv'
      BY <2>2, <3>1 DEF StoreInv, Kept, OwedInv
    <3> QED
      BY <2>0, <2>1, <3>2, <3>3 DEF StoreInv
  <2>4. CASE ~disk.torn
    <3>1. /\ app' = [app EXCEPT !.phase = "open workspace", !.kept = TRUE]
          /\ disk' = [disk EXCEPT !.held = {store'}, !.log = TRUE]
      BY <2>4 DEF Reopen
    <3>2. PICK before \in 1 .. app.run, to \in Reachable(Opened) :
            store' = Migrated(Evict(Opened, before), to)
      BY <2>4 DEF Reopen
    <3>3. to \in Nat
      <4>1. Opened.version \in Nat
        BY OpenedIs DEF StoreInv, IsStore
      <4> QED
        BY <4>1, StoreAssumption DEF Reachable
    <3>4. IsStore(store') /\ store'.pending = Opened.pending
      <4>1. IsStore(Opened)
        BY OpenedIs DEF StoreInv
      <4>2. IsStore(Evict(Opened, before)) /\ Evict(Opened, before).pending = Opened.pending
        BY <4>1, EvictIs DEF Comes
      <4> QED
        BY <3>2, <3>3, <4>2, MigratedIs DEF Comes
    <3>5. \A p \in owed : p \in Opened.pending
      BY <2>2, OpenedIs DEF StoreInv, OwedInv
    <3>6. /\ DOMAIN disk' = DOMAIN disk /\ disk' = [f \in DOMAIN disk' |-> disk'[f]]
          /\ disk'.held = {store'} /\ ~disk'.torn
          /\ DOMAIN app' = DOMAIN app /\ app' = [f \in DOMAIN app' |-> app'[f]]
          /\ app'.phase = "open workspace" /\ app'.kept
      <4>1. /\ DOMAIN disk = {"held", "torn", "log"} /\ disk = [f \in DOMAIN disk |-> disk[f]]
            /\ DOMAIN app = {"phase", "then", "run", "kept"} /\ app = [f \in DOMAIN app |-> app[f]]
        BY DEF StoreInv, Kept
      <4>2. /\ DOMAIN app' = DOMAIN app /\ app' = [f \in DOMAIN app' |-> app'[f]]
            /\ app'.phase = "open workspace" /\ app'.kept
        BY <3>1, <4>1
      <4>3. /\ DOMAIN disk' = DOMAIN disk /\ disk' = [f \in DOMAIN disk' |-> disk'[f]]
            /\ disk'.held = {store'} /\ disk'.torn = disk.torn
        BY <3>1, <4>1
      <4> QED
        BY <2>4, <4>2, <4>3
    <3>7. Kept'
      BY <3>4, <3>6 DEF StoreInv, Kept, Phases
    <3>8. OwedInv'
      BY <2>2, <3>4, <3>5, <3>6 DEF OwedInv
    <3> QED
      BY <2>0, <2>1, <3>7, <3>8 DEF StoreInv
  <2> QED
    BY <2>3, <2>4
<1>8. ASSUME StoreIsKept, EvictOld PROVE StoreIsKept'
  <2> USE <1>8 DEF StoreIsKept
  <2>0. Working'
    BY DEF EvictOld, Working, Ready, StoreInv, Kept
  <2>1. Fetches'
    BY FetchStays DEF EvictOld, StoreInv
  <2>2. PICK before \in 1 .. app.run : Put(Evict(store, before))
    BY DEF EvictOld
  <2>3. IsStore(Evict(store, before)) /\ Evict(store, before).pending = store.pending
    BY EvictIs DEF StoreInv, Kept, Comes
  <2>4. app.phase = "migrate" /\ app' = [app EXCEPT !.phase = "open workspace"] /\ owed' = owed
    BY DEF EvictOld
  <2>5. Kept' /\ OwedInv'
    BY <2>2, <2>3, <2>4, PuttingSame
  <2> QED
    BY <2>0, <2>1, <2>5 DEF StoreInv
<1>9. ASSUME StoreIsKept, OpenWorkspace PROVE StoreIsKept'
  <2> USE <1>9 DEF StoreIsKept
  <2>0. Working'
    BY DEF OpenWorkspace, Working, Ready, StoreInv, Kept
  <2>1. Fetches'
    BY FetchStays DEF OpenWorkspace, StoreInv
  <2>2. IsStore(Register(store)) /\ Register(store).pending = store.pending
    BY RegisterIs DEF StoreInv, Kept, Comes
  <2>3. /\ app.phase = "open workspace" /\ app' = [app EXCEPT !.phase = "ready"] /\ owed' = owed
        /\ Put(Register(store))
    BY DEF OpenWorkspace
  <2>4. Kept' /\ OwedInv'
    BY <2>2, <2>3, PuttingSame
  <2> QED
    BY <2>0, <2>1, <2>4 DEF StoreInv
<1>10. ASSUME StoreIsKept, DeleteWorkspace PROVE StoreIsKept'
  <2> USE <1>10 DEF StoreIsKept
  <2>0. Working'
    BY DEF DeleteWorkspace, Working, Ready
  <2>1. Fetches'
    BY FetchStays DEF DeleteWorkspace, StoreInv
  <2>2. IsStore(Forget(store))
    BY ForgetIs DEF StoreInv, Kept
  <2>3. app' = [app EXCEPT !.phase = "ready"] /\ Put(Forget(store)) /\ owed' = {}
    BY DEF DeleteWorkspace, Ready, StoreInv, Kept
  <2>4. Kept' /\ OwedInv'
    BY <2>2, <2>3, Putting
  <2> QED
    BY <2>0, <2>1, <2>4 DEF StoreInv
<1>11. ASSUME StoreIsKept, End PROVE StoreIsKept'
  <2> USE <1>11 DEF StoreIsKept
  <2>0. Working'
    BY DEF End, Rested, Working
  <2>1. Fetches'
    BY FetchStays DEF End, Rested, StoreInv
  <2>2. /\ app' = [app EXCEPT !.phase = "stopped", !.kept = FALSE] /\ store' = Created
        /\ disk' = disk /\ owed' = IF app.kept THEN owed ELSE {}
    BY DEF End
  <2>3. Kept'
    BY <2>2, CreatedIs DEF StoreInv, Kept, Phases
  <2>4. OwedInv'
    BY <2>2 DEF StoreInv, Kept, OwedInv
  <2> QED
    BY <2>0, <2>1, <2>3, <2>4 DEF StoreInv
<1>12. ASSUME StoreIsKept, LoseConnection PROVE StoreIsKept'
  <2> USE <1>12 DEF StoreIsKept
  <2>1. Kept' /\ OwedInv'
    BY StoreStays DEF LoseConnection
  <2>2. Fetches'
    <3>1. fetch' = [x \in {"tree", "prefetch"} |-> NoFetch]
      BY DEF LoseConnection, StoreInv, Fetches
    <3> QED
      BY <3>1, FetchStays DEF StoreInv
  <2>3. Working'
    BY DEF LoseConnection, Working, Ready
  <2> QED
    BY <2>1, <2>2, <2>3 DEF StoreInv
<1>13. ASSUME StoreIsKept, Connect PROVE StoreIsKept'
  <2> USE <1>13 DEF StoreIsKept
  <2>1. Kept' /\ OwedInv'
    BY StoreStays DEF Connect
  <2>2. Fetches'
    BY FetchStays DEF Connect, StoreInv
  <2>3. Working'
    BY DEF Connect, Working, Ready
  <2> QED
    BY <2>1, <2>2, <2>3 DEF StoreInv
<1>14. ASSUME StoreIsKept, NEW p \in Files, NEW content, HostChanges(p, content) PROVE StoreIsKept'
  <2> USE <1>14 DEF StoreIsKept
  <2>1. Kept' /\ OwedInv'
    BY StoreStays DEF HostChanges
  <2>2. Fetches'
    BY FetchStays DEF HostChanges, StoreInv
  <2>3. Working'
    <3>1. CASE Ready
      BY <3>1 DEF HostChanges, Working, Ready
    <3>2. CASE ~Ready
      <4>1. read.at = "idle"
        BY <3>2 DEF Working, Quiet
      <4> QED
        BY <3>2, <4>1 DEF HostChanges, Working, Ready
    <3> QED
      BY <3>1, <3>2
  <2> QED
    BY <2>1, <2>2, <2>3 DEF StoreInv
<1>15. ASSUME StoreIsKept, NEW p \in Files, NEW whole, ReadFile(p, whole) PROVE StoreIsKept'
  <2> USE <1>15 DEF StoreIsKept
  <2>1. Ready /\ UNCHANGED <<disk, store, app, owed>>
    BY DEF ReadFile, Online
  <2>2. UNCHANGED fetch \/ \E x \in {"tree", "prefetch"} : \E d : Asked(x, d)
    BY DEF ReadFile
  <2> QED
    BY <2>1, <2>2, WhileReady
<1>16. ASSUME StoreIsKept, NEW p \in Files, Retain(p) PROVE StoreIsKept'
  <2> USE <1>16 DEF StoreIsKept
  <2>0. Working'
    BY DEF Retain, Working, Ready
  <2>1. Fetches'
    BY FetchStays DEF Retain, StoreInv
  <2>2. /\ app' = [app EXCEPT !.phase = "ready"]
        /\ Put(RetainEdit(store, p)) /\ owed' = owed \cup {p}
        /\ Retains(store) /\ app.phase = "ready"
    BY DEF Retain, Ready, StoreInv, Kept
  <2>3. IsStore(RetainEdit(store, p)) /\ store.pending \cup {p} \subseteq RetainEdit(store, p).pending
    BY <2>2, EditIs DEF StoreInv, Kept
  <2>4. owed \subseteq store.pending
    BY <2>2 DEF StoreInv, OwedInv
  <2>5. Kept' /\ OwedInv'
    BY <2>2, <2>3, <2>4, Putting
  <2> QED
    BY <2>0, <2>1, <2>5 DEF StoreInv
<1>17. ASSUME StoreIsKept, NEW p \in Files, Settled(p) PROVE StoreIsKept'
  <2> USE <1>17 DEF StoreIsKept
  <2>0. Working'
    BY DEF Settled, Working, Ready, Online
  <2>1. Fetches'
    BY FetchStays DEF Settled, StoreInv
  <2>2. /\ app' = [app EXCEPT !.phase = "ready"]
        /\ Put(ForgetPending(store, p)) /\ owed' = owed \ {p}
        /\ app.phase = "ready"
    BY DEF Settled, Online, Ready, StoreInv, Kept
  <2>3. IsStore(ForgetPending(store, p)) /\ ForgetPending(store, p).pending = store.pending \ {p}
    BY EditIs DEF StoreInv, Kept
  <2>4. owed \subseteq store.pending
    BY <2>2 DEF StoreInv, OwedInv
  <2>5. Kept' /\ OwedInv'
    BY <2>2, <2>3, <2>4, Putting
  <2> QED
    BY <2>0, <2>1, <2>5 DEF StoreInv
<1>18. ASSUME StoreIsKept, Confirmed PROVE StoreIsKept'
  <2> USE <1>18 DEF StoreIsKept
  <2>0. Ready
    BY DEF Confirmed, Working, Quiet
  <2>1. Working'
    BY <2>0 DEF Confirmed, Working, Ready
  <2>2. Fetches'
    BY FetchStays DEF Confirmed, StoreInv
  <2>3. ASSUME Put(ClearUnproven(Touch(store, read.path, app.run), read.path))
        PROVE  Kept' /\ OwedInv'
    <3>1. IsStore(Touch(store, read.path, app.run)) /\ Touch(store, read.path, app.run).pending = store.pending
      BY TouchIs DEF StoreInv, Kept, Comes
    <3> DEFINE t == ClearUnproven(Touch(store, read.path, app.run), read.path)
    <3>2. IsStore(t) /\ t.pending = store.pending
      BY <3>1, ClearIs DEF Comes
    <3> HIDE DEF t
    <3>3. Put(t)
      BY <2>3 DEF t
    <3>4. UNCHANGED <<app, owed>>
      BY DEF Confirmed
    <3> QED
      BY <2>0, <3>2, <3>3, <3>4, ReadyPut
  <2>4. ASSUME UNCHANGED <<disk, store>> PROVE Kept' /\ OwedInv'
    <3>1. UNCHANGED <<app, owed>>
      BY DEF Confirmed
    <3> QED
      BY <2>4, <3>1, StoreStays
  <2>9. Kept' /\ OwedInv'
    <3>1. \/ Put(ClearUnproven(Touch(store, read.path, app.run), read.path))
          \/ UNCHANGED <<disk, store>>
      BY DEF Confirmed
    <3> QED
      BY <2>3, <2>4, <3>1
  <2> QED
    BY <2>1, <2>2, <2>9 DEF StoreInv
<1>19. ASSUME StoreIsKept, FetchAndCache PROVE StoreIsKept'
  <2> USE <1>19 DEF StoreIsKept
  <2>0. Ready
    BY DEF FetchAndCache, Working, Quiet
  <2>1. Working'
    BY <2>0 DEF FetchAndCache, Working, Ready
  <2>2. Fetches'
    BY FetchStays DEF FetchAndCache, StoreInv
  <2>3. ASSUME UNCHANGED <<disk, store>> PROVE Kept' /\ OwedInv'
    <3>1. UNCHANGED <<app, owed>>
      BY DEF FetchAndCache
    <3> QED
      BY <2>3, <3>1, StoreStays
  <2>4. ASSUME NEW t, t = PutContent(store, read.path, read.bytes, read.hash, app.run), Put(t)
        PROVE  Kept' /\ OwedInv'
    <3>1. IsStore(t) /\ t.pending = store.pending
      BY <2>4, PutIs DEF StoreInv, Kept
    <3>2. UNCHANGED <<app, owed>>
      BY DEF FetchAndCache
    <3> QED
      BY <2>0, <2>4, <3>1, <3>2, ReadyPut
  <2>9. Kept' /\ OwedInv'
    <3>1. \/ Put(PutContent(store, read.path, read.bytes, read.hash, app.run))
          \/ UNCHANGED <<disk, store>>
      BY DEF FetchAndCache
    <3> QED
      BY <2>3, <2>4, <3>1
  <2> QED
    BY <2>1, <2>2, <2>9 DEF StoreInv
<1>20. ASSUME StoreIsKept, Stat \/ ConfirmElapses \/ EngineSize \/ EngineBytes \/ EngineDigest \/
             BulkFetch
      PROVE  StoreIsKept'
  <2> USE <1>20 DEF StoreIsKept
  <2>1. Ready
    BY DEF Working, Quiet, NoSave, NoPrefetch, Online, Only,
           Stat, ConfirmElapses, EngineSize, EngineBytes, EngineDigest, BulkFetch
  <2>2. /\ UNCHANGED <<disk, store, app, owed>>
        /\ UNCHANGED fetch \/ \E x \in {"tree", "prefetch"} : \E d : Asked(x, d)
    BY DEF Stat, ConfirmElapses, EngineSize, EngineBytes, EngineDigest, BulkFetch
  <2> QED
    BY <2>1, <2>2, WhileReady
<1>21. ASSUME StoreIsKept, NEW text, SaveFile(text) PROVE StoreIsKept'
  <2> USE <1>21 DEF StoreIsKept
  <2>1. Ready /\ UNCHANGED <<disk, store, app, owed>>
    BY DEF SaveFile, Online
  <2>2. UNCHANGED fetch \/ \E x \in {"tree", "prefetch"} : \E d : Asked(x, d)
    BY DEF SaveFile
  <2> QED
    BY <2>1, <2>2, WhileReady
<1>22. ASSUME StoreIsKept, EngineCompare \/ EngineReplace \/ EngineReread
      PROVE  StoreIsKept'
  <2> USE <1>22 DEF StoreIsKept
  <2>1. Ready
    BY DEF Working, Quiet, NoSave, NoPrefetch, Online, Only,
           EngineCompare, EngineReplace, EngineReread
  <2>2. /\ UNCHANGED <<disk, store, app, owed>>
        /\ UNCHANGED fetch \/ \E x \in {"tree", "prefetch"} : \E d : Asked(x, d)
    BY DEF EngineCompare, EngineReplace, EngineReread
  <2> QED
    BY <2>1, <2>2, WhileReady
<1>23. ASSUME StoreIsKept, Written PROVE StoreIsKept'
  <2> USE <1>23 DEF StoreIsKept
  <2>0. Ready
    BY DEF Written, Working, NoSave
  <2>1. Working'
    BY <2>0 DEF Written, Working, Ready
  <2>2. Fetches'
    BY FetchStays DEF Written, StoreInv
  <2>3. ASSUME UNCHANGED <<disk, store>> PROVE Kept' /\ OwedInv'
    <3>1. UNCHANGED <<app, owed>>
      BY DEF Written
    <3> QED
      BY <2>3, <3>1, StoreStays
  <2>4. ASSUME NEW t, t = PutContent(store, save.path, save.text, save.base, app.run), Put(t)
        PROVE  Kept' /\ OwedInv'
    <3>1. IsStore(t) /\ t.pending = store.pending
      BY <2>4, PutIs DEF StoreInv, Kept
    <3>2. UNCHANGED <<app, owed>>
      BY DEF Written
    <3> QED
      BY <2>0, <2>4, <3>1, <3>2, ReadyPut
  <2>5. ASSUME Put(MarkUnproven(store, save.path))
        PROVE  Kept' /\ OwedInv'
    <3> DEFINE t == MarkUnproven(store, save.path)
    <3>1. IsStore(t) /\ t.pending = store.pending
      BY MarkIs DEF StoreInv, Kept, Comes
    <3> HIDE DEF t
    <3>2. Put(t)
      BY <2>5 DEF t
    <3>3. UNCHANGED <<app, owed>>
      BY DEF Written
    <3> QED
      BY <2>0, <3>1, <3>2, <3>3, ReadyPut
  <2>9. Kept' /\ OwedInv'
    <3>1. \/ UNCHANGED <<disk, store>>
          \/ Put(PutContent(store, save.path, save.text, save.base, app.run))
          \/ Put(MarkUnproven(store, save.path))
      BY DEF Written
    <3> QED
      BY <2>3, <2>4, <2>5, <3>1
  <2> QED
    BY <2>1, <2>2, <2>9 DEF StoreInv
<1>24. ASSUME StoreIsKept, NEW dir, ReadDirectory(dir) PROVE StoreIsKept'
  <2> USE <1>24 DEF StoreIsKept
  <2>1. Ready /\ UNCHANGED <<disk, store, app, owed>>
    BY DEF ReadDirectory, Online
  <2>2. UNCHANGED fetch \/ \E x \in {"tree", "prefetch"} : \E d : Asked(x, d)
    BY DEF ReadDirectory
  <2> QED
    BY <2>1, <2>2, WhileReady
<1>25. ASSUME StoreIsKept, NEW x \in {"tree", "prefetch"}, EngineLists(x) PROVE StoreIsKept'
  <2> USE <1>25 DEF StoreIsKept
  <2>1. Kept' /\ OwedInv'
    BY StoreStays DEF EngineLists
  <2>2. Fetches'
    <3>1. DOMAIN HostListing(fetch[x].dir) \subseteq Paths
      BY DEF HostListing, Paths
    <3>2. fetch' = [fetch EXCEPT ![x].at = "answered", ![x].listing = HostListing(fetch[x].dir)]
      BY DEF EngineLists
    <3> QED
      BY <3>1, <3>2 DEF StoreInv, Fetches
  <2>3. Working'
    BY DEF EngineLists, Working, Ready, NoFetch
  <2> QED
    BY <2>1, <2>2, <2>3 DEF StoreInv
<1>26. ASSUME StoreIsKept, NEW x \in {"tree", "prefetch"}, Listed(x) PROVE StoreIsKept'
  <2> USE <1>26 DEF StoreIsKept
  <2>0. Ready
    BY DEF Listed, Working, NoFetch
  <2>1. Working'
    BY <2>0 DEF Listed, Working, Ready
  <2>2. Fetches'
    BY DEF Listed, StoreInv, Fetches, NoFetch
  <2> DEFINE t == PutListing(store, fetch[x].dir, fetch[x].listing)
  <2>3. IsStore(t) /\ t.pending = store.pending
    BY ListingIs DEF StoreInv, Kept, Fetches, Comes, Listed
  <2>4. Put(t) /\ UNCHANGED <<app, owed>>
    BY DEF Listed
  <2> HIDE DEF t
  <2>9. Kept' /\ OwedInv'
    BY <2>0, <2>3, <2>4, ReadyPut
  <2> QED
    BY <2>1, <2>2, <2>9 DEF StoreInv
<1>27. ASSUME StoreIsKept, StartPrefetch \/ Candidates \/ NextCandidate \/ ListWay \/
             WithinBudget \/ RangeSize \/ RangeBytes \/ RangeDigest
      PROVE  StoreIsKept'
  <2> USE <1>27 DEF StoreIsKept
  <2>1. Ready
    BY DEF Working, Quiet, NoSave, NoPrefetch, Online, Only,
           StartPrefetch, Candidates, NextCandidate, ListWay, WithinBudget, RangeSize,
           RangeBytes, RangeDigest
  <2>2. /\ UNCHANGED <<disk, store, app, owed>>
        /\ UNCHANGED fetch \/ \E x \in {"tree", "prefetch"} : \E d : Asked(x, d)
    BY DEF StartPrefetch, Candidates, NextCandidate, ListWay, WithinBudget, RangeSize,
           RangeBytes, RangeDigest
  <2> QED
    BY <2>1, <2>2, WhileReady
<1>28. ASSUME StoreIsKept, CacheRanges PROVE StoreIsKept'
  <2> USE <1>28 DEF StoreIsKept
  <2>0. Ready
    BY DEF CacheRanges, Working, NoPrefetch
  <2>1. Working'
    BY <2>0 DEF CacheRanges, Working, Ready, Skip
  <2>2. Fetches'
    BY FetchStays DEF CacheRanges, StoreInv
  <2>3. ASSUME UNCHANGED <<disk, store>> PROVE Kept' /\ OwedInv'
    <3>1. UNCHANGED <<app, owed>>
      BY DEF CacheRanges
    <3> QED
      BY <2>3, <3>1, StoreStays
  <2>4. ASSUME \E digest \in pre.first :
               Put(PutContent(store, Head(pre.left), pre.got, digest, app.run))
        PROVE  Kept' /\ OwedInv'
    <3>1. PICK digest \in pre.first : Put(PutContent(store, Head(pre.left), pre.got, digest, app.run))
      BY <2>4
    <3> DEFINE t == PutContent(store, Head(pre.left), pre.got, digest, app.run)
    <3>2. IsStore(t) /\ t.pending = store.pending
      BY PutIs DEF StoreInv, Kept
    <3> HIDE DEF t
    <3>3. Put(t)
      BY <3>1 DEF t
    <3>4. UNCHANGED <<app, owed>>
      BY DEF CacheRanges
    <3> QED
      BY <2>0, <3>2, <3>3, <3>4, ReadyPut
  <2>9. Kept' /\ OwedInv'
    <3>1. \/ \E digest \in pre.first :
               Put(PutContent(store, Head(pre.left), pre.got, digest, app.run))
          \/ UNCHANGED <<disk, store>>
      BY DEF CacheRanges
    <3> QED
      BY <2>3, <2>4, <3>1
  <2> QED
    BY <2>1, <2>2, <2>9 DEF StoreInv
<1>29. StoreIsKept /\ UNCHANGED vars => StoreIsKept'
  <2> SUFFICES ASSUME StoreIsKept, UNCHANGED vars PROVE StoreIsKept'
    OBVIOUS
  <2>1. Kept' /\ OwedInv'
    BY StoreStays DEF StoreIsKept, vars
  <2>2. Fetches'
    BY FetchStays DEF StoreIsKept, StoreInv, vars
  <2> QED
    BY <2>1, <2>2 DEF StoreIsKept, StoreInv, Working, Ready, vars
<1>30. StoreIsKept /\ [Next]_vars => StoreIsKept'
  <2>1. StoreIsKept => DOMAIN fetch = {"tree", "prefetch"}
    BY DEF StoreIsKept, StoreInv, Fetches
  <2> QED
    BY <1>2, <1>3, <1>4, <1>5, <1>6, <1>7, <1>8, <1>9, <1>10, <1>11, <1>12, <1>13, <1>14,
       <1>15, <1>16, <1>17, <1>18, <1>19, <1>20, <1>21, <1>22, <1>23, <1>24, <1>25, <1>26,
       <1>27, <1>28, <1>29, <2>1
       DEF Next
<1> QED
  BY <1>1, <1>30, PTL DEF Spec
-----------------------------------------------------------------------------
(* The host's files, the read and the save in flight                         *)

Hosts == host \in [Files -> Contents \cup {Absent}]

\* A digest in hand is one the host's file had since the call began; a whole file
\* that did not change between the engine's reads has the digest it came with.
Reads ==
  /\ DOMAIN read = {"at", "path", "whole", "entry", "size", "bytes", "hash", "how", "seen", "raced"}
  /\ read = [f \in DOMAIN read |-> read[f]]
  /\ read.at # "idle" => read.path \in Files
  /\ read.at \notin {"idle", "done"} => host[read.path] \in read.seen
  /\ read.at \in {"confirmed", "answered", "bulk"} => read.hash \in read.seen
  /\ read.at = "done" /\ read.how = "Current" => read.hash \in read.seen
  /\ read.whole /\ ~read.raced =>
       /\ read.at = "bytes" => read.size = Len(host[read.path])
       /\ read.at = "digest" => read.bytes = host[read.path]
       /\ read.at = "answered" => read.bytes = read.hash

Saves ==
  /\ DOMAIN save = {"at", "path", "text", "base", "heard"} /\ save = [f \in DOMAIN save |-> save[f]]
  /\ save.at # "idle" => save.path \in Files /\ save.text \in Contents

CallsInv == Hosts /\ Reads /\ Saves

\* A call that comes to an end, with whatever is answered.
LEMMA Answered ==
  ASSUME Reads, read.at # "idle", NEW how, NEW b, NEW h, Settle(how, b, h),
         how = "Current" => h \in read.seen
  PROVE  Reads'
<1> DEFINE part == IF read.whole THEN b ELSE Part(b, 1, Chunk)
<1>1. read' = [read EXCEPT !.at = "done", !.how = how, !.hash = h, !.bytes = part]
  BY DEF Settle, Answer
<1> HIDE DEF part
<1>2. /\ DOMAIN read' = DOMAIN read /\ read' = [f \in DOMAIN read' |-> read'[f]]
      /\ read'.at = "done" /\ read'.how = how /\ read'.hash = h
      /\ read'.path = read.path /\ read'.seen = read.seen
  BY <1>1 DEF Reads
<1> QED
  BY <1>2 DEF Reads

\* A file of the host changes.
LEMMA Changed ==
  ASSUME Hosts, Reads, NEW p \in Files, NEW c \in Contents \cup {Absent},
         host' = [host EXCEPT ![p] = c],
         read' = IF read.path # p \/ read.at \in {"idle", "done"} THEN read
                 ELSE [read EXCEPT !.seen = @ \cup {Digest(c)},
                                   !.raced = @ \/ read.at \in {"bytes", "digest"}]
  PROVE  Hosts' /\ Reads'
<1>1. Hosts'
  BY DEF Hosts
<1>2. CASE read.path # p \/ read.at \in {"idle", "done"}
  <2>1. read' = read
    BY <1>2
  <2>2. read.at \notin {"idle", "done"} => host'[read.path] = host[read.path]
    BY <1>2 DEF Hosts, Reads
  <2> QED
    BY <1>1, <2>1, <2>2 DEF Reads
<1>3. CASE ~(read.path # p \/ read.at \in {"idle", "done"})
  <2> DEFINE r == read.raced \/ read.at \in {"bytes", "digest"}
  <2>1. read' = [read EXCEPT !.seen = read.seen \cup {c}, !.raced = r]
    BY <1>3 DEF Digest
  <2>2. read.at \in {"bytes", "digest"} => r
    OBVIOUS
  <2>3. ~r => ~read.raced
    OBVIOUS
  <2> HIDE DEF r
  <2>4. host'[p] = c
    BY DEF Hosts
  <2>5. /\ DOMAIN read' = DOMAIN read /\ read' = [f \in DOMAIN read' |-> read'[f]]
        /\ read'.at = read.at /\ read'.path = read.path /\ read'.whole = read.whole
        /\ read'.bytes = read.bytes /\ read'.hash = read.hash /\ read'.how = read.how
        /\ read'.size = read.size /\ read'.seen = read.seen \cup {c} /\ read'.raced = r
    BY <2>1 DEF Reads
  <2> QED
    BY <1>1, <1>3, <2>2, <2>3, <2>4, <2>5 DEF Reads
<1> QED
  BY <1>1, <1>2, <1>3

\* The steps that are no part of a read or a save.
Other ==
  \/ Open \/ Discard \/ DiscardFails \/ OpenAgain \/ Migrate \/ Reopen \/ EvictOld
  \/ OpenWorkspace \/ DeleteWorkspace \/ Connect \/ \E p \in Files : Retain(p) \/ Settled(p)
  \/ \E dir \in Dirs \cup {Root} : ReadDirectory(dir)
  \/ \E x \in DOMAIN fetch : EngineLists(x) \/ Listed(x)
  \/ StartPrefetch \/ Candidates \/ NextCandidate \/ ListWay \/ WithinBudget
  \/ RangeSize \/ RangeBytes \/ RangeDigest \/ CacheRanges

\* They leave the host and both calls as they are.
LEMMA OtherLeaves == Other => UNCHANGED <<host, read, save>>
BY DEF Other, Open, Discard, DiscardFails, OpenAgain, Migrate, Reopen, EvictOld, OpenWorkspace,
       DeleteWorkspace, Connect, Retain, Settled, ReadDirectory, EngineLists, Listed,
       StartPrefetch, Candidates, NextCandidate, ListWay, WithinBudget, RangeSize, RangeBytes,
       RangeDigest, CacheRanges

\* So the invariant of the calls stays.
LEMMA Unmoved ==
  ASSUME CallsInv, UNCHANGED <<host, read, save>>
  PROVE  CallsInv'
BY DEF CallsInv, Hosts, Reads, Saves

\* The invariant of the calls, by cases of the next step.
LEMMA CallsHold == Spec => []CallsInv
<1>1. Init => CallsInv
  <2> SUFFICES ASSUME Init PROVE CallsInv
    OBVIOUS
  <2>1. /\ host \in [Files -> {c \in Contents : Len(c) <= InlineRead}]
        /\ read = Quiet /\ save = NoSave
    BY DEF Init
  <2>2. Hosts
    BY <2>1 DEF Hosts
  <2> QED
    BY <2>1, <2>2 DEF CallsInv, Reads, Saves, Quiet, NoSave
<1>2. ASSUME CallsInv, LoseConnection PROVE CallsInv'
  <2> USE <1>2 DEF CallsInv
  <2>1. Reads'
    <3>1. host' = host /\ read' = IF read.at \in {"idle", "done"} THEN read
                                  ELSE [read EXCEPT !.at = "done", !.how = "Offline"]
      BY DEF LoseConnection
    <3> QED
      BY <3>1 DEF Reads
  <2>2. Saves'
    <3>1. save' = [save EXCEPT !.heard = FALSE]
      BY DEF LoseConnection
    <3> QED
      BY <3>1 DEF Saves
  <2> QED
    BY <2>1, <2>2 DEF LoseConnection, Hosts
<1>3. ASSUME CallsInv, End PROVE CallsInv'
  <2> USE <1>3 DEF CallsInv
  <2>1. host' = host /\ read' = Quiet /\ save' = NoSave
    BY DEF End, Rested
  <2> QED
    BY <2>1 DEF Hosts, Reads, Saves, Quiet, NoSave
<1>4. ASSUME CallsInv, NEW p \in Files, NEW content \in Contents \cup {Absent}, HostChanges(p, content)
      PROVE  CallsInv'
  <2> USE <1>4 DEF CallsInv
  <2>1. Hosts' /\ Reads'
    BY Changed DEF HostChanges
  <2> QED
    BY <2>1 DEF HostChanges, Saves
<1>5. ASSUME CallsInv, NEW p \in Files, NEW whole, ReadFile(p, whole) PROVE CallsInv'
  <2> USE <1>5 DEF CallsInv
  <2>1. host' = host /\ save' = save
    BY DEF ReadFile
  <2> DEFINE r == Called(p, whole)
  <2>2. /\ DOMAIN r = {"at", "path", "whole", "entry", "size", "bytes", "hash", "how", "seen", "raced"}
        /\ r = [f \in DOMAIN r |-> r[f]]
        /\ r.path = p /\ r.seen = {host[p]} /\ r.at \in {"size", "confirm"}
    BY DEF Called, Quiet, Digest
  <2> HIDE DEF r
  <2>3. CASE read' = r
    BY <2>1, <2>2, <2>3 DEF Hosts, Reads, Saves
  <2>4. ASSUME NEW how, how # "Current", NEW b, NEW h, read' = Answer(r, how, b, h)
        PROVE  Reads'
    <3> DEFINE part == IF r.whole THEN b ELSE Part(b, 1, Chunk)
    <3>1. read' = [r EXCEPT !.at = "done", !.how = how, !.hash = h, !.bytes = part]
      BY <2>4 DEF Answer
    <3> HIDE DEF part
    <3>2. /\ DOMAIN read' = DOMAIN r /\ read' = [f \in DOMAIN read' |-> read'[f]]
          /\ read'.at = "done" /\ read'.how = how /\ read'.path = p
      BY <2>2, <3>1
    <3> QED
      BY <2>2, <2>4, <3>2 DEF Reads
  <2>5. \/ read' = r
        \/ read' = Answer(r, "Unavailable", <<>>, <<>>)
        \/ \E entry \in Lookup(store, p) : read' = Answer(r, "PossiblyStale", entry.bytes, entry.hash)
    BY DEF ReadFile, r
  <2> QED
    BY <2>1, <2>3, <2>4, <2>5 DEF Hosts, Saves
<1>6. ASSUME CallsInv, Stat PROVE CallsInv'
  <2> USE <1>6 DEF CallsInv
  <2>1. /\ read.at = "confirm" /\ host' = host /\ save' = save
        /\ read' = [read EXCEPT !.at = "confirmed", !.hash = host[read.path]]
    BY DEF Stat, Digest
  <2>2. Reads'
    BY <2>1 DEF Reads
  <2> QED
    BY <2>1, <2>2 DEF Hosts, Saves
<1>7. ASSUME CallsInv, Confirmed PROVE CallsInv'
  <2> USE <1>7 DEF CallsInv
  <2>1. read.at = "confirmed" /\ host' = host /\ save' = save
    BY DEF Confirmed
  <2>2. PICK entry \in read.entry :
          \/ entry.hash = read.hash /\ Settle("Current", entry.bytes, entry.hash)
          \/ read' = [read EXCEPT !.at = "size"]
          \/ Settle("Failed", <<>>, <<>>)
    BY DEF Confirmed, Compared
  <2>3. CASE read' = [read EXCEPT !.at = "size"]
    BY <2>1, <2>3 DEF Hosts, Reads, Saves
  <2>4. CASE entry.hash = read.hash /\ Settle("Current", entry.bytes, entry.hash)
    <3>1. entry.hash \in read.seen
      BY <2>1, <2>4 DEF Reads
    <3>2. Reads'
      BY <2>1, <2>4, <3>1, Answered
    <3> QED
      BY <2>1, <3>2 DEF Hosts, Saves
  <2>5. CASE Settle("Failed", <<>>, <<>>)
    BY <2>1, <2>5, Answered DEF Hosts, Saves
  <2> QED
    BY <2>2, <2>3, <2>4, <2>5
<1>8. ASSUME CallsInv, ConfirmElapses PROVE CallsInv'
  <2> USE <1>8 DEF CallsInv
  <2>1. read.at # "idle" /\ host' = host /\ save' = save
    BY DEF ConfirmElapses
  <2>2. PICK entry \in read.entry : Settle("Unverified", entry.bytes, entry.hash)
    BY DEF ConfirmElapses
  <2> QED
    BY <2>1, <2>2, Answered DEF Hosts, Saves
<1>9. ASSUME CallsInv, EngineSize PROVE CallsInv'
  <2> USE <1>9 DEF CallsInv
  <2>1. read.at = "size" /\ host' = host /\ save' = save
    BY DEF EngineSize
  <2>2. CASE Settle("Failed", <<>>, <<>>)
    BY <2>1, <2>2, Answered DEF Hosts, Saves
  <2>3. CASE read' = [read EXCEPT !.at = "bulk", !.hash = host[read.path]]
    BY <2>1, <2>3 DEF Hosts, Reads, Saves
  <2>4. CASE read' = [read EXCEPT !.at = "bytes",
                        !.size = IF read.whole THEN Len(host[read.path]) ELSE Chunk]
    <3> DEFINE n == IF read.whole THEN Len(host[read.path]) ELSE Chunk
    <3>1. read.whole => n = Len(host[read.path])
      OBVIOUS
    <3>2. read' = [read EXCEPT !.at = "bytes", !.size = n]
      BY <2>4
    <3> HIDE DEF n
    <3>3. Reads'
      BY <2>1, <3>1, <3>2 DEF Reads
    <3> QED
      BY <2>1, <3>3 DEF Hosts, Saves
  <2> QED
    BY <2>2, <2>3, <2>4 DEF EngineSize, Digest
<1>10. ASSUME CallsInv, EngineBytes PROVE CallsInv'
  <2> USE <1>10 DEF CallsInv
  <2>1. read.at = "bytes" /\ host' = host /\ save' = save
    BY DEF EngineBytes
  <2>2. CASE Settle("Failed", <<>>, <<>>)
    BY <2>1, <2>2, Answered DEF Hosts, Saves
  <2>3. CASE read' = [read EXCEPT !.at = "digest", !.bytes = Part(host[read.path], 1, read.size)]
    <3>1. host[read.path] \in Seq(Nat)
      <4>1. host[read.path] \in Contents \cup {<<>>}
        BY <2>1 DEF Hosts, Reads, Absent
      <4>2. <<>> \in Seq(Nat)
        OBVIOUS
      <4> QED
        BY <4>1, <4>2, CacheAssumption
    <3>2. read.whole /\ ~read.raced => Part(host[read.path], 1, read.size) = host[read.path]
      <4>1. SubSeq(host[read.path], 1, Len(host[read.path])) = host[read.path]
        BY <3>1, SubSeqFull
      <4> QED
        BY <2>1, <3>1, <4>1 DEF Reads, Part
    <3>3. Reads'
      BY <2>1, <2>3, <3>2 DEF Reads
    <3> QED
      BY <2>1, <3>3 DEF Hosts, Saves
  <2> QED
    BY <2>2, <2>3 DEF EngineBytes
<1>11. ASSUME CallsInv, EngineDigest PROVE CallsInv'
  <2> USE <1>11 DEF CallsInv
  <2>1. read.at = "digest" /\ host' = host /\ save' = save
    BY DEF EngineDigest
  <2>2. CASE Settle("Failed", <<>>, <<>>)
    BY <2>1, <2>2, Answered DEF Hosts, Saves
  <2>3. CASE read' = [read EXCEPT !.at = "answered", !.hash = host[read.path]]
    BY <2>1, <2>3 DEF Hosts, Reads, Saves
  <2> QED
    BY <2>2, <2>3 DEF EngineDigest, Digest
<1>12. ASSUME CallsInv, BulkFetch PROVE CallsInv'
  <2> USE <1>12 DEF CallsInv
  <2>1. read.at = "bulk" /\ host' = host /\ save' = save
    BY DEF BulkFetch
  <2>2. CASE Settle("Failed", <<>>, <<>>)
    BY <2>1, <2>2, Answered DEF Hosts, Saves
  <2>3. CASE host[read.path] = read.hash /\ read' = [read EXCEPT !.at = "answered", !.bytes = host[read.path]]
    BY <2>1, <2>3 DEF Hosts, Reads, Saves
  <2> QED
    BY <2>2, <2>3 DEF BulkFetch, Digest
<1>13. ASSUME CallsInv, FetchAndCache PROVE CallsInv'
  <2> USE <1>13 DEF CallsInv
  <2>1. /\ read.at = "answered" /\ host' = host /\ save' = save
        /\ Settle("Current", read.bytes, read.hash)
    BY DEF FetchAndCache
  <2>2. read.hash \in read.seen
    BY <2>1 DEF Reads
  <2>3. Reads'
    BY <2>1, <2>2, Answered
  <2> QED
    BY <2>1, <2>3 DEF Hosts, Saves
<1>14. ASSUME CallsInv, NEW text \in Contents, SaveFile(text) PROVE CallsInv'
  <2> USE <1>14 DEF CallsInv
  <2>1. /\ host' = host /\ read' = read /\ read.at = "done"
        /\ save' = [at |-> "compare", path |-> read.path, text |-> text, base |-> read.hash, heard |-> TRUE]
    BY DEF SaveFile
  <2>2. Saves'
    BY <2>1 DEF Saves, Reads
  <2> QED
    BY <2>1, <2>2 DEF Hosts, Reads
<1>15. ASSUME CallsInv, EngineCompare PROVE CallsInv'
  <2> USE <1>15 DEF CallsInv
  <2>1. /\ host' = host /\ read' = read /\ save.at = "compare"
        /\ save' \in {[save EXCEPT !.at = "replace"], NoSave}
    BY DEF EngineCompare
  <2>2. Saves'
    BY <2>1 DEF Saves, NoSave
  <2> QED
    BY <2>1, <2>2 DEF Hosts, Reads
<1>16. ASSUME CallsInv, EngineReplace PROVE CallsInv'
  <2> USE <1>16 DEF CallsInv
  <2>1. /\ save.at = "replace" /\ save' = [save EXCEPT !.at = "reread"]
        /\ save.path \in Files /\ save.text \in Contents
    BY DEF EngineReplace, Saves
  <2>2. Hosts' /\ Reads'
    BY <2>1, Changed DEF EngineReplace
  <2>3. Saves'
    BY <2>1 DEF Saves
  <2> QED
    BY <2>2, <2>3
<1>17. ASSUME CallsInv, EngineReread PROVE CallsInv'
  <2> USE <1>17 DEF CallsInv
  <2> DEFINE digest == Digest(host[save.path])
  <2>1. /\ host' = host /\ read' = read /\ save.at = "reread"
        /\ save' = NoSave \/ save' = [save EXCEPT !.at = "written", !.base = digest]
    BY DEF EngineReread
  <2> HIDE DEF digest
  <2>2. Saves'
    <3>1. CASE save' = NoSave
      BY <3>1 DEF Saves, NoSave
    <3>2. CASE save' = [save EXCEPT !.at = "written", !.base = digest]
      <4>1. /\ DOMAIN save' = DOMAIN save /\ save' = [f \in DOMAIN save' |-> save'[f]]
            /\ save'.path = save.path /\ save'.text = save.text
        BY <3>2 DEF Saves
      <4> QED
        BY <2>1, <4>1 DEF Saves
    <3> QED
      BY <2>1, <3>1, <3>2
  <2> QED
    BY <2>1, <2>2 DEF Hosts, Reads
<1>18. ASSUME CallsInv, Written PROVE CallsInv'
  <2> USE <1>18 DEF CallsInv
  <2>1. host' = host /\ read' = read /\ save' = NoSave
    BY DEF Written
  <2> QED
    BY <2>1 DEF Hosts, Reads, Saves, NoSave
<1>19. CallsInv /\ Other => CallsInv'
  BY OtherLeaves, Unmoved
<1>20. CallsInv /\ UNCHANGED vars => CallsInv'
  BY Unmoved DEF vars
<1>21. CallsInv /\ [Next]_vars => CallsInv'
  BY <1>2, <1>3, <1>4, <1>5, <1>6, <1>7, <1>8, <1>9, <1>10, <1>11, <1>12, <1>13, <1>14, <1>15,
       <1>16, <1>17, <1>18,
     <1>19, <1>20 DEF Next, Other
<1> QED
  BY <1>1, <1>21, PTL DEF Spec
-----------------------------------------------------------------------------
\* A file answered as current comes with a digest the host's file had at some
\* time during the call (AnswerIsRecent).
THEOREM CurrentIsRecent == Spec => []AnswerIsRecent
<1>1. CallsInv => AnswerIsRecent
  BY DEF CallsInv, Reads, AnswerIsRecent
<1> QED
  BY <1>1, CallsHold, PTL

\* An edit retained is there in every later run until it is confirmed, its workspace
\* is deleted, or the store it lies in is discarded (RetainedOutlivesRuns).
THEOREM RetainedIsFound == Spec => []RetainedOutlivesRuns
<1>1. StoreIsKept => RetainedOutlivesRuns
  BY DEF StoreIsKept, StoreInv, OwedInv, RetainedOutlivesRuns
<1> QED
  BY <1>1, StoreInvHolds, PTL

\* The changes, calls, losses and ends stay within their bound.
LEMMA SpentHolds == Spec => [](spent \in 0 .. MaxSteps)
<1>1. Init => spent \in 0 .. MaxSteps
  BY CacheAssumption DEF Init
<1>2. Other => Spend \/ UNCHANGED spent
  BY DEF Other, Open, Discard, DiscardFails, OpenAgain, Migrate, Reopen, EvictOld,
         OpenWorkspace, DeleteWorkspace, Connect, Retain, Settled, ReadDirectory, EngineLists,
         Listed, StartPrefetch, Candidates, NextCandidate, ListWay, WithinBudget, RangeSize,
         RangeBytes, RangeDigest, CacheRanges
<1>3. Next => Spend \/ UNCHANGED spent
  BY <1>2 DEF Next, Other, End, LoseConnection, HostChanges, ReadFile, Stat, Confirmed,
              ConfirmElapses, EngineSize, EngineBytes, EngineDigest, BulkFetch, FetchAndCache,
              SaveFile, EngineCompare, EngineReplace, EngineReread, Written
<1>4. spent \in 0 .. MaxSteps /\ (Spend \/ UNCHANGED spent) => (spent \in 0 .. MaxSteps)'
  BY CacheAssumption DEF Spend
<1>5. UNCHANGED vars => UNCHANGED spent
  BY DEF vars
<1>6. spent \in 0 .. MaxSteps /\ [Next]_vars => (spent \in 0 .. MaxSteps)'
  BY <1>3, <1>4, <1>5
<1> QED
  BY <1>1, <1>6, PTL DEF Spec

\* A store has the tables its version says, in whatever step the client ended, and
\* the state is as TypeOK has it (SchemaMatchesVersion).
THEOREM TablesMatchTheVersion == Spec => []SchemaMatchesVersion
<1>1. StoreIsKept /\ CallsInv /\ spent \in 0 .. MaxSteps => SchemaMatchesVersion
  BY DEF StoreIsKept, StoreInv, Kept, IsStore, Paths, Phases, CallsInv, Hosts, TypeOK,
         SchemaMatchesVersion
<1> QED
  BY <1>1, StoreInvHolds, CallsHold, SpentHolds, PTL

\* What a step puts in the cache is what its digest says, but for a whole read whose
\* file the host changed between the engine's reads of it.
Stored ==
  \A p \in DOMAIN store'.rows :
     LET row == store'.rows[p]
     IN  row.cached /\ row.bytes # row.hash =>
           \/ \E s \in disk.held \cup {store} :
                p \in DOMAIN s.rows /\ s.rows[p].hash = row.hash /\ s.rows[p].bytes = row.bytes
           \/ read.at = "answered" /\ read.path = p /\ read.raced

\* Nothing comes into a store from a step that only rearranges one.
LEMMA FromBefore ==
  ASSUME NEW s \in disk.held \cup {store}, HadAll(s, store')
  PROVE  Stored
BY DEF Stored, HadAll

\* Nothing comes from opening, evicting and migrating a store either.
LEMMA FromOpened ==
  ASSUME Kept, HadAll(Opened, store')
  PROVE  Stored
<1>1. CASE disk.held = {}
  <2>1. Opened = Created /\ DOMAIN Created.rows = {}
    BY <1>1, OpenedIs DEF Created
  <2> QED
    BY <2>1 DEF HadAll, Stored
<1>2. CASE disk.held # {}
  BY <1>2, OpenedIs, FromBefore
<1> QED
  BY <1>1, <1>2

\* One content is put under a path, and its digest is its own.
LEMMA FromCall ==
  ASSUME Kept, NEW q, NEW b, NEW h, NEW n, store' = PutContent(store, q, b, h, n),
         b = h \/ (read.at = "answered" /\ read.path = q /\ read.raced)
  PROVE  Stored
<1>1. IsStore(store)
  BY DEF Kept
<1> QED
  BY <1>1, PutIs DEF Stored

\* Every step, by what it writes to the store.
LEMMA StoredHolds ==
  ASSUME StoreIsKept, CallsInv, [Next]_vars
  PROVE  Stored
<1> USE DEF StoreIsKept, StoreInv
<1>1. IsStore(store)
  BY DEF Kept
<1>2. CASE UNCHANGED store
  <2>1. HadAll(store, store')
    BY <1>2 DEF HadAll
  <2> QED
    BY <2>1, FromBefore
<1>3. ASSUME NEW t, Put(t), HadAll(store, t) PROVE Stored
  BY <1>3, FromBefore DEF Put
<1>4. CASE Open \/ OpenAgain
  <2>1. store' = store \/ store' = Created \/ store' = Opened
    BY <1>4 DEF Open, OpenAgain
  <2>2. CASE store' = Created
    BY <2>2, CreatedIs, FromBefore
  <2>3. CASE store' = Opened
    BY <2>3, FromOpened DEF HadAll
  <2> QED
    BY <1>2, <2>1, <2>2, <2>3
<1>5. CASE Reopen
  <2>1. CASE ~disk.torn
    <3>1. PICK before \in 1 .. app.run, to \in Reachable(Opened) :
            store' = Migrated(Evict(Opened, before), to)
      BY <1>5, <2>1 DEF Reopen
    <3>2. IsStore(Opened) /\ Opened.version \in Nat
      BY OpenedIs DEF IsStore
    <3>3. to \in Nat
      BY <3>2, StoreAssumption DEF Reachable
    <3>4. IsStore(Evict(Opened, before)) /\ HadAll(Opened, Evict(Opened, before))
      BY <3>2, EvictIs DEF Comes
    <3>5. HadAll(Evict(Opened, before), store')
      BY <3>1, <3>3, <3>4, MigratedIs DEF Comes
    <3>6. HadAll(Opened, store')
      BY <3>4, <3>5, HadBefore
    <3> QED
      BY <3>6, FromOpened
  <2> QED
    BY <1>2, <1>5, <2>1 DEF Reopen
<1>6. CASE Migrate \/ EvictOld \/ OpenWorkspace \/ DeleteWorkspace
  <2>1. HadAll(store, Step(store)) /\ HadAll(store, Register(store)) /\ HadAll(store, Forget(store))
    BY <1>1, StepIs, RegisterIs, ForgetIs DEF Comes
  <2>2. \A n : HadAll(store, Evict(store, n))
    BY <1>1, EvictIs DEF Comes
  <2>3. \/ UNCHANGED store \/ Put(Step(store)) \/ Put(Register(store)) \/ Put(Forget(store))
        \/ \E n : Put(Evict(store, n))
    BY <1>6 DEF Migrate, EvictOld, OpenWorkspace, DeleteWorkspace
  <2> QED
    BY <1>2, <1>3, <2>1, <2>2, <2>3
<1>7. CASE End
  BY <1>7, CreatedIs, FromBefore DEF End
<1>8. CASE \E p \in Files : Retain(p) \/ Settled(p)
  <2>1. PICK p \in Files : Retain(p) \/ Settled(p)
    BY <1>8
  <2>2. HadAll(store, RetainEdit(store, p)) /\ HadAll(store, ForgetPending(store, p))
    BY <1>1, EditIs
  <2> QED
    BY <1>3, <2>1, <2>2 DEF Retain, Settled
<1>9. CASE \E x \in DOMAIN fetch : Listed(x)
  <2>1. PICK x \in DOMAIN fetch : Listed(x)
    BY <1>9
  <2>2. DOMAIN fetch[x].listing \subseteq Paths
    BY <2>1 DEF Listed, Fetches
  <2>3. HadAll(store, PutListing(store, fetch[x].dir, fetch[x].listing))
    BY <1>1, <2>2, ListingIs DEF Comes
  <2> QED
    BY <1>3, <2>1, <2>3 DEF Listed
<1>10. CASE Confirmed
  <2> DEFINE u == Touch(store, read.path, app.run)
             t == ClearUnproven(u, read.path)
  <2>1. IsStore(u) /\ HadAll(store, u)
    BY <1>1, TouchIs DEF Comes
  <2>2. IsStore(t) /\ HadAll(u, t)
    BY <2>1, ClearIs DEF Comes
  <2>3. UNCHANGED store \/ Put(t)
    BY <1>10 DEF Confirmed
  <2> HIDE DEF t, u
  <2>4. HadAll(store, t)
    BY <2>1, <2>2, HadBefore
  <2> QED
    BY <1>2, <1>3, <2>3, <2>4
<1>11. CASE FetchAndCache
  <2>1. \/ UNCHANGED store
        \/ read.whole /\ Put(PutContent(store, read.path, read.bytes, read.hash, app.run))
    BY <1>11 DEF FetchAndCache, Keeps
  <2>2. read.at = "answered"
    BY <1>11 DEF FetchAndCache
  <2>3. read.whole => read.bytes = read.hash \/ read.raced
    BY <2>2 DEF CallsInv, Reads
  <2> QED
    BY <1>2, <2>1, <2>2, <2>3, FromCall DEF Put
<1>12. CASE Written
  <2>1. \/ UNCHANGED store
        \/ /\ save.text = save.base
           /\ Put(PutContent(store, save.path, save.text, save.base, app.run))
        \/ Put(MarkUnproven(store, save.path))
    BY <1>12 DEF Written, Digest
  <2>2. HadAll(store, MarkUnproven(store, save.path))
    BY <1>1, MarkIs DEF Comes
  <2> QED
    BY <1>2, <1>3, <2>1, <2>2, FromCall DEF Put
<1>13. CASE CacheRanges
  <2>1. \/ UNCHANGED store
        \/ \E digest \in {pre.got} :
             Put(PutContent(store, Head(pre.left), pre.got, digest, app.run))
    BY <1>13 DEF CacheRanges, WholeFile, Digest
  <2> QED
    BY <1>2, <2>1, FromCall DEF Put
<1>14. CASE \/ Discard \/ DiscardFails \/ LoseConnection \/ Connect
            \/ \E p \in Files : \/ \E content \in Contents \cup {Absent} : HostChanges(p, content)
                                \/ \E whole \in BOOLEAN : ReadFile(p, whole)
            \/ Stat \/ ConfirmElapses \/ EngineSize \/ EngineBytes \/ EngineDigest \/ BulkFetch
            \/ \E text \in Contents : SaveFile(text)
            \/ EngineCompare \/ EngineReplace \/ EngineReread
            \/ \E dir \in Dirs \cup {Root} : ReadDirectory(dir)
            \/ \E x \in DOMAIN fetch : EngineLists(x)
            \/ StartPrefetch \/ Candidates \/ NextCandidate \/ ListWay \/ WithinBudget
            \/ RangeSize \/ RangeBytes \/ RangeDigest
  <2>1. UNCHANGED store
    BY <1>14 DEF Discard, DiscardFails, LoseConnection, Connect, HostChanges, ReadFile, Stat,
                 ConfirmElapses, EngineSize, EngineBytes, EngineDigest, BulkFetch, SaveFile,
                 EngineCompare, EngineReplace, EngineReread, ReadDirectory, EngineLists,
                 StartPrefetch, Candidates, NextCandidate, ListWay, WithinBudget, RangeSize,
                 RangeBytes, RangeDigest
  <2> QED
    BY <1>2, <2>1
<1> QED
  BY <1>2, <1>4, <1>5, <1>6, <1>7, <1>8, <1>9, <1>10, <1>11, <1>12, <1>13, <1>14 DEF Next, vars

\* What a step puts in the cache is what its digest says, whether it came in ranges,
\* from a save or from a whole read - except from a whole read whose file the host
\* changed between the engine's reads of it (StoredWhole).
THEOREM CachedAsItsDigest == Spec => StoredWhole
<1>1. StoreIsKept /\ CallsInv /\ [Next]_vars => [Stored]_vars
  BY StoredHolds
<1> QED
  BY <1>1, StoreInvHolds, CallsHold, PTL DEF Spec, StoredWhole, Stored
=============================================================================
