----------------------------- MODULE CacheStore -----------------------------
(* The client's cache store, the SQLite database of one workspace: its rows, *)
(* the contents they hold and the edits retained in it, as operators on a    *)
(* store. Each is one transaction of adapters/outbound/sqlite/mod.rs; the    *)
(* module FileCache says when they happen.                                   *)
(*                                                                           *)
(* A path is the sequence of its names, the root is <<>>. A content is a     *)
(* short sequence of bytes, and its digest is the content itself: what       *)
(* matters of a digest is that it differs when the content does. A row is    *)
(* kept by its path and not by its file id; a call that holds the id of a    *)
(* row that is gone changes nothing, here as there.                          *)
EXTENDS Integers, SequencesExt

CONSTANTS CurrentVersion,   \* the schema this build reads and writes
          CacheMaxBytes     \* a larger content is not kept
ASSUME StoreAssumption == CurrentVersion \in Nat \ {0} /\ CacheMaxBytes \in Nat

Root == <<>>
Parent(p) == SubSeq(p, 1, Len(p) - 1)
Digest(bytes) == bytes

\* `used` is the run in which the content was last asked for, 0 for never.
\* is_cached is set and cleared in the transaction that puts or removes the content.
Blank(entry) == [dir |-> entry.dir, size |-> entry.size, cached |-> FALSE,
                 bytes |-> <<>>, hash |-> <<>>, unproven |-> FALSE, used |-> 0]

\* What `open` makes of a path where nothing is.
Created == [version |-> 0, tables |-> 0, known |-> FALSE, rows |-> <<>>, pending |-> {}]

\* One step of the schema: its tables and its number in one transaction.
Step_Wrong(s) == [s EXCEPT !.version = CurrentVersion, !.tables = @ + 1]
Step(s) == [s EXCEPT !.version = @ + 1, !.tables = @ + 1]

Migrated(s, v) == [s EXCEPT !.version = v, !.tables = @ + (v - s.version)]

\* Without tables nothing can be stored; those of the edits came last.
Register(s) == IF s.tables = 0 THEN s ELSE [s EXCEPT !.known = TRUE]
\* The rows, their contents and the retained edits go with their workspace.
Forget(s) == [s EXCEPT !.known = FALSE, !.rows = <<>>, !.pending = {}]

-----------------------------------------------------------------------------
Children(s, dir) == {p \in DOMAIN s.rows : Parent(p) = dir}
ListChildren(s, dir) ==
    [p \in Children(s, dir) |-> [dir |-> s.rows[p].dir, size |-> s.rows[p].size]]

\* Rows the listing does not name go; a row it names keeps its content. Nothing
\* is stored for a workspace the store does not know.
PutListing(s, dir, listing) ==
    LET kept == DOMAIN s.rows \ (Children(s, dir) \ DOMAIN listing)
        Row(p) == IF p \notin DOMAIN listing THEN s.rows[p]
                  ELSE IF p \notin kept THEN Blank(listing[p])
                  ELSE [s.rows[p] EXCEPT !.dir = listing[p].dir, !.size = listing[p].size]
    IN  IF s.known THEN [s EXCEPT !.rows = [p \in kept \cup DOMAIN listing |-> Row(p)]] ELSE s

\* The set of the entry kept for a path: one, or none.
Lookup(s, p) ==
    {[bytes |-> s.rows[q].bytes, hash |-> s.rows[q].hash] :
        q \in {q \in DOMAIN s.rows : q = p /\ s.rows[q].cached}}

PutContent(s, p, bytes, hash, now) ==
    IF Len(bytes) > CacheMaxBytes \/ p \notin DOMAIN s.rows THEN s
    ELSE [s EXCEPT !.rows[p] = [@ EXCEPT !.cached = TRUE, !.bytes = bytes, !.hash = hash,
                                         !.used = now]]

Touch(s, p, now) == IF p \in DOMAIN s.rows THEN [s EXCEPT !.rows[p].used = now] ELSE s
ClearUnproven(s, p) ==
    IF p \in DOMAIN s.rows THEN [s EXCEPT !.rows[p].unproven = FALSE] ELSE s
MarkUnproven(s, p) ==
    IF p \in DOMAIN s.rows /\ s.rows[p].cached THEN [s EXCEPT !.rows[p].unproven = TRUE] ELSE s

CachedBytes(s) ==
    FoldSet(LAMBDA p, sum : sum + Len(s.rows[p].bytes), 0, DOMAIN s.rows)

\* Contents not asked for since the run `before` go; rows and edits stay.
Evict_Wrong(s, before) == [s EXCEPT !.rows = <<>>, !.pending = {}]
Evict(s, before) ==
    LET old(r) == r.used # 0 /\ r.used < before
    IN  [s EXCEPT !.rows = [p \in DOMAIN s.rows |->
            IF old(s.rows[p])
            THEN [s.rows[p] EXCEPT !.cached = FALSE, !.bytes = <<>>, !.hash = <<>>,
                                   !.unproven = FALSE]
            ELSE s.rows[p]]]

-----------------------------------------------------------------------------
\* What an edit holds is the module OfflineEditing's matter: here, that it is held.
Retains(s) == s.known /\ s.tables >= CurrentVersion
RetainEdit(s, p) == IF Retains(s) THEN [s EXCEPT !.pending = @ \cup {p}] ELSE s
ForgetPending(s, p) == [s EXCEPT !.pending = @ \ {p}]
=============================================================================
