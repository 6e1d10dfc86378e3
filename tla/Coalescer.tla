------------------------------ MODULE Coalescer ------------------------------
(***************************************************************************)
(* The engine's coalescer of file events (application/coalescer.rs) as     *)
(* operators on a record:                                                  *)
(*   pending    what is to be told, one entry per path, in the order of    *)
(*              their seq: [path, event, left]                             *)
(*   from, to   the halves of a move that wait for the other one, by the   *)
(*              cookie they share: [path, left]                            *)
(*   recent     the paths of the bulk window                               *)
(*   overflowed the kernel dropped events                                  *)
(* Times are relative: `left` is what remains until an instant, in ticks.  *)
(***************************************************************************)
EXTENDS Naturals, Sequences, SequencesExt, FiniteSets, Functions, TLC

CONSTANTS
  Window,          \* WINDOW_MS
  BulkWindow,      \* BULK_WINDOW_MS
  BulkThreshold    \* BULK_THRESHOLD

ASSUME WindowsAreOrdered == Window \in Nat /\ BulkWindow \in Nat /\ Window <= BulkWindow

\* FoldLeft with each intermediate result evaluated once.
Fold(op(_, _), base, seq) ==
  FoldLeft(LAMBDA s, x : CHOOSE t \in {op(u, x) : u \in {s}} : TRUE, base, seq)

Created == [kind |-> "created"]
Modified == [kind |-> "modified"]
Deleted == [kind |-> "deleted"]
Renamed(to) == [kind |-> "renamed", to |-> to]
InvalidateAll == [kind |-> "invalidateAll"]

NoHalves == [cookie \in {} |-> 0]
Fresh == [pending |-> <<>>, from |-> NoHalves, to |-> NoHalves,
          recent |-> NoHalves, overflowed |-> FALSE]

\* The entry of a path, 0 when it has none.
At(c, path) == SelectInSeq(c.pending, LAMBDA e : e.path = path)

\* merge: a file created or moved and then written is still created or moved.
Merge(existing, incoming) ==
  IF incoming = Modified /\ existing.kind \in {"created", "renamed"} THEN existing ELSE incoming

\* record: the first event of a path fixes its instant and its place.
Record_Wrong(c, path, event) ==
  LET i == At(c, path)
  IN  IF i = 0
      THEN [c EXCEPT !.pending = Append(@, [path |-> path, event |-> event, left |-> Window])]
      ELSE [c EXCEPT !.pending[i] = [@ EXCEPT !.event = Merge(@, event), !.left = Window]]

Record(c, path, event) ==
  LET i == At(c, path)
  IN  IF i = 0
      THEN [c EXCEPT !.pending = Append(@, [path |-> path, event |-> event, left |-> Window])]
      ELSE [c EXCEPT !.pending[i].event = Merge(@, event)]

\* note_recent: a path counts once, from when it was first seen.
Note(c, path, left) ==
  [c EXCEPT !.recent = IF path \in DOMAIN @ \/ left = 0 THEN @ ELSE @ @@ (path :> left)]

\* record_rename: one entry under the old name, whatever it held before, due
\* when the first half was.
RecordRename(c, from, to, left) ==
  LET noted == Note(c, to, BulkWindow - (Window - left))
      i == At(c, from)
  IN  IF i = 0
      THEN [noted EXCEPT !.pending =
              Append(@, [path |-> from, event |-> Renamed(to), left |-> left])]
      ELSE [noted EXCEPT !.pending[i].event = Renamed(to)]

Waiting(halves, cookie) == cookie \in DOMAIN halves
Without(halves, cookies) == Restrict(halves, DOMAIN halves \ cookies)

\* accept: either half of a move may come first.
Accept(c, raw) ==
  IF raw.kind = "overflow" THEN [c EXCEPT !.overflowed = TRUE]
  ELSE LET noted == Note(c, raw.path, BulkWindow)
           half == raw.cookie :> [path |-> raw.path, left |-> Window]
       IN  CASE raw.kind = "movedFrom" /\ Waiting(c.to, raw.cookie) ->
                  RecordRename([noted EXCEPT !.to = Without(@, {raw.cookie})],
                               raw.path, c.to[raw.cookie].path, c.to[raw.cookie].left)
             [] raw.kind = "movedFrom" /\ ~Waiting(c.to, raw.cookie) ->
                  [noted EXCEPT !.from = half @@ @]
             [] raw.kind = "movedTo" /\ Waiting(c.from, raw.cookie) ->
                  RecordRename([noted EXCEPT !.from = Without(@, {raw.cookie})],
                               c.from[raw.cookie].path, raw.path, c.from[raw.cookie].left)
             [] raw.kind = "movedTo" /\ ~Waiting(c.from, raw.cookie) ->
                  [noted EXCEPT !.to = half @@ @]
             [] OTHER -> Record(noted, raw.path, [kind |-> raw.kind])

\* expire_unpaired: a half whose other never came is a deletion or a creation,
\* unless something is pending for its path already.
Expired(halves) == SetToSortSeq({k \in DOMAIN halves : halves[k].left = 0}, <)
InsertMissing_Wrong(c, path, event) == c
InsertMissing(c, path, event) ==
  IF At(c, path) # 0 THEN c
  ELSE [c EXCEPT !.pending = Append(@, [path |-> path, event |-> event, left |-> 0])]

ExpireUnpaired(c) ==
  LET gone == Fold(LAMBDA d, k : InsertMissing(d, c.from[k].path, Deleted), c, Expired(c.from))
      both == Fold(LAMBDA d, k : InsertMissing(d, c.to[k].path, Created), gone, Expired(c.to))
  IN  [both EXCEPT !.from = Without(@, Range(Expired(c.from))),
                   !.to = Without(@, Range(Expired(c.to)))]

\* drain_due: [c, events] -- what stays and what is told.
Bulk(c) == c.overflowed \/ Cardinality(DOMAIN c.recent) >= BulkThreshold
DrainDue(c) ==
  IF Bulk(c) THEN [c |-> Fresh, events |-> <<[path |-> "", event |-> InvalidateAll]>>]
  ELSE LET d == ExpireUnpaired(c)
           due(e) == e.left = 0
       IN  [c |-> [d EXCEPT !.pending = SelectSeq(@, LAMBDA e : ~due(e))],
            events |-> [i \in 1..Len(SelectSeq(d.pending, due)) |->
                          [path |-> SelectSeq(d.pending, due)[i].path,
                           event |-> SelectSeq(d.pending, due)[i].event]]]

\* next_deadline: whether the thread has something to wake for now.
NextDeadline(c) ==
  \/ c.overflowed
  \/ \E i \in DOMAIN c.pending : c.pending[i].left = 0
  \/ \E k \in DOMAIN c.from : c.from[k].left = 0
  \/ \E k \in DOMAIN c.to : c.to[k].left = 0

\* One tick of the clock; a path leaves the bulk window when its time is up.
Less(left) == IF left = 0 THEN 0 ELSE left - 1
Elapse(c) ==
  LET older(halves) == [k \in DOMAIN halves |-> [halves[k] EXCEPT !.left = Less(@)]]
      still == {p \in DOMAIN c.recent : c.recent[p] > 1}
  IN  [c EXCEPT !.pending = [i \in DOMAIN @ |-> [@[i] EXCEPT !.left = Less(@)]],
                !.from = older(@), !.to = older(@),
                !.recent = [p \in still |-> Less(c.recent[p])]]

Quiet(c) == /\ c.pending = <<>> /\ ~c.overflowed
            /\ DOMAIN c.from = {} /\ DOMAIN c.to = {}

\* The paths for which accepting `raw` changes an entry that a later entry
\* follows on, or forgets where a file went: what is told of these paths is
\* not what happened last.
MentionedBy(e) == {e.path} \cup (IF e.event.kind = "renamed" THEN {e.event.to} ELSE {})
Overtakes(c, raw, d) ==
  LET keys == {raw.path} \cup (IF Waiting(c.from, raw.cookie) THEN {c.from[raw.cookie].path} ELSE {})
  IN  UNION {LET now == MentionedBy(d.pending[i])
                 later == UNION {MentionedBy(c.pending[j]) : j \in i + 1..Len(c.pending)}
             IN  (MentionedBy(c.pending[i]) \ now) \cup (now \cap later)
               : i \in {At(c, k) : k \in keys} \ {0}}
=============================================================================
