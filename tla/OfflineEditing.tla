--------------------------- MODULE OfflineEditing ---------------------------
(***************************************************************************)
(* One file, from the editor to the host and back: the buffer and its      *)
(* saves and loads, the cached copy, the edit retained while offline, the  *)
(* reconciliation that sends it once the connection is back, the           *)
(* resolution of a conflict, and the host's own changes to the file.       *)
(*                                                                         *)
(* A content is the set of the pieces of text in it: pieces the user typed *)
(* (Mine) and pieces somebody else wrote on the host (Theirs). Whoever     *)
(* writes a content without a piece that was there has removed it. A       *)
(* digest is modelled by the content it is of, and the host's compare and  *)
(* write (workspace/writeFile) is one step.                                *)
(***************************************************************************)
EXTENDS Integers, EditorBuffer

CONSTANTS
  Mine,        \* what the user may type, a piece at a time, numbered as typed
  Theirs,      \* what may be written on the host by others
  Absent,      \* no such file, no such copy, no base
  Offline,     \* what a read that reached nothing returns
  MaxDrops,    \* how often the connection goes
  MaxFaults    \* how often the client is restarted or the file deleted on the host

ASSUME SentinelAssumption ==
  /\ Absent # Offline
  /\ \A c \in SUBSET (Mine \union Theirs) : c # Absent /\ c # Offline
ASSUME BoundAssumption == MaxDrops \in Nat /\ MaxFaults \in Nat
ASSUME MineAssumption  == Mine \subseteq Nat

Contents == SUBSET (Mine \union Theirs)
Files    == {Absent} \union Contents
NoRow    == [content |-> Absent, base |-> Absent]
Writers  == {"save", "reconcile", "resolve"}

VARIABLES
  host,        \* the file on the host
  connected,   \* the client's connection state
  news,        \* a file event is under way to the client
  \* the client's core
  cache,       \* the cached copy
  row,         \* pending_edits: the retained content and the base it is against
  report,      \* what the last reconciliation that is still shown said
  call,        \* the writeFile request of each of its callers
  due,         \* reconciliations asked for by a connection that came back
  rec,         \* Reconcile::run
  res,         \* a conflict as it is shown, and its resolution
  \* the editor
  buf, save, load,
  drops, faults,
  \* history
  typed,       \* pieces the user typed
  told,        \* pieces the user was told are held on this machine
  settled,     \* pieces that were ever on the host, that the user let go (took the
               \* host's side, or discarded), or that the code does not keep: typed
               \* while a save or a load was under way, or retained while an older
               \* copy of the row was being settled
  lost,        \* pieces of others that a write of the client removed unseen
  misbased,    \* a row or the buffer was given a base its text was not made from
  untried,     \* the row has not been looked at by a reconciliation
  overlooked   \* ... and the reconciliation that should have has passed it by

remote  == <<host, connected, news>>
store   == <<cache, row, report>>
core    == <<call, due, rec, res>>
editor  == <<buf, save, load>>
history == <<typed, told, settled, lost, misbased, untried, overlooked>>
bounds  == <<drops, faults>>
vars    == <<remote, store, core, editor, bounds, history>>

CallStates == {"none", "sent", "ok", "conflict", "failed", "lost"}
NoCall     == [st |-> "none", content |-> {}, base |-> Absent]
NoSave     == [pc |-> "idle", text |-> {}, base |-> Absent, outcome |-> "none"]
NoLoad     == [pc |-> "idle", text |-> {}, base |-> Absent]
NoRec      == [pc |-> "idle", edit |-> NoRow]
NoRes      == [pc |-> "idle", local |-> {}, seen |-> Absent]

TypeOK ==
  /\ host \in Files /\ connected \in BOOLEAN /\ news \in BOOLEAN
  /\ cache \in Files
  /\ row \in [content : Files, base : Files]
  /\ row.content = Absent => row = NoRow
  /\ report \in {"none", "conflicted", "other"}
  /\ call \in [Writers -> [st : CallStates, content : Contents, base : Files]]
  /\ due \in Nat
  /\ rec \in [pc : {"idle", "read", "sent", "forget"},
              edit : [content : Files, base : Files]]
  /\ res \in [pc : {"idle", "shown", "sent", "forget"},
              local : Contents, seen : Files]
  /\ buf \in Buffers(Contents, Files)
  /\ save \in [pc : {"idle", "asked", "retain", "sent", "replied"},
               text : Contents, base : Files, outcome : Endings]
  /\ load \in [pc : {"idle", "decide", "read", "fill"}, text : Contents, base : Files]
  /\ drops \in 0 .. MaxDrops /\ faults \in 0 .. MaxFaults
  /\ typed \subseteq Mine /\ told \subseteq Mine /\ lost \subseteq Theirs
  /\ settled \in Contents
  /\ misbased \in BOOLEAN /\ untried \in BOOLEAN /\ overlooked \in BOOLEAN

\* An open file, read from the host, with a copy or of the kind no copy is kept of.
Init ==
  /\ host = {} /\ connected = TRUE /\ news = FALSE
  /\ cache \in {{}, Absent}
  /\ row = NoRow /\ report = "none"
  /\ call = [w \in Writers |-> NoCall]
  /\ due = 0 /\ rec = NoRec /\ res = NoRes
  /\ buf = Filled({}, {}) /\ save = NoSave /\ load = NoLoad
  /\ drops = 0 /\ faults = 0
  /\ typed = {} /\ told = {} /\ settled = {} /\ lost = {}
  /\ misbased = FALSE /\ untried = FALSE /\ overlooked = FALSE

-----------------------------------------------------------------------------
(* The host                                                                *)

\* Somebody else adds to the file, or makes it anew.
HostEdit(t) ==
  /\ t \notin settled
  /\ host' = (IF host = Absent THEN {} ELSE host) \union {t}
  /\ settled' = settled \union {t}
  /\ news' = connected
  /\ UNCHANGED <<connected, store, core, editor, bounds, typed, told, lost,
                 misbased, untried, overlooked>>

Fault == faults < MaxFaults /\ faults' = faults + 1

HostDelete ==
  /\ host # Absent /\ Fault
  /\ host' = Absent
  /\ news' = connected
  /\ UNCHANGED <<connected, store, core, editor, drops, history>>

\* workspace/writeFile: refused unless the file still is what the caller took it
\* to be; a file that is not there is not found, whatever the base says. The
\* engine's own watch announces the write like any other.
WriteFile(w) ==
  LET c == call[w] IN
  /\ c.st = "sent"
  /\ IF host # Absent /\ host = c.base
       THEN /\ call' = [call EXCEPT ![w].st = "ok"]
            /\ host' = c.content
            /\ news' = TRUE
            /\ settled' = settled \union c.content
            /\ lost' = lost \union
                 (((host \ c.content) \intersect Theirs) \
                    (IF w = "resolve" THEN res.seen ELSE {}))
       ELSE /\ call' = [call EXCEPT ![w].st =
                          IF host = Absent THEN "failed" ELSE "conflict"]
            /\ UNCHANGED <<host, news, settled, lost>>
  /\ UNCHANGED <<connected, store, due, rec, res, editor, bounds, typed, told,
                 misbased, untried, overlooked>>

-----------------------------------------------------------------------------
(* What the core's operations share                                        *)

\* The connection goes: a request not yet served is not served any more, and
\* an answer under way may be lost.
Disconnect ==
  /\ connected /\ drops < MaxDrops
  /\ drops' = drops + 1
  /\ connected' = FALSE /\ news' = FALSE
  /\ \E L \in SUBSET {w \in Writers : call[w].st # "none"} :
       /\ \A w \in Writers : call[w].st = "sent" => w \in L
       /\ call' = [w \in Writers |->
                     IF w \in L THEN [call[w] EXCEPT !.st = "lost"] ELSE call[w]]
  /\ UNCHANGED <<host, store, due, rec, res, editor, faults, history>>

\* ... without asking for a reconciliation.
Reconnect_Wrong ==
  /\ ~connected
  /\ connected' = TRUE
  /\ UNCHANGED <<host, news, store, core, editor, bounds, history>>

\* It is back: the workspace is registered again and a reconciliation asked for.
Reconnect ==
  /\ ~connected
  /\ connected' = TRUE
  /\ due' = due + 1
  /\ UNCHANGED <<host, news, store, call, rec, res, editor, bounds, history>>

\* CachedWorkspace::read_file: what the host has, once compared with the copy;
\* the copy alone when the host does not answer in time, or is not there to ask.
\* A read may fail, too.
Readable ==
  {Offline} \union ({cache} \ {Absent}) \union (IF connected THEN {host} ELSE {})

\* fetch_and_cache and write_file keep what they moved, if the file is one that is
\* kept at all: in a folder that was listed, and not too large.
Kept(c) == IF cache = Absent \/ c = Absent THEN cache ELSE c

CacheAfter(c) == IF connected /\ c = host THEN Kept(c) ELSE cache

\* CachedWorkspace::write_file, to where the request is on its way.
Send(w, content, base) ==
  call' = [call EXCEPT ![w] =
             [st |-> IF connected THEN "sent" ELSE "lost",
              content |-> content, base |-> base]]

\* ... and from where it is answered, keeping what was written.
Answered(w) ==
  /\ call[w].st \notin {"none", "sent"}
  /\ call' = [call EXCEPT ![w] = NoCall]
  /\ cache' = IF call[w].st = "ok" THEN Kept(call[w].content) ELSE cache

\* A clean three-way merge: what both have, and what either added.
Merge(base, local, theirs) ==
  (local \intersect theirs) \union (local \ base) \union (theirs \ base)

-----------------------------------------------------------------------------
(* The editor                                                              *)

\* A text made from a content has what others wrote in it.
MadeFrom(text, base) == base # Absent => base \intersect Theirs \subseteq text

\* A keystroke (applyEdit).
Type(m) ==
  /\ m \in Mine \ typed /\ \A n \in Mine \ typed : m <= n
  /\ typed' = typed \union {m}
  /\ buf' = Typed(buf, m)
  /\ settled' = IF save.pc # "idle" \/ load.pc \in {"read", "fill"}
                  THEN settled \union {m} ELSE settled
  /\ UNCHANGED <<remote, store, core, save, load, bounds, told, lost, misbased,
                 untried, overlooked>>

\* save: declined while one is under way and when there is nothing to save.
Save ==
  /\ save.pc = "idle" /\ buf.dirty
  /\ save' = [pc |-> "asked", text |-> buf.text, base |-> buf.base, outcome |-> "none"]
  /\ UNCHANGED <<remote, store, core, buf, load, bounds, history>>

\* file_write: a base that is no digest is refused, and the connection state says
\* where the save goes.
Route ==
  /\ save.pc = "asked"
  /\ IF save.base = Absent
       THEN save' = [save EXCEPT !.pc = "replied", !.outcome = "other"] /\ UNCHANGED call
       ELSE IF connected
         THEN save' = [save EXCEPT !.pc = "sent"] /\ Send("save", save.text, save.base)
         ELSE save' = [save EXCEPT !.pc = "retain"] /\ UNCHANGED call
  /\ UNCHANGED <<remote, store, due, rec, res, buf, load, bounds, history>>

\* ... with the base of now.
Upserted_Wrong(content, base) == [content |-> content, base |-> base]

\* retain_edit: over a row that is there, against what that row was against.
Upserted(content, base) ==
  IF row = NoRow THEN [content |-> content, base |-> base]
                 ELSE [row EXCEPT !.content = content]

\* RetainEdit::save: the edit is against the cached copy, if there is one.
Retain ==
  /\ save.pc = "retain"
  /\ row' = Upserted(save.text, cache)
  /\ save' = [save EXCEPT !.pc = "replied", !.outcome = "held"]
  /\ told' = told \union (save.text \intersect Mine)
  /\ settled' = IF rec.pc # "idle" \/ res.pc # "idle"
                  THEN settled \union (save.text \intersect Mine) ELSE settled
  /\ misbased' = (misbased \/ ~MadeFrom(save.text, IF row = NoRow THEN cache ELSE row.base))
  /\ untried' = TRUE
  /\ overlooked' = connected
  /\ UNCHANGED <<remote, cache, report, core, buf, load, bounds, typed, lost>>

\* EditFile::save, answered.
SaveAnswer ==
  /\ save.pc = "sent" /\ Answered("save")
  /\ save' = [save EXCEPT !.pc = "replied",
                !.outcome = CASE call["save"].st = "ok"       -> "written"
                              [] call["save"].st = "conflict" -> "conflict"
                              [] OTHER                        -> "other"]
  /\ UNCHANGED <<remote, row, report, due, rec, res, buf, load, bounds, history>>

\* The outcome reaches the buffer, whatever was typed or loaded meanwhile.
SaveEnd ==
  /\ save.pc = "replied"
  /\ buf' = SaveEnded(buf, save.outcome, save.text)
  /\ save' = NoSave
  /\ misbased' = (misbased \/ (save.outcome = "written" /\ ~MadeFrom(buf.text, save.text)))
  /\ UNCHANGED <<remote, store, core, load, bounds, typed, told, settled, lost,
                 untried, overlooked>>

\* onFileEvent: the file's hash is asked for; a file that is gone leaves the
\* buffer as it is.
FileEvent ==
  /\ news /\ connected /\ load.pc = "idle"
  /\ news' = FALSE
  /\ load' = IF host = Absent THEN load ELSE [NoLoad EXCEPT !.pc = "decide", !.base = host]
  /\ UNCHANGED <<host, connected, store, core, buf, save, bounds, history>>

\* ... loading over what was not saved.
FileChanged_Wrong ==
  /\ load.pc = "decide"
  /\ load' = IF load.base = buf.base THEN NoLoad ELSE [NoLoad EXCEPT !.pc = "read"]
  /\ UNCHANGED <<remote, store, core, buf, save, bounds, history>>

\* ... a hash that is the buffer's base is an echo, unsaved changes stay, and
\* only an unmodified buffer is loaded again.
FileChanged ==
  /\ load.pc = "decide"
  /\ load' = IF load.base = buf.base \/ buf.dirty THEN NoLoad
             ELSE [NoLoad EXCEPT !.pc = "read"]
  /\ UNCHANGED <<remote, store, core, buf, save, bounds, history>>

\* The way out a conflict offers: discard what is unsaved and load. A load that
\* is under way is not started twice.
Discard ==
  /\ buf.ending = "conflict" /\ load.pc # "decide"
  /\ settled' = settled \union (buf.text \intersect Mine)
  /\ buf' = [buf EXCEPT !.dirty = FALSE]
  /\ load' = IF load.pc = "idle" THEN [NoLoad EXCEPT !.pc = "read"] ELSE load
  /\ UNCHANGED <<remote, store, core, save, bounds, typed, told, lost, misbased,
                 untried, overlooked>>

\* file_read: a path with retained work reads as that work, with its base ...
LoadRead ==
  /\ load.pc = "read"
  /\ IF row # NoRow
       THEN /\ load' = [pc |-> "fill", text |-> row.content, base |-> row.base]
            /\ UNCHANGED cache
       ELSE \E c \in Readable :
              /\ load' = IF c \in {Absent, Offline} THEN NoLoad
                         ELSE [pc |-> "fill", text |-> c, base |-> c]
              /\ cache' = CacheAfter(c)
  /\ UNCHANGED <<remote, row, report, core, buf, save, bounds, history>>

\* ... and what was read replaces the buffer, whatever was typed meanwhile.
LoadFill ==
  /\ load.pc = "fill"
  /\ buf' = Filled(load.text, load.base)
  /\ load' = NoLoad
  /\ UNCHANGED <<remote, store, core, save, bounds, history>>

-----------------------------------------------------------------------------
(* Reconciliation                                                          *)

Idle == rec' = NoRec

\* Reconcile::run: one at a time; a run finding another under way returns. It
\* takes its own copy of the row. A reconciliation that cannot register the
\* workspace because the connection went again is not begun.
Begin ==
  /\ due > 0
  /\ due' = due - 1
  /\ IF rec.pc = "idle" /\ row # NoRow
       THEN /\ untried' = FALSE /\ overlooked' = FALSE
            /\ rec' = [pc |-> IF row.base = Absent THEN "sent" ELSE "read", edit |-> row]
            /\ IF row.base = Absent THEN Send("reconcile", row.content, Absent)
                                    ELSE UNCHANGED call
       ELSE /\ overlooked' = (overlooked \/ (untried /\ rec.pc # "idle"))
            /\ UNCHANGED <<rec, call, untried>>
  /\ UNCHANGED <<remote, store, res, editor, bounds, typed, told, settled, lost,
                 misbased>>

NotBegun ==
  /\ due > 0 /\ ~connected
  /\ due' = due - 1
  /\ UNCHANGED <<remote, store, call, rec, res, editor, bounds, history>>

Report(r) == report' = r

\* Reconcile::one, from the answer to its read: an unchanged host is written
\* over, a changed one is merged with and written, and what cannot be merged
\* waits for the user. Nothing is attempted without a connection.
Attempt ==
  /\ rec.pc = "read"
  /\ \E theirs \in Readable :
       /\ cache' = CacheAfter(theirs)
       /\ \/ /\ theirs = Offline
             /\ Report("other") /\ Idle /\ UNCHANGED call
          \/ /\ theirs = Absent
             /\ Report("conflicted") /\ Idle /\ UNCHANGED call
          \/ /\ theirs = rec.edit.base
             /\ Send("reconcile", rec.edit.content, rec.edit.base)
             /\ rec' = [rec EXCEPT !.pc = "sent"] /\ UNCHANGED report
          \/ /\ theirs \notin {Offline, Absent, rec.edit.base}
             /\ Send("reconcile", Merge(rec.edit.base, rec.edit.content, theirs), theirs)
             /\ rec' = [rec EXCEPT !.pc = "sent"] /\ UNCHANGED report
          \/ /\ theirs \notin {Offline, Absent, rec.edit.base, rec.edit.content}
             /\ rec.edit.content # rec.edit.base
             /\ Report("conflicted") /\ Idle /\ UNCHANGED call
  /\ UNCHANGED <<remote, row, due, res, editor, bounds, history>>

\* ... done with the row whatever the answer.
Attempted_Wrong ==
  /\ rec.pc = "sent" /\ Answered("reconcile")
  /\ rec' = [rec EXCEPT !.pc = "forget"]
  /\ UNCHANGED <<remote, row, report, due, res, editor, bounds, history>>

\* Reconcile::write, answered.
Attempted ==
  /\ rec.pc = "sent" /\ Answered("reconcile")
  /\ IF call["reconcile"].st = "ok"
       THEN rec' = [rec EXCEPT !.pc = "forget"] /\ UNCHANGED report
       ELSE /\ Idle
            /\ Report(IF call["reconcile"].st = "conflict" THEN "conflicted" ELSE "other")
  /\ UNCHANGED <<remote, row, due, res, editor, bounds, history>>

\* forget_pending: the row of that path, whatever it holds by now.
Forget ==
  /\ rec.pc = "forget"
  /\ row' = NoRow /\ untried' = FALSE
  /\ Report("other") /\ Idle
  /\ UNCHANGED <<remote, cache, call, due, res, editor, bounds, typed, told,
                 settled, lost, misbased, overlooked>>

-----------------------------------------------------------------------------
(* Conflicts                                                               *)

\* Conflicts::list: the host's side is read when the list is built.
List ==
  /\ report = "conflicted" /\ row # NoRow /\ res.pc \in {"idle", "shown"}
  /\ \E theirs \in Readable \ {Offline} :
       /\ cache' = CacheAfter(theirs)
       /\ res' = [pc |-> "shown", local |-> row.content, seen |-> theirs]
  /\ UNCHANGED <<remote, row, report, call, due, rec, editor, bounds, history>>

\* Conflicts::resolve, of a file the last report called a conflict: accept the
\* host's side ...
TakeRemote ==
  /\ res.pc = "shown" /\ report = "conflicted" /\ row # NoRow
  /\ settled' = settled \union (row.content \intersect Mine)
  /\ row' = NoRow /\ report' = "none" /\ untried' = FALSE
  /\ res' = NoRes
  /\ UNCHANGED <<remote, cache, call, due, rec, editor, bounds, typed, told,
                 lost, misbased, overlooked>>

\* ... or write one's own, or a text made of both, on condition that the host
\* still has what was shown.
KeepLocal ==
  /\ res.pc = "shown" /\ report = "conflicted" /\ row # NoRow
  /\ Send("resolve", row.content, res.seen)
  /\ res' = [res EXCEPT !.pc = "sent"]
  /\ UNCHANGED <<remote, store, due, rec, editor, bounds, history>>

KeepText ==
  /\ res.pc = "shown" /\ report = "conflicted" /\ row # NoRow
  /\ res.seen # Absent
  /\ Send("resolve", res.local \union res.seen, res.seen)
  /\ res' = [res EXCEPT !.pc = "sent"]
  /\ UNCHANGED <<remote, store, due, rec, editor, bounds, history>>

\* Its write is answered; anything but success leaves the work retained, to be
\* shown against what the host has by then.
Resolved ==
  /\ res.pc = "sent" /\ Answered("resolve")
  /\ res' = IF call["resolve"].st = "ok" THEN [res EXCEPT !.pc = "forget"] ELSE NoRes
  /\ UNCHANGED <<remote, row, report, due, rec, editor, bounds, history>>

ForgetResolved ==
  /\ res.pc = "forget"
  /\ row' = NoRow /\ report' = "none" /\ untried' = FALSE
  /\ res' = NoRes
  /\ UNCHANGED <<remote, cache, call, due, rec, editor, bounds, typed, told,
                 settled, lost, misbased, overlooked>>

-----------------------------------------------------------------------------
\* The client is quit, or dies, and starts again without a connection: rows and
\* copies persist, everything else is gone, and the file is opened from them.
Relaunch ==
  /\ Fault
  /\ row # NoRow \/ cache # Absent
  /\ connected' = FALSE /\ news' = FALSE
  /\ call' = [w \in Writers |-> NoCall]
  /\ due' = 0 /\ rec' = NoRec /\ res' = NoRes /\ report' = "none"
  /\ save' = NoSave /\ load' = NoLoad
  /\ buf' = IF row # NoRow THEN Filled(row.content, row.base) ELSE Filled(cache, cache)
  /\ settled' = settled \union
       IF buf.dirty THEN (buf.text \intersect Mine) \ told ELSE {}
  /\ UNCHANGED <<host, cache, row, drops, typed, told, lost, misbased, untried,
                 overlooked>>

Editor ==
  \/ Save \/ Route \/ Retain \/ SaveAnswer \/ SaveEnd
  \/ FileEvent \/ FileChanged \/ Discard \/ LoadRead \/ LoadFill
Reconciliation == Begin \/ NotBegun \/ Attempt \/ Attempted \/ Forget
Resolution == List \/ TakeRemote \/ KeepLocal \/ KeepText \/ Resolved \/ ForgetResolved

Next ==
  \/ \E m \in Mine : Type(m)
  \/ \E t \in Theirs : HostEdit(t)
  \/ HostDelete
  \/ \E w \in Writers : WriteFile(w)
  \/ Disconnect \/ Reconnect \/ Relaunch
  \/ Editor \/ Reconciliation \/ Resolution

\* A reconciliation that is due or under way goes on. Nothing is assumed of the
\* user, of the connection, of the engine or of others on the host.
Fairness == WF_vars(Reconciliation)

Spec == Init /\ [][Next]_vars /\ Fairness

-----------------------------------------------------------------------------
(* Properties                                                              *)

Retained == IF row = NoRow THEN {} ELSE row.content

\* What the user was told is held on this machine is held until it has reached the
\* host or the user has let it go -- through merges, refused and unanswered writes,
\* conflicts and restarts -- unless it was retained while an older copy of the
\* same row was being settled, or typed into a buffer that was being loaded. (And
\* every variable has its type.)
HeldUntilSettled == TypeOK /\ told \subseteq Retained \union settled

\* What the user typed is in the buffer and known to be unsaved, or is held, or
\* has been on the host, or was let go: no file event, save or load replaces it --
\* unless it was typed while a save or a load was under way.
TypedIsKept ==
  typed \subseteq (IF buf.dirty THEN buf.text ELSE {}) \union Retained \union settled

\* No write of the client -- save, reconciliation or resolution -- removes from the
\* host what somebody else wrote and the user has not seen, as long as every row
\* and the buffer got a base its text was made from.
NothingOverwritten == lost # {} => misbased

\* A retained edit is looked at by a reconciliation once the connection is back and
\* stays, unless it was retained behind the back of the reconnection, or the
\* reconciliation asked for found another one running.
RetainedIsTried ==
  (untried /\ connected) ~> (~untried \/ ~connected \/ overlooked)

-----------------------------------------------------------------------------
(* What the specification says and the code does not do                    *)

\* specs/008-editor-integration/spec.md FR-012b, specs/010-offline-editing/spec.md
\* FR-021 and FR-033: no change on the host is overwritten unseen.
NothingEverOverwritten == lost = {}
=============================================================================
