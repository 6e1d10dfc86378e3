------------------------ MODULE OfflineEditing_proofs ------------------------
(***************************************************************************)
(* Offline editing for any text, any changes on the host and any number of *)
(* drops and restarts: what the user was told is held on this machine is   *)
(* held until it is on the host or was let go, what was typed is in the    *)
(* buffer, held, or was one or the other, nothing of others is removed     *)
(* from the host unseen, and a retained edit stays due to be tried.        *)
(***************************************************************************)
EXTENDS OfflineEditing, TLAPS

\* Every piece of the user's in c is in d, or settled.
Lies(c, d) == \A p \in Mine : p \in c => p \in d \/ p \in settled
Known(c) == c # Absent => Lies(c, {})
Unsaved == IF buf.dirty THEN buf.text ELSE {}

\* What is or was on the host is settled, and a base is such a content.
Settles ==
  /\ Known(host) /\ Known(cache) /\ Known(row.base) /\ Known(rec.edit.base)
  /\ \A w \in Writers : call[w].st = "ok" => Lies(call[w].content, {})

\* There is no text of the user's that was not typed.
Typing == /\ Lies(buf.text, typed) /\ Lies(save.text, typed)
          /\ Lies(load.text, typed) /\ Lies(Retained, typed)

\* A save has all that is not held, and the buffer keeps what it has; nothing is
\* retained over what it does not have.
Saves ==
  /\ Lies(save.text, buf.text)
  /\ save.pc # "idle" => Lies(typed, save.text \cup Retained)
  /\ save.pc \in {"asked", "retain"} => Lies(Retained, save.text)
  /\ save.pc = "sent" => call["save"].content = save.text
  /\ save.pc = "replied" /\ save.outcome = "written" => Lies(save.text, {})
  /\ save.pc = "replied" /\ save.outcome = "held" => Lies(save.text, Retained)

\* A load begins when nothing is unsaved, and what it read has what is held.
Loads ==
  /\ load.pc \in {"read", "fill"} => Lies(typed, Retained)
  /\ load.pc = "fill" => Lies(Retained, load.text)

\* What a reconciliation took is all of the row, and its write has what it took.
Reconciles ==
  /\ rec.pc # "idle" => Lies(Retained, rec.edit.content)
  /\ rec.pc = "read" => rec.edit.base # Absent
  /\ rec.pc = "sent" => Lies(rec.edit.content, call["reconcile"].content)
  /\ rec.pc = "forget" => Lies(rec.edit.content, {})

\* So has a resolution's.
Resolves ==
  /\ res.pc # "idle" => Lies(Retained, res.local)
  /\ res.pc = "sent" => Lies(Retained, call["resolve"].content)
  /\ res.pc = "forget" => Lies(Retained, {})

Keeps == /\ Lies(told, Retained) /\ Lies(typed, Unsaved \cup Retained)
         /\ Lies(Retained, buf.text)

KeepInv == Settles /\ Typing /\ Saves /\ Loads /\ Reconciles /\ Resolves /\ Keeps

-----------------------------------------------------------------------------
(* Types: TypeOK, in parts.                                                *)

Rows  == [content : Files, base : Files]
Calls == [st : CallStates, content : Contents, base : Files]
Recs  == [pc : {"idle", "read", "sent", "forget"}, edit : Rows]
Ress  == [pc : {"idle", "shown", "sent", "forget"}, local : Contents, seen : Files]
SaveS == [pc : {"idle", "asked", "retain", "sent", "replied"},
          text : Contents, base : Files, outcome : Endings]
LoadS == [pc : {"idle", "decide", "read", "fill"}, text : Contents, base : Files]

HostT  == host \in Files /\ connected \in BOOLEAN /\ news \in BOOLEAN
CacheT == cache \in Files
RowT   == row \in Rows /\ (row.content = Absent => row = NoRow)
CallT  == call \in [Writers -> Calls]
\* What a reconciliation has in hand is an edit.
RecT   == rec \in Recs /\ (rec.pc # "idle" => rec.edit.content # Absent)
ResT   == res \in Ress
BufT   == buf \in Buffers(Contents, Files)
SaveT  == save \in SaveS
LoadT  == load \in LoadS
PastT  == /\ typed \subseteq Mine /\ told \subseteq Mine /\ lost \subseteq Theirs
          /\ settled \in Contents
RestT  == /\ report \in {"none", "conflicted", "other"} /\ due \in Nat
          /\ drops \in 0 .. MaxDrops /\ faults \in 0 .. MaxFaults
FlagT  == misbased \in BOOLEAN /\ untried \in BOOLEAN /\ overlooked \in BOOLEAN

TypeInv == /\ HostT /\ CacheT /\ RowT /\ CallT /\ RecT /\ ResT /\ BufT /\ SaveT /\ LoadT
           /\ PastT /\ RestT /\ FlagT

LEMMA TypesAreOK == TypeInv => TypeOK
BY DEF TypeInv, TypeOK, HostT, CacheT, RowT, CallT, RecT, ResT, BufT, SaveT, LoadT, PastT, RestT,
   FlagT, Rows, Calls, Recs, Ress, SaveS, LoadS

\* A variable that is left alone keeps its type.
LEMMA Stays ==
  /\ HostT /\ UNCHANGED <<host, connected, news>> => HostT'
  /\ CacheT /\ UNCHANGED cache => CacheT'
  /\ RowT /\ UNCHANGED row => RowT'
  /\ CallT /\ UNCHANGED call => CallT'
  /\ RecT /\ UNCHANGED rec => RecT'
  /\ ResT /\ UNCHANGED res => ResT'
  /\ BufT /\ UNCHANGED buf => BufT'
  /\ SaveT /\ UNCHANGED save => SaveT'
  /\ LoadT /\ UNCHANGED load => LoadT'
  /\ PastT /\ UNCHANGED <<typed, told, lost, settled>> => PastT'
  /\ RestT /\ UNCHANGED <<report, due, drops, faults>> => RestT'
  /\ FlagT /\ UNCHANGED <<misbased, untried, overlooked>> => FlagT'
BY DEF HostT, CacheT, RowT, CallT, RecT, ResT, BufT, SaveT, LoadT, PastT, RestT, FlagT

\* Contents are closed under what is done with them.
LEMMA ContentsAre ==
  /\ {} \in Contents /\ Absent \in Files
  /\ \A c \in Contents : c \in Files /\ c # Absent /\ c # Offline
  /\ \A c \in Files : c # Absent => c \in Contents
  /\ \A c, d \in Contents : c \cup d \in Contents
  /\ \A c \in Contents : \A d : c \cap d \in Contents /\ c \ d \in Contents
  /\ \A m \in Mine : {m} \in Contents
  /\ \A t \in Theirs : {t} \in Contents
  /\ Offline \notin Files
BY SentinelAssumption DEF Contents, Files

\* A request is sent, or lost before it is.
LEMMA SendIs ==
  ASSUME CallT, NEW w \in Writers, NEW content \in Contents, NEW base \in Files,
         Send(w, content, base)
  PROVE  /\ CallT' /\ call'[w].content = content /\ call'[w].st \in {"sent", "lost"}
         /\ call'[w].base = base /\ \A v \in Writers \ {w} : call'[v] = call[v]
BY DEF CallT, Calls, CallStates, Send

\* An answer is taken, and what was written is kept.
LEMMA AnsweredIs ==
  ASSUME CallT, CacheT, NEW w \in Writers, Answered(w)
  PROVE  /\ CallT' /\ CacheT' /\ call[w].st \notin {"none", "sent"} /\ call'[w] = NoCall
         /\ \A v \in Writers \ {w} : call'[v] = call[v]
         /\ cache' = cache \/ (call[w].st = "ok" /\ cache' = call[w].content)
<1>1. call' = [call EXCEPT ![w] = NoCall] /\ NoCall \in Calls
  BY ContentsAre DEF Answered, Calls, CallStates, NoCall
<1>2. cache' = cache \/ (call[w].st = "ok" /\ cache' = call[w].content)
  BY DEF Answered, Kept
<1>3. call[w].content \in Files
  BY ContentsAre DEF CallT, Calls
<1> QED
  BY <1>1, <1>2, <1>3 DEF Answered, CallT, CacheT

\* What a read returns is nothing, or what the host or the copy has; what was read
\* from the host may be kept.
LEMMA ReadIs ==
  ASSUME HostT, CacheT, NEW c \in Readable, cache' = CacheAfter(c)
  PROVE  /\ CacheT' /\ c \in {Offline, cache, host} /\ (c = Offline \/ c \in Files)
         /\ cache' \in {cache, host}
BY DEF HostT, CacheT, Readable, CacheAfter, Kept

\* There is a row, and it is an edit.
LEMMA RowIs ==
  ASSUME RowT
  PROVE  /\ row # NoRow => row.content \in Contents /\ Retained = row.content
         /\ row = NoRow => Retained = {}
         /\ row.base \in Files /\ row.content \in Files
BY ContentsAre DEF RowT, Rows, Retained, NoRow

LEMMA TypesHold == Spec => []TypeInv
<1> USE SentinelAssumption, BoundAssumption
<1>1. Init => TypeInv
  <2> SUFFICES ASSUME Init PROVE TypeInv
    OBVIOUS
  <2>1. HostT /\ CacheT
    BY ContentsAre DEF Init, HostT, CacheT
  <2>b. RestT
    BY DEF Init, RestT
  <2>c. FlagT
    BY DEF Init, FlagT
  <2>a. RowT /\ PastT
    BY ContentsAre DEF Init, RowT, PastT, Rows, NoRow
  <2>2. CallT
    BY ContentsAre DEF Init, CallT, Calls, CallStates, NoCall
  <2>3. RecT /\ ResT
    BY ContentsAre DEF Init, RecT, ResT, Recs, Ress, Rows, NoRec, NoRow, NoRes
  <2>4. BufT /\ SaveT /\ LoadT
    BY ContentsAre
       DEF Init, BufT, SaveT, LoadT, SaveS, LoadS, NoSave, NoLoad, Buffers, Filled, Endings
  <2> QED
    BY <2>1, <2>a, <2>b, <2>c, <2>2, <2>3, <2>4 DEF TypeInv
<1>2. TypeInv /\ [Next]_vars => TypeInv'
  <2> SUFFICES ASSUME TypeInv, [Next]_vars PROVE TypeInv'
    OBVIOUS
  <2> USE DEF TypeInv
  <2>1. ASSUME NEW m \in Mine, Type(m) PROVE TypeInv'
    <3>1. HostT' /\ CacheT' /\ RowT' /\ CallT' /\ RecT' /\ ResT' /\ SaveT' /\ LoadT' /\ RestT' /\
           FlagT'
      BY <2>1, Stays DEF Type, remote, store, core, editor, bounds, history
    <3>2. BufT'
      BY <2>1, ContentsAre, Stays DEF Type, BufT, Typed, Buffers, remote, store, core, editor,
        bounds, history
    <3>3. PastT'
      BY <2>1, ContentsAre, Stays DEF Type, PastT, remote, store, core, editor, bounds, history
    <3> QED
      BY <3>1, <3>2, <3>3
  <2>2. ASSUME NEW t \in Theirs, HostEdit(t) PROVE TypeInv'
    <3>1. CacheT' /\ RowT' /\ CallT' /\ RecT' /\ ResT' /\ BufT' /\ SaveT' /\ LoadT' /\ RestT' /\
           FlagT'
      BY <2>2, Stays DEF HostEdit, remote, store, core, editor, bounds, history
    <3>2. HostT'
      BY <2>2, ContentsAre, Stays DEF HostEdit, HostT, remote, store, core, editor, bounds,
        history
    <3>3. PastT'
      BY <2>2, ContentsAre, Stays DEF HostEdit, PastT, remote, store, core, editor, bounds,
        history
    <3> QED
      BY <3>1, <3>2, <3>3
  <2>3. CASE HostDelete
    <3>1. CacheT' /\ RowT' /\ CallT' /\ RecT' /\ ResT' /\ BufT' /\ SaveT' /\ LoadT' /\ PastT' /\
           FlagT'
      BY <2>3, Stays DEF HostDelete, remote, store, core, editor, bounds, history
    <3>2. HostT'
      BY <2>3, ContentsAre, Stays DEF HostDelete, HostT, remote, store, core, editor, bounds,
        history
    <3>3. RestT'
      BY <2>3, Stays DEF HostDelete, RestT, Fault, remote, store, core, editor, bounds, history
    <3> QED
      BY <3>1, <3>2, <3>3
  <2>4. ASSUME NEW w \in Writers, WriteFile(w) PROVE TypeInv'
    <3>1. CacheT' /\ RowT' /\ RecT' /\ ResT' /\ BufT' /\ SaveT' /\ LoadT' /\ RestT' /\ FlagT'
      BY <2>4, Stays DEF WriteFile, remote, store, core, editor, bounds, history
    <3>2. HostT'
      BY <2>4, ContentsAre, Stays DEF WriteFile, HostT, CallT, Calls, remote, store, core, editor,
        bounds, history
    <3>3. CallT'
      BY <2>4, ContentsAre, Stays DEF WriteFile, CallT, Calls, CallStates, remote, store, core,
        editor, bounds, history
    <3>4. PastT'
      BY <2>4, ContentsAre, Stays DEF WriteFile, PastT, CallT, Calls, remote, store, core, editor,
        bounds, history
    <3> QED
      BY <3>1, <3>2, <3>3, <3>4
  <2>5. CASE Disconnect
    <3>1. CacheT' /\ RowT' /\ RecT' /\ ResT' /\ BufT' /\ SaveT' /\ LoadT' /\ PastT' /\ FlagT'
      BY <2>5, Stays DEF Disconnect, remote, store, core, editor, bounds, history
    <3>2. HostT'
      BY <2>5, ContentsAre, Stays DEF Disconnect, HostT, remote, store, core, editor, bounds,
        history
    <3>3. CallT'
      BY <2>5, ContentsAre, Stays DEF Disconnect, CallT, Calls, CallStates, remote, store, core,
        editor, bounds, history
    <3>4. RestT'
      BY <2>5, Stays DEF Disconnect, RestT, remote, store, core, editor, bounds, history
    <3> QED
      BY <3>1, <3>2, <3>3, <3>4
  <2>6. CASE Reconnect
    <3>1. CacheT' /\ RowT' /\ CallT' /\ RecT' /\ ResT' /\ BufT' /\ SaveT' /\ LoadT' /\ PastT' /\
           FlagT'
      BY <2>6, Stays DEF Reconnect, remote, store, core, editor, bounds, history
    <3>2. HostT'
      BY <2>6, ContentsAre, Stays DEF Reconnect, HostT, remote, store, core, editor, bounds,
        history
    <3>3. RestT'
      BY <2>6, Stays DEF Reconnect, RestT, remote, store, core, editor, bounds, history
    <3> QED
      BY <3>1, <3>2, <3>3
  <2>7. CASE Relaunch
    <3>1. CacheT' /\ RowT' /\ FlagT'
      BY <2>7, Stays DEF Relaunch, remote, store, core, editor, bounds, history
    <3>2. HostT'
      BY <2>7, ContentsAre, Stays DEF Relaunch, HostT, remote, store, core, editor, bounds,
        history
    <3>3. CallT'
      BY <2>7, ContentsAre, Stays DEF Relaunch, CallT, Writers, NoCall, Calls, CallStates, remote,
        store, core, editor, bounds, history
    <3>4. RecT'
      BY <2>7, ContentsAre, Stays DEF Relaunch, RecT, NoRec, Recs, Rows, NoRow, remote, store,
        core, editor, bounds, history
    <3>5. ResT'
      BY <2>7, ContentsAre, Stays DEF Relaunch, ResT, NoRes, Ress, remote, store, core, editor,
        bounds, history
    <3>6. BufT'
      BY <2>7, RowIs, ContentsAre, Stays DEF Relaunch, BufT, CacheT, Filled, Buffers, Endings,
        remote, store, core, editor, bounds, history
    <3>7. SaveT'
      BY <2>7, ContentsAre, Stays DEF Relaunch, SaveT, NoSave, SaveS, Endings, remote, store,
        core, editor, bounds, history
    <3>8. LoadT'
      BY <2>7, ContentsAre, Stays DEF Relaunch, LoadT, NoLoad, LoadS, remote, store, core, editor,
        bounds, history
    <3>9. PastT'
      BY <2>7, ContentsAre, Stays DEF Relaunch, PastT, BufT, Buffers, remote, store, core, editor,
        bounds, history
    <3>10. RestT'
      BY <2>7, Stays DEF Relaunch, RestT, Fault, remote, store, core, editor, bounds, history
    <3> QED
      BY <3>1, <3>2, <3>3, <3>4, <3>5, <3>6, <3>7, <3>8, <3>9, <3>10
  <2>8. CASE Save
    <3>1. HostT' /\ CacheT' /\ RowT' /\ CallT' /\ RecT' /\ ResT' /\ BufT' /\ LoadT' /\ PastT' /\
           RestT' /\ FlagT'
      BY <2>8, Stays DEF Save, remote, store, core, editor, bounds, history
    <3>2. SaveT'
      BY <2>8, ContentsAre, Stays DEF Save, SaveT, SaveS, BufT, Buffers, Endings, remote, store,
        core, editor, bounds, history
    <3> QED
      BY <3>1, <3>2
  <2>9. CASE Route
    <3>1. HostT' /\ CacheT' /\ RowT' /\ RecT' /\ ResT' /\ BufT' /\ LoadT' /\ PastT' /\ RestT' /\
           FlagT'
      BY <2>9, Stays DEF Route, remote, store, core, editor, bounds, history
    <3>2. CallT'
      BY <2>9, SendIs, ContentsAre, Stays DEF Route, CallT, SaveT, SaveS, Writers, remote, store,
        core, editor, bounds, history
    <3>3. SaveT'
      BY <2>9, ContentsAre, Stays DEF Route, SaveT, SaveS, Endings, remote, store, core, editor,
        bounds, history
    <3> QED
      BY <3>1, <3>2, <3>3
  <2>10. CASE Retain
    <3>1. HostT' /\ CacheT' /\ CallT' /\ RecT' /\ ResT' /\ BufT' /\ LoadT' /\ RestT'
      BY <2>10, Stays DEF Retain, remote, store, core, editor, bounds, history
    <3>2. RowT'
      BY <2>10, ContentsAre, Stays DEF Retain, RowT, SaveT, SaveS, CacheT, Upserted, Rows, NoRow,
        remote, store, core, editor, bounds, history
    <3>3. SaveT'
      BY <2>10, ContentsAre, Stays DEF Retain, SaveT, SaveS, Endings, remote, store, core, editor,
        bounds, history
    <3>4. PastT'
      BY <2>10, ContentsAre, Stays DEF Retain, PastT, SaveT, SaveS, remote, store, core, editor,
        bounds, history
    <3>5. FlagT'
      BY <2>10, Stays DEF Retain, FlagT, HostT, remote, store, core, editor, bounds, history
    <3> QED
      BY <3>1, <3>2, <3>3, <3>4, <3>5
  <2>11. CASE SaveAnswer
    <3>1. HostT' /\ RowT' /\ RecT' /\ ResT' /\ BufT' /\ LoadT' /\ PastT' /\ RestT' /\ FlagT'
      BY <2>11, Stays DEF SaveAnswer, remote, store, core, editor, bounds, history
    <3>2. CacheT'
      BY <2>11, AnsweredIs, ContentsAre, Stays DEF SaveAnswer, CacheT, Writers, CallT, remote,
        store, core, editor, bounds, history
    <3>3. CallT'
      BY <2>11, AnsweredIs, ContentsAre, Stays DEF SaveAnswer, CallT, Writers, remote, store,
        core, editor, bounds, history
    <3>4. SaveT'
      BY <2>11, ContentsAre, Stays DEF SaveAnswer, SaveT, SaveS, Endings, remote, store, core,
        editor, bounds, history
    <3> QED
      BY <3>1, <3>2, <3>3, <3>4
  <2>12. CASE SaveEnd
    <3>1. HostT' /\ CacheT' /\ RowT' /\ CallT' /\ RecT' /\ ResT' /\ LoadT' /\ PastT' /\ RestT'
      BY <2>12, Stays DEF SaveEnd, remote, store, core, editor, bounds, history
    <3>2. BufT'
      BY <2>12, ContentsAre, Stays DEF SaveEnd, BufT, SaveT, SaveS, SaveEnded, Adopted, Held,
        Failed, Buffers, Endings, remote, store, core, editor, bounds, history
    <3>3. SaveT'
      BY <2>12, ContentsAre, Stays DEF SaveEnd, SaveT, NoSave, SaveS, Endings, remote, store,
        core, editor, bounds, history
    <3>4. FlagT'
      BY <2>12 DEF SaveEnd, FlagT
    <3> QED
      BY <3>1, <3>2, <3>3, <3>4
  <2>13. CASE FileEvent
    <3>1. CacheT' /\ RowT' /\ CallT' /\ RecT' /\ ResT' /\ BufT' /\ SaveT' /\ PastT' /\ RestT' /\
           FlagT'
      BY <2>13, Stays DEF FileEvent, remote, store, core, editor, bounds, history
    <3>2. HostT'
      BY <2>13, ContentsAre, Stays DEF FileEvent, HostT, remote, store, core, editor, bounds,
        history
    <3>3. LoadT'
      BY <2>13, ContentsAre, Stays DEF FileEvent, LoadT, HostT, NoLoad, LoadS, remote, store,
        core, editor, bounds, history
    <3> QED
      BY <3>1, <3>2, <3>3
  <2>14. CASE FileChanged
    <3>1. HostT' /\ CacheT' /\ RowT' /\ CallT' /\ RecT' /\ ResT' /\ BufT' /\ SaveT' /\ PastT' /\
           RestT' /\ FlagT'
      BY <2>14, Stays DEF FileChanged, remote, store, core, editor, bounds, history
    <3>2. LoadT'
      BY <2>14, ContentsAre, Stays DEF FileChanged, LoadT, NoLoad, LoadS, remote, store, core,
        editor, bounds, history
    <3> QED
      BY <3>1, <3>2
  <2>15. CASE Discard
    <3>1. HostT' /\ CacheT' /\ RowT' /\ CallT' /\ RecT' /\ ResT' /\ SaveT' /\ RestT' /\ FlagT'
      BY <2>15, Stays DEF Discard, remote, store, core, editor, bounds, history
    <3>2. BufT'
      BY <2>15, ContentsAre, Stays DEF Discard, BufT, Buffers, remote, store, core, editor,
        bounds, history
    <3>3. LoadT'
      BY <2>15, ContentsAre, Stays DEF Discard, LoadT, NoLoad, LoadS, remote, store, core, editor,
        bounds, history
    <3>4. PastT'
      BY <2>15, ContentsAre, Stays DEF Discard, PastT, BufT, Buffers, remote, store, core, editor,
        bounds, history
    <3> QED
      BY <3>1, <3>2, <3>3, <3>4
  <2>16. CASE LoadRead
    <3>1. HostT' /\ RowT' /\ CallT' /\ RecT' /\ ResT' /\ BufT' /\ SaveT' /\ PastT' /\ RestT' /\
           FlagT'
      BY <2>16, Stays DEF LoadRead, remote, store, core, editor, bounds, history
    <3>2. CacheT'
      BY <2>16, ReadIs, ContentsAre, Stays DEF LoadRead, CacheT, HostT, remote, store, core,
        editor, bounds, history
    <3>3. LoadT'
      BY <2>16, RowIs, ReadIs, ContentsAre, Stays DEF LoadRead, LoadT, NoLoad, LoadS, HostT,
        CacheT, RowT, Readable, remote, store, core, editor, bounds, history
    <3> QED
      BY <3>1, <3>2, <3>3
  <2>17. CASE LoadFill
    <3>1. HostT' /\ CacheT' /\ RowT' /\ CallT' /\ RecT' /\ ResT' /\ SaveT' /\ PastT' /\ RestT' /\
           FlagT'
      BY <2>17, Stays DEF LoadFill, remote, store, core, editor, bounds, history
    <3>2. BufT'
      BY <2>17, ContentsAre, Stays DEF LoadFill, BufT, LoadT, LoadS, Filled, Buffers, Endings,
        remote, store, core, editor, bounds, history
    <3>3. LoadT'
      BY <2>17, ContentsAre, Stays DEF LoadFill, LoadT, NoLoad, LoadS, remote, store, core,
        editor, bounds, history
    <3> QED
      BY <3>1, <3>2, <3>3
  <2>18. CASE Begin
    <3>1. HostT' /\ CacheT' /\ RowT' /\ ResT' /\ BufT' /\ SaveT' /\ LoadT' /\ PastT'
      BY <2>18, Stays DEF Begin, remote, store, core, editor, bounds, history
    <3>2. CallT'
      BY <2>18, SendIs, RowIs, ContentsAre, Stays DEF Begin, CallT, Writers, remote, store, core,
        editor, bounds, history
    <3>3. RecT'
      BY <2>18, RowIs, ContentsAre, Stays DEF Begin, RecT, Recs, RowT, Rows, remote, store, core,
        editor, bounds, history
    <3>4. RestT'
      BY <2>18, Stays DEF Begin, RestT, remote, store, core, editor, bounds, history
    <3>5. FlagT'
      BY <2>18, Stays DEF Begin, FlagT, remote, store, core, editor, bounds, history
    <3> QED
      BY <3>1, <3>2, <3>3, <3>4, <3>5
  <2>19. CASE NotBegun
    <3>1. HostT' /\ CacheT' /\ RowT' /\ CallT' /\ RecT' /\ ResT' /\ BufT' /\ SaveT' /\ LoadT' /\
           PastT' /\ FlagT'
      BY <2>19, Stays DEF NotBegun, remote, store, core, editor, bounds, history
    <3>2. RestT'
      BY <2>19, Stays DEF NotBegun, RestT, remote, store, core, editor, bounds, history
    <3> QED
      BY <3>1, <3>2
  <2>20. CASE Attempt
    <3>1. PICK theirs \in Readable : /\ cache' = CacheAfter(theirs)
            /\ \/ Idle /\ UNCHANGED call
               \/ /\ rec' = [rec EXCEPT !.pc = "sent"]
                  /\ \/ Send("reconcile", rec.edit.content, rec.edit.base)
                     \/ /\ theirs \notin {Offline, Absent}
                        /\ Send("reconcile", Merge(rec.edit.base, rec.edit.content, theirs), theirs)
      BY <2>20 DEF Attempt
    <3>2. HostT' /\ RowT' /\ ResT' /\ BufT' /\ SaveT' /\ LoadT' /\ PastT' /\ FlagT'
      BY <2>20, Stays DEF Attempt, remote, editor, bounds, history
    <3>3. RestT'
      BY <2>20 DEF Attempt, Report, bounds, RestT
    <3>4. CacheT'
      BY <3>1, ReadIs DEF HostT
    <3>5. RecT'
      BY <2>20, <3>1 DEF Attempt, RecT, Recs, Idle, NoRec, Rows, NoRow, Files
    <3>6. rec.edit.content \in Contents /\ rec.edit.base \in Files
      BY <2>20, ContentsAre DEF Attempt, RecT, Recs, Rows
    <3>7. ASSUME theirs # Offline, theirs # Absent
          PROVE  theirs \in Contents /\ Merge(rec.edit.base, rec.edit.content, theirs) \in Contents
      <4>1. theirs \in Contents
        BY <3>1, <3>7, ReadIs, ContentsAre
      <4> QED
        BY <3>6, <4>1 DEF Merge, Contents
    <3>8. CallT'
      BY <3>1, <3>6, <3>7, SendIs, ContentsAre, Stays DEF Writers
    <3> QED
      BY <3>2, <3>3, <3>4, <3>5, <3>8
  <2>21. CASE Attempted
    <3>1. HostT' /\ RowT' /\ ResT' /\ BufT' /\ SaveT' /\ LoadT' /\ PastT' /\ FlagT'
      BY <2>21, Stays DEF Attempted, remote, store, core, editor, bounds, history
    <3>2. CacheT'
      BY <2>21, AnsweredIs, ContentsAre, Stays DEF Attempted, CacheT, Writers, CallT, remote,
        store, core, editor, bounds, history
    <3>3. CallT'
      BY <2>21, AnsweredIs, ContentsAre, Stays DEF Attempted, CallT, Writers, remote, store, core,
        editor, bounds, history
    <3>4. RecT'
      BY <2>21, ContentsAre, Stays DEF Attempted, RecT, Recs, Idle, NoRec, Rows, NoRow, remote,
        store, core, editor, bounds, history
    <3>5. RestT'
      BY <2>21, Stays DEF Attempted, RestT, Report, remote, store, core, editor, bounds, history
    <3> QED
      BY <3>1, <3>2, <3>3, <3>4, <3>5
  <2>22. CASE Forget
    <3>1. HostT' /\ CacheT' /\ CallT' /\ ResT' /\ BufT' /\ SaveT' /\ LoadT' /\ PastT'
      BY <2>22, Stays DEF Forget, remote, store, core, editor, bounds, history
    <3>2. RowT'
      BY <2>22, ContentsAre, Stays DEF Forget, RowT, Rows, NoRow, remote, store, core, editor,
        bounds, history
    <3>3. RecT'
      BY <2>22, ContentsAre, Stays DEF Forget, RecT, Recs, Idle, NoRec, Rows, NoRow, remote,
        store, core, editor, bounds, history
    <3>4. RestT'
      BY <2>22, Stays DEF Forget, RestT, Report, remote, store, core, editor, bounds, history
    <3>5. FlagT'
      BY <2>22, Stays DEF Forget, FlagT, remote, store, core, editor, bounds, history
    <3> QED
      BY <3>1, <3>2, <3>3, <3>4, <3>5
  <2>23. CASE List
    <3>1. HostT' /\ RowT' /\ CallT' /\ RecT' /\ BufT' /\ SaveT' /\ LoadT' /\ PastT' /\ RestT' /\
           FlagT'
      BY <2>23, Stays DEF List, remote, store, core, editor, bounds, history
    <3>2. CacheT'
      BY <2>23, ReadIs, ContentsAre, Stays DEF List, CacheT, HostT, remote, store, core, editor,
        bounds, history
    <3>3. ResT'
      BY <2>23, ReadIs, RowIs, ContentsAre, Stays DEF List, ResT, Ress, remote, store, core,
        editor, bounds, history
    <3> QED
      BY <3>1, <3>2, <3>3
  <2>24. CASE TakeRemote
    <3>1. HostT' /\ CacheT' /\ CallT' /\ RecT' /\ BufT' /\ SaveT' /\ LoadT'
      BY <2>24, Stays DEF TakeRemote, remote, store, core, editor, bounds, history
    <3>2. RowT'
      BY <2>24, ContentsAre, Stays DEF TakeRemote, RowT, Rows, NoRow, remote, store, core, editor,
        bounds, history
    <3>3. ResT'
      BY <2>24, ContentsAre, Stays DEF TakeRemote, ResT, NoRes, Ress, remote, store, core, editor,
        bounds, history
    <3>4. PastT'
      BY <2>24, RowIs, ContentsAre, Stays DEF TakeRemote, PastT, remote, store, core, editor,
        bounds, history
    <3>5. RestT'
      BY <2>24, Stays DEF TakeRemote, RestT, remote, store, core, editor, bounds, history
    <3>6. FlagT'
      BY <2>24, Stays DEF TakeRemote, FlagT, remote, store, core, editor, bounds, history
    <3> QED
      BY <3>1, <3>2, <3>3, <3>4, <3>5, <3>6
  <2>25. CASE KeepLocal
    <3>1. HostT' /\ CacheT' /\ RowT' /\ RecT' /\ BufT' /\ SaveT' /\ LoadT' /\ PastT' /\ RestT' /\
           FlagT'
      BY <2>25, Stays DEF KeepLocal, remote, store, core, editor, bounds, history
    <3>2. CallT'
      BY <2>25, SendIs, RowIs, ContentsAre, Stays DEF KeepLocal, CallT, ResT, Ress, Writers,
        remote, store, core, editor, bounds, history
    <3>3. ResT'
      BY <2>25, ContentsAre, Stays DEF KeepLocal, ResT, Ress, remote, store, core, editor, bounds,
        history
    <3> QED
      BY <3>1, <3>2, <3>3
  <2>26. CASE KeepText
    <3>1. HostT' /\ CacheT' /\ RowT' /\ RecT' /\ BufT' /\ SaveT' /\ LoadT' /\ PastT' /\ RestT' /\
           FlagT'
      BY <2>26, Stays DEF KeepText, remote, store, core, editor, bounds, history
    <3>2. CallT'
      BY <2>26, SendIs, ContentsAre, Stays DEF KeepText, CallT, ResT, Ress, Writers, remote,
        store, core, editor, bounds, history
    <3>3. ResT'
      BY <2>26, ContentsAre, Stays DEF KeepText, ResT, Ress, remote, store, core, editor, bounds,
        history
    <3> QED
      BY <3>1, <3>2, <3>3
  <2>27. CASE Resolved
    <3>1. HostT' /\ RowT' /\ RecT' /\ BufT' /\ SaveT' /\ LoadT' /\ PastT' /\ RestT' /\ FlagT'
      BY <2>27, Stays DEF Resolved, remote, store, core, editor, bounds, history
    <3>2. CacheT'
      BY <2>27, AnsweredIs, ContentsAre, Stays DEF Resolved, CacheT, Writers, CallT, remote,
        store, core, editor, bounds, history
    <3>3. CallT'
      BY <2>27, AnsweredIs, ContentsAre, Stays DEF Resolved, CallT, Writers, remote, store, core,
        editor, bounds, history
    <3>4. ResT'
      BY <2>27, ContentsAre, Stays DEF Resolved, ResT, NoRes, Ress, remote, store, core, editor,
        bounds, history
    <3> QED
      BY <3>1, <3>2, <3>3, <3>4
  <2>28. CASE ForgetResolved
    <3>1. HostT' /\ CacheT' /\ CallT' /\ RecT' /\ BufT' /\ SaveT' /\ LoadT' /\ PastT'
      BY <2>28, Stays DEF ForgetResolved, remote, store, core, editor, bounds, history
    <3>2. RowT'
      BY <2>28, ContentsAre, Stays DEF ForgetResolved, RowT, Rows, NoRow, remote, store, core,
        editor, bounds, history
    <3>3. ResT'
      BY <2>28, ContentsAre, Stays DEF ForgetResolved, ResT, NoRes, Ress, remote, store, core,
        editor, bounds, history
    <3>4. RestT'
      BY <2>28, Stays DEF ForgetResolved, RestT, remote, store, core, editor, bounds, history
    <3>5. FlagT'
      BY <2>28, Stays DEF ForgetResolved, FlagT, remote, store, core, editor, bounds, history
    <3> QED
      BY <3>1, <3>2, <3>3, <3>4, <3>5
  <2>29. CASE UNCHANGED vars
    <3>1. HostT' /\ CacheT' /\ RowT' /\ CallT' /\ RecT' /\ ResT' /\ BufT' /\ SaveT' /\ LoadT' /\
           PastT' /\ RestT' /\ FlagT'
      BY <2>29, Stays DEF vars, remote, store, core, editor, bounds, history
    <3> QED
      BY <3>1
  <2> QED
    BY <2>1, <2>2, <2>3, <2>4, <2>5, <2>6, <2>7, <2>8, <2>9, <2>10, <2>11, <2>12, <2>13, <2>14,
      <2>15, <2>16, <2>17, <2>18, <2>19, <2>20, <2>21, <2>22, <2>23, <2>24, <2>25, <2>26, <2>27,
      <2>28, <2>29
       DEF Next, Editor, Reconciliation, Resolution
<1> QED
  BY <1>1, <1>2, PTL DEF Spec
-----------------------------------------------------------------------------
(* What is kept                                                            *)

LEMMA KeepHolds == Spec => []KeepInv
<1>1. Init => KeepInv
  <2> SUFFICES ASSUME Init PROVE KeepInv
    OBVIOUS
  <2>1. /\ host = {} /\ cache \in {{}, Absent} /\ row.base = Absent /\ Retained = {}
        /\ typed = {} /\ told = {} /\ settled = {} /\ rec.pc = "idle" /\ rec.edit.base = Absent
        /\ res.pc = "idle" /\ \A w \in Writers : call[w].st = "none"
    BY DEF Init, NoRow, Retained, NoRec, NoRes, NoCall
  <2>2. /\ buf.text = {} /\ save.text = {} /\ save.pc = "idle" /\ load.text = {}
        /\ load.pc = "idle" /\ ~buf.dirty
    BY DEF Init, Filled, NoSave, NoLoad
  <2> QED
    BY <2>1, <2>2 DEF KeepInv, Settles, Typing, Saves, Loads, Reconciles, Resolves, Keeps,
       Lies, Known
<1>2. TypeInv /\ KeepInv /\ [Next]_vars => KeepInv'
  <2> SUFFICES ASSUME TypeInv, KeepInv, [Next]_vars PROVE KeepInv'
    OBVIOUS
  <2>a. /\ CallT /\ RecT /\ HostT /\ CacheT /\ RowT /\ BufT /\ SaveT /\ ResT
    BY DEF TypeInv
  <2> USE <2>a, KeepInv
  <2>1. ASSUME NEW m \in Mine, Type(m) PROVE KeepInv'
    <3>1. /\ UNCHANGED <<host, cache, row, call, rec, res, save, load, told>>
             /\ Retained' = Retained
          /\ typed' = typed \cup {m}
          /\ settled \subseteq settled'
          /\ (save.pc # "idle" \/ load.pc \in {"read", "fill"} => m \in settled')
      BY <2>1 DEF Type, remote, store, core, editor, bounds, history, Retained
    <3>2. /\ buf'.text = buf.text \cup {m}
          /\ buf'.dirty
      BY <2>1, <3>1 DEF Type, Typed, BufT, Buffers, remote, store, core, editor, bounds, history
    <3>3. Settles' /\ Reconciles' /\ Resolves'
      BY <3>1, <3>2 DEF KeepInv, Settles, Reconciles, Resolves, Lies, Known
    <3>4. Typing'
      BY <3>1, <3>2 DEF KeepInv, Typing, Lies
    <3>5. Saves'
      BY <3>1, <3>2 DEF KeepInv, Saves, Lies
    <3>6. Loads'
      BY <3>1, <3>2 DEF KeepInv, Loads, Lies
    <3>7. Keeps'
      BY <3>1, <3>2 DEF KeepInv, Keeps, Lies, Unsaved
    <3> QED
      BY <3>3, <3>4, <3>5, <3>6, <3>7 DEF KeepInv
  <2>2. ASSUME NEW t \in Theirs, HostEdit(t) PROVE KeepInv'
    <3>1. /\ UNCHANGED <<cache, row, call, rec, res, buf, save, load, typed, told>>
             /\ Retained' = Retained
          /\ settled' = settled \cup {t}
          /\ (host' = {t} \/ (host # Absent /\ host' = host \cup {t}))
      BY <2>2 DEF HostEdit, remote, store, core, editor, bounds, history, Retained
    <3>2. Typing' /\ Saves' /\ Loads' /\ Reconciles' /\ Resolves' /\ Keeps'
      BY <3>1 DEF KeepInv, Typing, Saves, Loads, Reconciles, Resolves, Keeps, Lies, Unsaved
    <3>3. Settles'
      BY <3>1 DEF KeepInv, Settles, Lies, Known
    <3> QED
      BY <3>2, <3>3 DEF KeepInv
  <2>3. CASE HostDelete
    <3>1. /\ UNCHANGED <<cache, row, call, rec, res, buf, save, load, typed, told, settled>>
             /\ Retained' = Retained
          /\ host' = Absent
          /\ settled \subseteq settled'
      BY <2>3 DEF HostDelete, remote, store, core, editor, bounds, history, Retained
    <3>2. Typing' /\ Saves' /\ Loads' /\ Reconciles' /\ Resolves' /\ Keeps'
      BY <3>1 DEF KeepInv, Typing, Saves, Loads, Reconciles, Resolves, Keeps, Lies, Unsaved
    <3>3. Settles'
      BY <3>1 DEF KeepInv, Settles, Lies, Known
    <3> QED
      BY <3>2, <3>3 DEF KeepInv
  <2>4. ASSUME NEW w \in Writers, WriteFile(w) PROVE KeepInv'
    <3>1. /\ UNCHANGED <<cache, row, rec, res, buf, save, load, typed, told>>
             /\ Retained' = Retained
          /\ settled \subseteq settled'
          /\ (host' = host \/ (host' = call[w].content /\ host' \subseteq settled'))
      BY <2>4 DEF WriteFile, remote, store, core, editor, bounds, history, Retained
    <3>2. \A v \in Writers : /\ call'[v].content = call[v].content
                             /\ call'[v].st = "ok" =>
                                  call[v].st = "ok" \/ call[v].content \subseteq settled'
      BY <2>4, <3>1 DEF WriteFile, CallT, Calls, remote, store, core, editor, bounds, history
    <3>3. Typing' /\ Loads' /\ Keeps'
      BY <3>1, <3>2 DEF KeepInv, Typing, Loads, Keeps, Lies, Unsaved
    <3>4. Settles'
      BY <3>1, <3>2 DEF KeepInv, Settles, Lies, Known
    <3>5. Saves'
      BY <3>1, <3>2 DEF KeepInv, Saves, Lies, Writers
    <3>6. Reconciles'
      BY <3>1, <3>2 DEF KeepInv, Reconciles, Lies, Writers
    <3>7. Resolves'
      BY <3>1, <3>2 DEF KeepInv, Resolves, Lies, Writers
    <3> QED
      BY <3>3, <3>4, <3>5, <3>6, <3>7 DEF KeepInv
  <2>5. CASE Disconnect
    <3>1. UNCHANGED <<host, cache, row, rec, res, buf, save, load, typed, told, settled>>
          /\ Retained' = Retained
      BY <2>5 DEF Disconnect, remote, store, core, editor, bounds, history, Retained
    <3>2. \A v \in Writers : /\ call'[v].content = call[v].content
                             /\ call'[v].st = "ok" => call[v].st = "ok"
      BY <2>5, <3>1 DEF Disconnect, CallT, Calls, remote, store, core, editor, bounds, history
    <3>3. Typing' /\ Loads' /\ Keeps'
      BY <3>1, <3>2 DEF KeepInv, Typing, Loads, Keeps, Lies, Unsaved
    <3>4. Settles'
      BY <3>1, <3>2 DEF KeepInv, Settles, Lies, Known
    <3>5. Saves'
      BY <3>1, <3>2 DEF KeepInv, Saves, Lies, Writers
    <3>6. Reconciles'
      BY <3>1, <3>2 DEF KeepInv, Reconciles, Lies, Writers
    <3>7. Resolves'
      BY <3>1, <3>2 DEF KeepInv, Resolves, Lies, Writers
    <3> QED
      BY <3>3, <3>4, <3>5, <3>6, <3>7 DEF KeepInv
  <2>6. CASE Reconnect
    <3>1. /\ UNCHANGED <<host, cache, row, call, rec, res, buf, save, load, typed, told, settled>>
          /\ Retained' = Retained
      BY <2>6 DEF Reconnect, remote, store, core, editor, bounds, history, Retained
    <3>2. Settles' /\ Typing' /\ Saves' /\ Loads' /\ Reconciles' /\ Resolves' /\ Keeps'
      BY <3>1 DEF KeepInv, Settles, Typing, Saves, Loads, Reconciles, Resolves, Keeps, Lies,
         Known, Unsaved
    <3> QED
      BY <3>2 DEF KeepInv
  <2>7. CASE Relaunch
    <3>1. /\ UNCHANGED <<host, cache, row, typed, told>> /\ Retained' = Retained
          /\ settled' = settled \cup IF buf.dirty THEN (buf.text \cap Mine) \ told ELSE {}
      BY <2>7 DEF Relaunch, remote, store, core, editor, bounds, history, Retained
    <3>2. /\ rec'.pc = "idle" /\ rec'.edit.base = Absent
          /\ res'.pc = "idle" /\ res'.local = {}
          /\ load'.pc = "idle" /\ load'.text = {}
          /\ save'.pc = "idle" /\ save'.text = {}
          /\ \A v \in Writers : call'[v].st = "none"
      BY <2>7, <3>1 DEF Relaunch, NoRec, NoRow, NoRes, NoLoad, NoSave, NoCall, remote, store,
        core, editor, bounds, history
    <3>3. /\ ~buf'.dirty
          /\ ((row # NoRow /\ buf'.text = Retained) \/ (row = NoRow /\ Retained = {}
              /\ cache # Absent /\ buf'.text = cache))
      BY <2>7, <3>1, <3>2, RowIs DEF Relaunch, Filled, remote, store, core, editor, bounds,
        history
    <3>4. Settles'
      BY <3>1, <3>2, <3>3 DEF KeepInv, Settles, Lies, Known
    <3>5. Typing'
      BY <3>1, <3>2, <3>3 DEF KeepInv, Typing, Settles, Lies, Known
    <3>6. Saves'
      BY <3>1, <3>2, <3>3 DEF Saves, Lies
    <3>7. Loads'
      BY <3>1, <3>2, <3>3 DEF Loads
    <3>8. Reconciles'
      BY <3>1, <3>2, <3>3 DEF Reconciles
    <3>9. Resolves'
      BY <3>1, <3>2, <3>3 DEF Resolves
    <3>10. Keeps'
      BY <3>1, <3>2, <3>3 DEF KeepInv, Keeps, Lies, Unsaved
    <3> QED
      BY <3>4, <3>5, <3>6, <3>7, <3>8, <3>9, <3>10 DEF KeepInv
  <2>8. CASE Save
    <3>1. /\ UNCHANGED <<host, cache, row, call, rec, res, buf, load, typed, told, settled>>
             /\ Retained' = Retained
          /\ save'.pc = "asked" /\ save'.text = buf.text
          /\ buf.dirty
      BY <2>8 DEF Save, remote, store, core, editor, bounds, history, Retained
    <3>2. Settles' /\ Loads' /\ Reconciles' /\ Resolves' /\ Keeps'
      BY <3>1 DEF KeepInv, Settles, Loads, Reconciles, Resolves, Keeps, Lies, Known, Unsaved
    <3>3. Typing'
      BY <3>1 DEF KeepInv, Typing, Lies
    <3>4. Saves'
      BY <3>1 DEF KeepInv, Saves, Keeps, Lies, Unsaved
    <3> QED
      BY <3>2, <3>3, <3>4 DEF KeepInv
  <2>9. CASE Route
    <3>1. /\ UNCHANGED <<host, cache, row, rec, res, buf, load, typed, told, settled>>
             /\ Retained' = Retained
          /\ save.pc = "asked"
          /\ save'.text = save.text
      BY <2>9 DEF Route, SaveT, SaveS, remote, store, core, editor, bounds, history, Retained
    <3>2. \/ save'.pc = "replied" /\ save'.outcome = "other" /\ call' = call
          \/ save'.pc = "retain" /\ call' = call
          \/ save'.pc = "sent" /\ Send("save", save.text, save.base)
      BY <2>9, <3>1 DEF Route, SaveT, SaveS, remote, store, core, editor, bounds, history
    <3>3. /\ \A v \in Writers : call'[v].st = "ok" => call[v].st = "ok"
                                /\ call'[v].content = call[v].content
          /\ call'["reconcile"].content = call["reconcile"].content
          /\ call'["resolve"].content = call["resolve"].content
          /\ (save'.pc = "sent" => call'["save"].content = save.text)
      BY <2>9, <3>1, <3>2, SendIs DEF Route, SaveT, SaveS, Writers, remote, store, core, editor,
        bounds, history
    <3>4. Loads' /\ Keeps'
      BY <3>1, <3>2, <3>3 DEF KeepInv, Loads, Keeps, Lies, Unsaved
    <3>5. Settles'
      BY <3>1, <3>2, <3>3 DEF KeepInv, Settles, Lies, Known
    <3>6. Typing'
      BY <3>1, <3>2, <3>3 DEF KeepInv, Typing, Lies
    <3>7. Saves'
      BY <3>1, <3>2, <3>3 DEF KeepInv, Saves, Lies
    <3>8. Reconciles'
      BY <3>1, <3>2, <3>3 DEF KeepInv, Reconciles, Lies
    <3>9. Resolves'
      BY <3>1, <3>2, <3>3 DEF KeepInv, Resolves, Lies
    <3> QED
      BY <3>4, <3>5, <3>6, <3>7, <3>8, <3>9 DEF KeepInv
  <2>10. CASE Retain
    <3>1. /\ UNCHANGED <<host, cache, call, rec, res, buf, load, typed>>
          /\ save.pc = "retain"
          /\ told' = told \cup (save.text \cap Mine)
          /\ settled \subseteq settled'
          /\ (rec.pc # "idle" \/ res.pc # "idle" => save.text \cap Mine \subseteq settled')
      BY <2>10 DEF Retain, remote, store, core, editor, bounds, history, Retained
    <3>2. /\ save'.pc = "replied"
          /\ save'.outcome = "held"
          /\ save'.text = save.text
      BY <2>10, <3>1 DEF Retain, SaveT, SaveS, remote, store, core, editor, bounds, history
    <3>3. /\ save.text \in Contents
          /\ row' = Upserted(save.text, cache)
      BY <2>10, <3>1, <3>2 DEF Retain, SaveT, SaveS, remote, store, core, editor, bounds, history
    <3>4. /\ Retained' = save.text
          /\ (row'.base = row.base \/ row'.base = cache)
      BY <2>10, <3>1, <3>2, <3>3, ContentsAre DEF Retain, RowT, Rows, Upserted, Retained, NoRow,
        remote, store, core, editor, bounds, history
    <3>5. Settles'
      BY <3>1, <3>2, <3>3, <3>4 DEF KeepInv, Settles, Lies, Known
    <3>6. Typing'
      BY <3>1, <3>2, <3>3, <3>4 DEF KeepInv, Typing, Lies
    <3>7. Saves'
      BY <3>1, <3>2, <3>3, <3>4 DEF KeepInv, Saves, Lies
    <3>8. Loads'
      BY <3>1, <3>2, <3>3, <3>4 DEF KeepInv, Loads, Typing, Saves, Lies
    <3>9. Reconciles'
      BY <3>1, <3>2, <3>3, <3>4 DEF KeepInv, Reconciles, Lies
    <3>10. Resolves'
      BY <3>1, <3>2, <3>3, <3>4 DEF Resolves, Lies
    <3>11. Keeps'
      BY <3>1, <3>2, <3>3, <3>4 DEF KeepInv, Keeps, Saves, Lies
    <3> QED
      BY <3>5, <3>6, <3>7, <3>8, <3>9, <3>10, <3>11 DEF KeepInv
  <2>11. CASE SaveAnswer
    <3>1. /\ UNCHANGED <<host, row, rec, res, buf, load, typed, told, settled>>
             /\ Retained' = Retained
          /\ save.pc = "sent"
          /\ Answered("save")
      BY <2>11 DEF SaveAnswer, remote, store, core, editor, bounds, history, Retained
    <3>2. /\ save'.pc = "replied"
          /\ save'.text = save.text
          /\ (save'.outcome = "written" => call["save"].st = "ok")
          /\ save'.outcome # "held"
      BY <2>11, <3>1 DEF SaveAnswer, SaveT, SaveS, remote, store, core, editor, bounds, history
    <3>3. /\ \A v \in Writers \ {"save"} : call'[v] = call[v]
          /\ call'["save"].st = "none"
          /\ (cache' = cache \/ (call["save"].st = "ok" /\ cache' = call["save"].content))
      BY <2>11, <3>1, <3>2, AnsweredIs DEF SaveAnswer, Writers, NoCall, remote, store, core,
        editor, bounds, history
    <3>4. Loads' /\ Keeps'
      BY <3>1, <3>2, <3>3 DEF KeepInv, Loads, Keeps, Lies, Unsaved
    <3>5. Settles'
      BY <3>1, <3>2, <3>3 DEF KeepInv, Settles, Lies, Known, Writers
    <3>6. Typing'
      BY <3>1, <3>2, <3>3 DEF KeepInv, Typing, Lies
    <3>7. Saves'
      BY <3>1, <3>2, <3>3 DEF KeepInv, Saves, Settles, Lies, Writers
    <3>8. Reconciles'
      BY <3>1, <3>2, <3>3 DEF KeepInv, Reconciles, Lies, Writers
    <3>9. Resolves'
      BY <3>1, <3>2, <3>3 DEF KeepInv, Resolves, Lies, Writers
    <3> QED
      BY <3>4, <3>5, <3>6, <3>7, <3>8, <3>9 DEF KeepInv
  <2>12. CASE SaveEnd
    <3>1. /\ UNCHANGED <<host, cache, row, call, rec, res, load, typed, told, settled>>
             /\ Retained' = Retained
          /\ save.pc = "replied"
          /\ save'.pc = "idle" /\ save'.text = {}
      BY <2>12 DEF SaveEnd, NoSave, remote, store, core, editor, bounds, history, Retained
    <3>2. /\ buf'.text = buf.text
          /\ buf'.dirty = (save.outcome \notin {"written", "held"})
      BY <2>12, <3>1 DEF SaveEnd, SaveEnded, Adopted, Held, Failed, BufT, Buffers, remote, store,
        core, editor, bounds, history
    <3>3. Settles' /\ Loads' /\ Reconciles' /\ Resolves'
      BY <3>1, <3>2 DEF KeepInv, Settles, Loads, Reconciles, Resolves, Lies, Known
    <3>4. Typing'
      BY <3>1, <3>2 DEF KeepInv, Typing, Lies
    <3>5. Saves'
      BY <3>1, <3>2 DEF Saves, Lies
    <3>6. Keeps'
      BY <3>1, <3>2 DEF KeepInv, Keeps, Saves, Lies, Unsaved
    <3> QED
      BY <3>3, <3>4, <3>5, <3>6 DEF KeepInv
  <2>13. CASE FileEvent
    <3>1. /\ UNCHANGED <<host, cache, row, call, rec, res, buf, save, typed, told, settled>>
             /\ Retained' = Retained
          /\ load.pc = "idle"
          /\ (load' = load \/ (load'.pc = "decide" /\ load'.text = {}))
      BY <2>13 DEF FileEvent, NoLoad, remote, store, core, editor, bounds, history, Retained
    <3>2. Settles' /\ Saves' /\ Reconciles' /\ Resolves' /\ Keeps'
      BY <3>1 DEF KeepInv, Settles, Saves, Reconciles, Resolves, Keeps, Lies, Known, Unsaved
    <3>3. Typing'
      BY <3>1 DEF KeepInv, Typing, Lies
    <3>4. Loads'
      BY <3>1 DEF Loads
    <3> QED
      BY <3>2, <3>3, <3>4 DEF KeepInv
  <2>14. CASE FileChanged
    <3>1. /\ UNCHANGED <<host, cache, row, call, rec, res, buf, save, typed, told, settled>>
             /\ Retained' = Retained
          /\ load'.text = {}
          /\ (load'.pc = "idle" \/ (load'.pc = "read" /\ ~buf.dirty))
      BY <2>14 DEF FileChanged, NoLoad, remote, store, core, editor, bounds, history, Retained
    <3>2. Settles' /\ Saves' /\ Reconciles' /\ Resolves' /\ Keeps'
      BY <3>1 DEF KeepInv, Settles, Saves, Reconciles, Resolves, Keeps, Lies, Known, Unsaved
    <3>3. Typing'
      BY <3>1 DEF KeepInv, Typing, Lies
    <3>4. Loads'
      BY <3>1 DEF KeepInv, Loads, Keeps, Lies, Unsaved
    <3> QED
      BY <3>2, <3>3, <3>4 DEF KeepInv
  <2>15. CASE Discard
    <3>1. /\ UNCHANGED <<host, cache, row, call, rec, res, save, typed, told>>
             /\ Retained' = Retained
          /\ settled' = settled \cup (buf.text \cap Mine)
          /\ (load' = load \/ (load'.pc = "read" /\ load'.text = {}))
      BY <2>15 DEF Discard, NoLoad, remote, store, core, editor, bounds, history, Retained
    <3>2. /\ buf'.text = buf.text
          /\ ~buf'.dirty
      BY <2>15, <3>1 DEF Discard, BufT, Buffers, remote, store, core, editor, bounds, history
    <3>3. Settles' /\ Reconciles' /\ Resolves'
      BY <3>1, <3>2 DEF KeepInv, Settles, Reconciles, Resolves, Lies, Known
    <3>4. Typing'
      BY <3>1, <3>2 DEF KeepInv, Typing, Lies
    <3>5. Saves'
      BY <3>1, <3>2 DEF KeepInv, Saves, Lies
    <3>6. Loads'
      BY <3>1, <3>2 DEF KeepInv, Loads, Keeps, Lies, Unsaved
    <3>7. Keeps'
      BY <3>1, <3>2 DEF KeepInv, Keeps, Lies, Unsaved
    <3> QED
      BY <3>3, <3>4, <3>5, <3>6, <3>7 DEF KeepInv
  <2>16. CASE LoadRead
    <3>1. /\ UNCHANGED <<host, row, call, rec, res, buf, save, typed, told, settled>>
             /\ Retained' = Retained
          /\ load.pc = "read"
      BY <2>16 DEF LoadRead, remote, store, core, editor, bounds, history, Retained
    <3>2. cache' = cache \/ cache' = host
      BY <2>16, <3>1, ReadIs DEF LoadRead, remote, store, core, editor, bounds, history
    <3>3. \/ load'.pc = "idle" /\ load'.text = {}
          \/ row # NoRow /\ load'.pc = "fill" /\ load'.text = Retained
          \/ row = NoRow /\ Retained = {} /\ load'.pc = "fill"
             /\ load'.text \in {cache, host} /\ load'.text # Absent
      BY <2>16, <3>1, <3>2, RowIs, ReadIs DEF LoadRead, NoLoad, CacheAfter, Kept, Readable,
        remote, store, core, editor, bounds, history
    <3>4. Saves' /\ Reconciles' /\ Resolves' /\ Keeps'
      BY <3>1, <3>2, <3>3 DEF KeepInv, Saves, Reconciles, Resolves, Keeps, Lies, Unsaved
    <3>5. Settles'
      BY <3>1, <3>2, <3>3 DEF KeepInv, Settles, Lies, Known
    <3>6. Typing'
      BY <3>1, <3>2, <3>3 DEF KeepInv, Typing, Settles, Lies, Known
    <3>7. Loads'
      BY <3>1, <3>2, <3>3 DEF KeepInv, Loads, Lies
    <3> QED
      BY <3>4, <3>5, <3>6, <3>7 DEF KeepInv
  <2>17. CASE LoadFill
    <3>1. /\ UNCHANGED <<host, cache, row, call, rec, res, save, typed, told, settled>>
             /\ Retained' = Retained
          /\ load.pc = "fill"
          /\ load'.pc = "idle" /\ load'.text = {}
          /\ buf'.text = load.text
          /\ ~buf'.dirty
      BY <2>17 DEF LoadFill, NoLoad, Filled, remote, store, core, editor, bounds, history,
        Retained
    <3>2. Settles' /\ Reconciles' /\ Resolves'
      BY <3>1 DEF KeepInv, Settles, Reconciles, Resolves, Lies, Known
    <3>3. Typing'
      BY <3>1 DEF KeepInv, Typing, Lies
    <3>4. Saves'
      BY <3>1 DEF KeepInv, Saves, Typing, Loads, Lies
    <3>5. Loads'
      BY <3>1 DEF Loads
    <3>6. Keeps'
      BY <3>1 DEF KeepInv, Keeps, Loads, Lies
    <3> QED
      BY <3>2, <3>3, <3>4, <3>5, <3>6 DEF KeepInv
  <2>18. CASE Begin
    <3>1. UNCHANGED <<host, cache, row, res, buf, save, load, typed, told, settled>>
          /\ Retained' = Retained
      BY <2>18 DEF Begin, remote, store, core, editor, bounds, history, Retained
    <3>2. \/ rec' = rec /\ call' = call
          \/ /\ row # NoRow /\ rec'.edit = row
             /\ \/ rec'.pc = "read" /\ row.base # Absent /\ call' = call
                \/ rec'.pc = "sent" /\ Send("reconcile", row.content, Absent)
      BY <2>18, <3>1 DEF Begin, remote, store, core, editor, bounds, history
    <3>3. /\ (rec' = rec \/ (rec'.pc \in {"read", "sent"} /\ rec'.edit = row
              /\ row.content = Retained))
          /\ \A v \in Writers : call'[v].st = "ok" => call[v].st = "ok"
                                /\ call'[v].content = call[v].content
          /\ call'["save"].content = call["save"].content
          /\ call'["resolve"].content = call["resolve"].content
          /\ (rec' # rec /\ rec'.pc = "read" => row.base # Absent)
          /\ (rec' # rec /\ rec'.pc = "sent" => call'["reconcile"].content = Retained)
          /\ (rec' = rec => call'["reconcile"].content = call["reconcile"].content)
      BY <2>18, <3>1, <3>2, SendIs, RowIs DEF Begin, Writers, remote, store, core, editor, bounds,
        history
    <3>4. Typing' /\ Loads' /\ Keeps'
      BY <3>1, <3>2, <3>3 DEF KeepInv, Typing, Loads, Keeps, Lies, Unsaved
    <3>5. Settles'
      BY <3>1, <3>2, <3>3 DEF KeepInv, Settles, Lies, Known
    <3>6. Saves'
      BY <3>1, <3>2, <3>3 DEF KeepInv, Saves, Lies
    <3>7. Reconciles'
      BY <3>1, <3>2, <3>3 DEF KeepInv, Reconciles, Lies
    <3>8. Resolves'
      BY <3>1, <3>2, <3>3 DEF KeepInv, Resolves, Lies
    <3> QED
      BY <3>4, <3>5, <3>6, <3>7, <3>8 DEF KeepInv
  <2>19. CASE NotBegun
    <3>1. /\ UNCHANGED <<host, cache, row, call, rec, res, buf, save, load, typed, told, settled>>
          /\ Retained' = Retained
      BY <2>19 DEF NotBegun, remote, store, core, editor, bounds, history, Retained
    <3>2. Settles' /\ Typing' /\ Saves' /\ Loads' /\ Reconciles' /\ Resolves' /\ Keeps'
      BY <3>1 DEF KeepInv, Settles, Typing, Saves, Loads, Reconciles, Resolves, Keeps, Lies,
         Known, Unsaved
    <3> QED
      BY <3>2 DEF KeepInv
  <2>20. CASE Attempt
    <3>1. UNCHANGED <<host, row, res, buf, save, load, typed, told, settled>>
          /\ Retained' = Retained /\ rec.pc = "read"
      BY <2>20 DEF Attempt, Retained, remote, editor, bounds, history
    <3>2. PICK theirs \in Readable : /\ cache' = CacheAfter(theirs)
            /\ \/ Idle /\ UNCHANGED call
               \/ /\ rec' = [rec EXCEPT !.pc = "sent"]
                  /\ \/ Send("reconcile", rec.edit.content, rec.edit.base)
                     \/ /\ theirs \notin {Offline, Absent}
                        /\ Send("reconcile", Merge(rec.edit.base, rec.edit.content, theirs), theirs)
      BY <2>20 DEF Attempt
    <3>3. /\ rec.edit.content \in Contents /\ rec.edit.base \in Files
          /\ cache' \in {cache, host} /\ (theirs \in Files \/ theirs = Offline)
      BY <3>1, <3>2, ReadIs, ContentsAre DEF RecT, Recs, Rows
    <3>4. ASSUME theirs \notin {Offline, Absent}
          PROVE  /\ theirs \in Contents
                 /\ Merge(rec.edit.base, rec.edit.content, theirs) \in Contents
                 /\ Lies(rec.edit.content, Merge(rec.edit.base, rec.edit.content, theirs))
      <4>1. theirs \in Contents
        BY <3>3, <3>4, ContentsAre
      <4>2. Lies(rec.edit.base, {})
        BY <3>1 DEF KeepInv, Settles, Reconciles, Known
      <4> QED
        BY <3>3, <4>1, <4>2 DEF Merge, Contents, Lies
    <3>5. \/ rec'.pc = "idle" /\ rec'.edit.base = Absent /\ call' = call
          \/ /\ rec'.pc = "sent" /\ rec'.edit = rec.edit
             /\ \E c \in Contents : \E b \in Files :
                  Lies(rec.edit.content, c) /\ Send("reconcile", c, b)
      <4>1. Lies(rec.edit.content, rec.edit.content)
        BY DEF Lies
      <4> QED
        BY <3>2, <3>3, <3>4, <4>1, ContentsAre DEF Idle, NoRec, NoRow, RecT, Recs
    <3>6. \/ rec'.pc = "idle" /\ rec'.edit.base = Absent /\ call' = call
          \/ /\ rec'.pc = "sent" /\ rec'.edit = rec.edit
             /\ Lies(rec.edit.content, call'["reconcile"].content)
             /\ call'["reconcile"].st # "ok"
             /\ \A v \in Writers \ {"reconcile"} : call'[v] = call[v]
      BY <3>5, SendIs DEF Writers
    <3>7. Settles'
      BY <3>1, <3>3, <3>6 DEF KeepInv, Settles, Lies, Known
    <3>8. Typing'
      BY <3>1, <3>3, <3>6 DEF KeepInv, Typing, Lies
    <3>9. Saves'
      BY <3>1, <3>3, <3>6 DEF KeepInv, Saves, Lies, Writers
    <3>10. Loads'
      BY <3>1, <3>3, <3>6 DEF KeepInv, Loads, Lies
    <3>11. Reconciles'
      BY <3>1, <3>3, <3>6 DEF KeepInv, Reconciles, Lies
    <3>12. Resolves'
      BY <3>1, <3>3, <3>6 DEF KeepInv, Resolves, Lies, Writers
    <3>13. Keeps'
      BY <3>1, <3>3, <3>6 DEF KeepInv, Keeps, Lies, Unsaved
    <3> QED
      BY <3>7, <3>8, <3>9, <3>10, <3>11, <3>12, <3>13 DEF KeepInv
  <2>21. CASE Attempted
    <3>1. /\ UNCHANGED <<host, row, res, buf, save, load, typed, told, settled>>
             /\ Retained' = Retained
          /\ rec.pc = "sent"
          /\ Answered("reconcile")
      BY <2>21 DEF Attempted, remote, store, core, editor, bounds, history, Retained
    <3>2. \/ rec'.pc = "idle" /\ rec'.edit.base = Absent
          \/ call["reconcile"].st = "ok" /\ rec'.pc = "forget" /\ rec'.edit = rec.edit
      BY <2>21, <3>1 DEF Attempted, Idle, NoRec, NoRow, RecT, Recs, remote, store, core, editor,
        bounds, history
    <3>3. /\ \A v \in Writers \ {"reconcile"} : call'[v] = call[v]
          /\ call'["reconcile"].st = "none"
          /\ (cache' = cache \/ (call["reconcile"].st = "ok"
              /\ cache' = call["reconcile"].content))
      BY <2>21, <3>1, <3>2, AnsweredIs DEF Attempted, Writers, NoCall, remote, store, core,
        editor, bounds, history
    <3>4. Typing' /\ Loads' /\ Keeps'
      BY <3>1, <3>2, <3>3 DEF KeepInv, Typing, Loads, Keeps, Lies, Unsaved
    <3>5. Settles'
      BY <3>1, <3>2, <3>3 DEF KeepInv, Settles, Lies, Known, Writers
    <3>6. Saves'
      BY <3>1, <3>2, <3>3 DEF KeepInv, Saves, Lies, Writers
    <3>7. Reconciles'
      BY <3>1, <3>2, <3>3 DEF KeepInv, Reconciles, Settles, Lies, Writers
    <3>8. Resolves'
      BY <3>1, <3>2, <3>3 DEF KeepInv, Resolves, Lies, Writers
    <3> QED
      BY <3>4, <3>5, <3>6, <3>7, <3>8 DEF KeepInv
  <2>22. CASE Forget
    <3>1. /\ UNCHANGED <<host, cache, call, res, buf, save, load, typed, told, settled>>
          /\ rec.pc = "forget"
          /\ rec'.pc = "idle" /\ rec'.edit.base = Absent
          /\ row' = NoRow /\ Retained' = {} /\ row'.base = Absent
      BY <2>22 DEF Forget, Idle, NoRec, NoRow, Retained, remote, store, core, editor, bounds,
        history
    <3>2. Settles'
      BY <3>1 DEF KeepInv, Settles, Lies, Known
    <3>3. Typing'
      BY <3>1 DEF KeepInv, Typing, Lies
    <3>4. Saves'
      BY <3>1 DEF KeepInv, Saves, Reconciles, Lies
    <3>5. Loads'
      BY <3>1 DEF KeepInv, Loads, Reconciles, Lies
    <3>6. Reconciles'
      BY <3>1 DEF Reconciles
    <3>7. Resolves'
      BY <3>1 DEF Resolves, Lies
    <3>8. Keeps'
      BY <3>1 DEF KeepInv, Keeps, Reconciles, Lies, Unsaved
    <3> QED
      BY <3>2, <3>3, <3>4, <3>5, <3>6, <3>7, <3>8 DEF KeepInv
  <2>23. CASE List
    <3>1. /\ UNCHANGED <<host, row, call, rec, buf, save, load, typed, told, settled>>
             /\ Retained' = Retained
          /\ res'.pc = "shown"
          /\ res'.local = row.content
          /\ row # NoRow
      BY <2>23 DEF List, remote, store, core, editor, bounds, history, Retained
    <3>2. /\ row.content = Retained
          /\ (cache' = cache \/ cache' = host)
      BY <2>23, <3>1, ReadIs, RowIs DEF List, remote, store, core, editor, bounds, history
    <3>3. Typing' /\ Saves' /\ Loads' /\ Reconciles' /\ Keeps'
      BY <3>1, <3>2 DEF KeepInv, Typing, Saves, Loads, Reconciles, Keeps, Lies, Unsaved
    <3>4. Settles'
      BY <3>1, <3>2 DEF KeepInv, Settles, Lies, Known
    <3>5. Resolves'
      BY <3>1, <3>2 DEF Resolves, Lies
    <3> QED
      BY <3>3, <3>4, <3>5 DEF KeepInv
  <2>24. CASE TakeRemote
    <3>1. /\ UNCHANGED <<host, cache, call, rec, buf, save, load, typed, told>>
          /\ res'.pc = "idle" /\ res'.local = {}
          /\ row' = NoRow /\ Retained' = {} /\ row'.base = Absent
          /\ settled' = settled \cup (row.content \cap Mine)
          /\ row # NoRow
      BY <2>24 DEF TakeRemote, NoRes, NoRow, Retained, remote, store, core, editor, bounds,
        history
    <3>2. row.content = Retained
      BY <2>24, <3>1, RowIs DEF TakeRemote, remote, store, core, editor, bounds, history
    <3>3. Settles'
      BY <3>1, <3>2 DEF KeepInv, Settles, Lies, Known
    <3>4. Typing'
      BY <3>1, <3>2 DEF KeepInv, Typing, Lies
    <3>5. Saves'
      BY <3>1, <3>2 DEF KeepInv, Saves, Lies
    <3>6. Loads'
      BY <3>1, <3>2 DEF KeepInv, Loads, Lies
    <3>7. Reconciles'
      BY <3>1, <3>2 DEF KeepInv, Reconciles, Lies
    <3>8. Resolves'
      BY <3>1, <3>2 DEF Resolves
    <3>9. Keeps'
      BY <3>1, <3>2 DEF KeepInv, Keeps, Lies, Unsaved
    <3> QED
      BY <3>3, <3>4, <3>5, <3>6, <3>7, <3>8, <3>9 DEF KeepInv
  <2>25. CASE KeepLocal
    <3>1. /\ UNCHANGED <<host, cache, row, rec, buf, save, load, typed, told, settled>>
             /\ Retained' = Retained
          /\ res.pc = "shown"
          /\ row # NoRow
          /\ res'.pc = "sent" /\ res'.local = res.local
      BY <2>25 DEF KeepLocal, ResT, Ress, remote, store, core, editor, bounds, history, Retained
    <3>2. /\ Send("resolve", row.content, res.seen)
          /\ row.content = Retained /\ row.content \in Contents
          /\ res.seen \in Files /\ res.local \in Contents
      BY <2>25, <3>1, RowIs, ContentsAre DEF KeepLocal, ResT, Ress, remote, store, core, editor,
        bounds, history
    <3>3. /\ \A v \in Writers : call'[v].st = "ok" => call[v].st = "ok"
                                /\ call'[v].content = call[v].content
          /\ call'["save"].content = call["save"].content
          /\ call'["reconcile"].content = call["reconcile"].content
          /\ call'["resolve"].content = Retained
      BY <2>25, <3>1, <3>2, SendIs DEF KeepLocal, Writers, remote, store, core, editor, bounds,
        history
    <3>4. Typing' /\ Loads' /\ Keeps'
      BY <3>1, <3>2, <3>3 DEF KeepInv, Typing, Loads, Keeps, Lies, Unsaved
    <3>5. Settles'
      BY <3>1, <3>2, <3>3 DEF KeepInv, Settles, Lies, Known
    <3>6. Saves'
      BY <3>1, <3>2, <3>3 DEF KeepInv, Saves, Lies
    <3>7. Reconciles'
      BY <3>1, <3>2, <3>3 DEF KeepInv, Reconciles, Lies
    <3>8. Resolves'
      BY <3>1, <3>2, <3>3 DEF KeepInv, Resolves, Lies
    <3> QED
      BY <3>4, <3>5, <3>6, <3>7, <3>8 DEF KeepInv
  <2>26. CASE KeepText
    <3>1. /\ UNCHANGED <<host, cache, row, rec, buf, save, load, typed, told, settled>>
             /\ Retained' = Retained
          /\ res.pc = "shown"
          /\ row # NoRow
          /\ res'.pc = "sent" /\ res'.local = res.local
      BY <2>26 DEF KeepText, ResT, Ress, remote, store, core, editor, bounds, history, Retained
    <3>2. /\ Send("resolve", res.local \cup res.seen, res.seen)
          /\ row.content = Retained /\ row.content \in Contents
          /\ res.seen \in Files /\ res.local \in Contents
          /\ res.seen \in Contents
          /\ res.local \cup res.seen \in Contents
      BY <2>26, <3>1, RowIs, ContentsAre DEF KeepText, ResT, Ress, remote, store, core, editor,
        bounds, history
    <3>3. /\ \A v \in Writers : call'[v].st = "ok" => call[v].st = "ok"
                                /\ call'[v].content = call[v].content
          /\ call'["save"].content = call["save"].content
          /\ call'["reconcile"].content = call["reconcile"].content
          /\ call'["resolve"].content = res.local \cup res.seen
      BY <2>26, <3>1, <3>2, SendIs DEF KeepText, Writers, remote, store, core, editor, bounds,
        history
    <3>4. Typing' /\ Loads' /\ Keeps'
      BY <3>1, <3>2, <3>3 DEF KeepInv, Typing, Loads, Keeps, Lies, Unsaved
    <3>5. Settles'
      BY <3>1, <3>2, <3>3 DEF KeepInv, Settles, Lies, Known
    <3>6. Saves'
      BY <3>1, <3>2, <3>3 DEF KeepInv, Saves, Lies
    <3>7. Reconciles'
      BY <3>1, <3>2, <3>3 DEF KeepInv, Reconciles, Lies
    <3>8. Resolves'
      BY <3>1, <3>2, <3>3 DEF KeepInv, Resolves, Lies
    <3> QED
      BY <3>4, <3>5, <3>6, <3>7, <3>8 DEF KeepInv
  <2>27. CASE Resolved
    <3>1. /\ UNCHANGED <<host, row, rec, buf, save, load, typed, told, settled>>
             /\ Retained' = Retained
          /\ res.pc = "sent"
          /\ Answered("resolve")
      BY <2>27 DEF Resolved, remote, store, core, editor, bounds, history, Retained
    <3>2. \/ res'.pc = "idle" /\ res'.local = {}
          \/ call["resolve"].st = "ok" /\ res'.pc = "forget" /\ res'.local = res.local
      BY <2>27, <3>1 DEF Resolved, NoRes, ResT, Ress, remote, store, core, editor, bounds, history
    <3>3. /\ \A v \in Writers \ {"resolve"} : call'[v] = call[v]
          /\ call'["resolve"].st = "none"
          /\ (cache' = cache \/ (call["resolve"].st = "ok" /\ cache' = call["resolve"].content))
      BY <2>27, <3>1, <3>2, AnsweredIs DEF Resolved, Writers, NoCall, remote, store, core, editor,
        bounds, history
    <3>4. Typing' /\ Loads' /\ Keeps'
      BY <3>1, <3>2, <3>3 DEF KeepInv, Typing, Loads, Keeps, Lies, Unsaved
    <3>5. Settles'
      BY <3>1, <3>2, <3>3 DEF KeepInv, Settles, Lies, Known, Writers
    <3>6. Saves'
      BY <3>1, <3>2, <3>3 DEF KeepInv, Saves, Lies, Writers
    <3>7. Reconciles'
      BY <3>1, <3>2, <3>3 DEF KeepInv, Reconciles, Lies, Writers
    <3>8. Resolves'
      BY <3>1, <3>2, <3>3 DEF KeepInv, Resolves, Settles, Lies, Writers
    <3> QED
      BY <3>4, <3>5, <3>6, <3>7, <3>8 DEF KeepInv
  <2>28. CASE ForgetResolved
    <3>1. /\ UNCHANGED <<host, cache, call, rec, buf, save, load, typed, told, settled>>
          /\ res.pc = "forget"
          /\ res'.pc = "idle" /\ res'.local = {}
          /\ row' = NoRow /\ Retained' = {} /\ row'.base = Absent
      BY <2>28 DEF ForgetResolved, NoRes, NoRow, Retained, remote, store, core, editor, bounds,
        history
    <3>2. Settles'
      BY <3>1 DEF KeepInv, Settles, Lies, Known
    <3>3. Typing'
      BY <3>1 DEF KeepInv, Typing, Lies
    <3>4. Saves'
      BY <3>1 DEF KeepInv, Saves, Resolves, Lies
    <3>5. Loads'
      BY <3>1 DEF KeepInv, Loads, Resolves, Lies
    <3>6. Reconciles'
      BY <3>1 DEF KeepInv, Reconciles, Lies
    <3>7. Resolves'
      BY <3>1 DEF Resolves
    <3>8. Keeps'
      BY <3>1 DEF KeepInv, Keeps, Resolves, Lies, Unsaved
    <3> QED
      BY <3>2, <3>3, <3>4, <3>5, <3>6, <3>7, <3>8 DEF KeepInv
  <2>29. CASE UNCHANGED vars
    <3>1. /\ UNCHANGED <<host, cache, row, call, rec, res, buf, save, load, typed, told, settled>>
          /\ Retained' = Retained
      BY <2>29 DEF vars, remote, store, core, editor, bounds, history, Retained
    <3>2. Settles' /\ Typing' /\ Saves' /\ Loads' /\ Reconciles' /\ Resolves' /\ Keeps'
      BY <3>1 DEF KeepInv, Settles, Typing, Saves, Loads, Reconciles, Resolves, Keeps, Lies,
         Known, Unsaved
    <3> QED
      BY <3>2 DEF KeepInv
  <2> QED
    BY <2>1, <2>2, <2>3, <2>4, <2>5, <2>6, <2>7, <2>8, <2>9, <2>10, <2>11, <2>12, <2>13, <2>14,
      <2>15, <2>16, <2>17, <2>18, <2>19, <2>20, <2>21, <2>22, <2>23, <2>24, <2>25, <2>26, <2>27,
      <2>28, <2>29
       DEF Next, Editor, Reconciliation, Resolution
<1> QED
  BY <1>1, <1>2, TypesHold, PTL DEF Spec
-----------------------------------------------------------------------------
(* Nothing of others is removed unseen.                                    *)

\* MadeFrom, piece by piece.
From(text, base) == base # Absent => \A p \in Theirs : p \in base => p \in text

BufM  == From(buf.text, buf.base)
SaveM == save.pc # "idle" => From(save.text, save.base)
LoadM == load.pc = "fill" => From(load.text, load.base)
RowM  == From(row.content, row.base)
RecM  == rec.pc # "idle" => From(rec.edit.content, rec.edit.base)
CallM == \A w \in {"save", "reconcile"} :
           call[w].st = "sent" => From(call[w].content, call[w].base)

\* A resolution's write is conditional on what was shown.
ResM == call["resolve"].st = "sent" => res.pc = "sent" /\ call["resolve"].base = res.seen

\* Unless a row or the buffer got a base its text was not made from, no text
\* anywhere has such a base, and nothing was removed.
Made == lost = {} /\ BufM /\ SaveM /\ LoadM /\ RowM /\ RecM /\ CallM

UnseenInv == ResM /\ (~misbased => Made)

LEMMA FromIs == \A text, base : From(text, base) <=> MadeFrom(text, base)
BY DEF From, MadeFrom

\* A part whose variable is left alone, or has come to nothing, is left.
LEMMA FromStays ==
  /\ BufM /\ UNCHANGED buf => BufM'
  /\ SaveM /\ UNCHANGED save => SaveM'
  /\ LoadM /\ UNCHANGED load => LoadM'
  /\ RowM /\ UNCHANGED row => RowM'
  /\ RecM /\ UNCHANGED rec => RecM'
  /\ CallM /\ UNCHANGED call => CallM'
  /\ ResM /\ UNCHANGED <<call, res>> => ResM'
  /\ row' = NoRow => RowM'
  /\ save'.pc = "idle" => SaveM'
  /\ load'.pc # "fill" => LoadM'
  /\ rec'.pc = "idle" => RecM'
BY DEF BufM, SaveM, LoadM, RowM, RecM, CallM, ResM, From, NoRow

\* What a request that is sent needs.
LEMMA SentFrom ==
  ASSUME CallT, CallM, NEW w \in {"save", "reconcile"}, NEW content \in Contents,
         NEW base \in Files, From(content, base), Send(w, content, base)
  PROVE  CallM' /\ call'["resolve"] = call["resolve"]
<1>1. /\ call'[w].content = content /\ call'[w].base = base
      /\ \A v \in Writers \ {w} : call'[v] = call[v]
  BY SendIs DEF Writers
<1> QED
  BY <1>1 DEF CallM, Writers

\* An answer that is taken leaves no request.
LEMMA AnsweredFrom ==
  ASSUME CallT, CacheT, NEW w \in Writers, Answered(w)
  PROVE  /\ CallM => CallM'
         /\ ResM /\ (w # "resolve" => res' = res) => ResM'
<1>1. /\ call'[w] = NoCall /\ \A v \in Writers \ {w} : call'[v] = call[v]
      /\ call[w].st # "sent"
  BY AnsweredIs
<1>2. CallM => CallM'
  BY <1>1 DEF CallM, Writers, NoCall
<1>3. ResM /\ (w # "resolve" => res' = res) => ResM'
  BY <1>1 DEF ResM, Writers, NoCall
<1> QED
  BY <1>2, <1>3

\* A merge has what others wrote in the host's side.
LEMMA MergeFrom ==
  ASSUME NEW base, NEW local, NEW theirs, From(local, base), base # Absent
  PROVE  From(Merge(base, local, theirs), theirs)
BY DEF From, Merge

\* A base never was anything but what is in the text, since misbased only comes to be.
LEMMA UnseenHolds == Spec => []UnseenInv
<1>1. Init => UnseenInv
  <2> SUFFICES ASSUME Init PROVE UnseenInv
    OBVIOUS
  <2>1. \A w \in Writers : call[w].st = "none"
    BY DEF Init, NoCall
  <2>2. CallM /\ ResM
    BY <2>1 DEF CallM, ResM, Writers
  <2>3. BufM /\ RowM
    BY DEF Init, Filled, NoRow, BufM, RowM, From
  <2>4. SaveM /\ LoadM /\ RecM /\ lost = {}
    BY DEF Init, NoSave, NoLoad, NoRec, SaveM, LoadM, RecM
  <2> QED
    BY <2>2, <2>3, <2>4 DEF UnseenInv, Made
<1>2. TypeInv /\ KeepInv /\ UnseenInv /\ [Next]_vars => UnseenInv'
  <2> SUFFICES ASSUME TypeInv, KeepInv, UnseenInv, [Next]_vars PROVE UnseenInv'
    OBVIOUS
  <2>a. /\ CallT /\ RecT /\ HostT /\ CacheT /\ RowT /\ BufT /\ SaveT /\ ResT
        /\ misbased \in BOOLEAN
    BY DEF TypeInv, FlagT
  <2>b. ResM /\ (~misbased => Made)
    BY DEF UnseenInv
  <2>c. rec.pc = "read" => rec.edit.base # Absent
    BY DEF KeepInv, Reconciles
  <2> USE <2>a, <2>b
  \* An action that leaves these alone.
  <2>d. ASSUME UNCHANGED <<call, row, rec, res, lost, misbased>>,
               BufM => BufM', BufM /\ SaveM => SaveM', RowM /\ LoadM => LoadM'
        PROVE  UnseenInv'
    BY <2>d, FromStays DEF UnseenInv, Made
  <2>1. ASSUME NEW m \in Mine, Type(m) PROVE UnseenInv'
    <3>1. UNCHANGED <<call, row, rec, res, lost, misbased, save, load>>
      BY <2>1 DEF Type, store, core
    <3>2. buf'.text = buf.text \cup {m} /\ buf'.base = buf.base
      BY <2>1 DEF Type, Typed, BufT, Buffers
    <3>3. BufM => BufM'
      BY <3>2 DEF BufM, From
    <3> QED
      BY <2>d, <3>1, <3>3, FromStays
  <2>2. ASSUME NEW t \in Theirs, HostEdit(t) PROVE UnseenInv'
    <3>1. UNCHANGED <<call, row, rec, res, lost, misbased, buf, save, load>>
      BY <2>2 DEF HostEdit, store, core, editor
    <3> QED
      BY <2>d, <3>1, FromStays
  <2>3. CASE HostDelete
    <3>1. UNCHANGED <<call, row, rec, res, lost, misbased, buf, save, load>>
      BY <2>3 DEF HostDelete, store, core, editor, history
    <3> QED
      BY <2>d, <3>1, FromStays
  <2>4. ASSUME NEW w \in Writers, WriteFile(w) PROVE UnseenInv'
    <3>1. UNCHANGED <<row, rec, res, misbased, buf, save, load>> /\ call[w].st = "sent"
      BY <2>4 DEF WriteFile, store, editor
    <3>2. /\ call'[w].st # "sent" /\ \A v \in Writers \ {w} : call'[v] = call[v]
      BY <2>4 DEF WriteFile, CallT, Calls
    <3>3. CallM => CallM'
      BY <3>2 DEF CallM, Writers
    <3>4. ResM'
      BY <3>1, <3>2 DEF ResM, Writers
    <3>5. ASSUME CallM, lost = {} PROVE lost' = {}
      <4>1. ASSUME host # Absent, host = call[w].base, w # "resolve"
            PROVE  (host \ call[w].content) \cap Theirs = {}
        <5>1. From(call[w].content, call[w].base)
          BY <3>1, <3>5, <4>1 DEF CallM, Writers
        <5> QED
          BY <4>1, <5>1 DEF From
      <4>2. ASSUME host = call[w].base, w = "resolve" PROVE host = res.seen
        BY <3>1, <4>2 DEF ResM
      <4>3. \/ lost' = lost
            \/ /\ host # Absent /\ host = call[w].base
               /\ lost' = lost \cup (((host \ call[w].content) \cap Theirs)
                                       \ (IF w = "resolve" THEN res.seen ELSE {}))
        BY <2>4 DEF WriteFile
      <4> QED
        BY <3>5, <4>1, <4>2, <4>3
    <3> QED
      BY <3>1, <3>3, <3>4, <3>5, FromStays DEF UnseenInv, Made
  <2>5. CASE Disconnect
    <3>1. UNCHANGED <<row, rec, res, lost, misbased, buf, save, load>>
      BY <2>5 DEF Disconnect, store, editor, history
    <3>2. \A v \in Writers : call'[v].st = "sent" => call'[v] = call[v]
      BY <2>5 DEF Disconnect, CallT, Calls
    <3>3. CallM => CallM'
      BY <3>2 DEF CallM, Writers
    <3>4. ResM'
      BY <3>1, <3>2 DEF ResM, Writers
    <3> QED
      BY <3>1, <3>3, <3>4, FromStays DEF UnseenInv, Made
  <2>6. CASE Reconnect
    <3>1. UNCHANGED <<call, row, rec, res, lost, misbased, buf, save, load>>
      BY <2>6 DEF Reconnect, store, editor, history
    <3> QED
      BY <2>d, <3>1, FromStays
  <2>7. CASE Relaunch
    <3>1. /\ UNCHANGED <<row, lost, misbased>> /\ \A v \in Writers : call'[v] = NoCall
          /\ save' = NoSave /\ load' = NoLoad /\ rec' = NoRec
          /\ buf' = Filled(row.content, row.base) \/ buf' = Filled(cache, cache)
      BY <2>7 DEF Relaunch
    <3>2. CallM' /\ ResM'
      BY <3>1 DEF CallM, ResM, NoCall, Writers
    <3>3. SaveM' /\ LoadM' /\ RecM'
      BY <3>1 DEF SaveM, LoadM, RecM, NoSave, NoLoad, NoRec
    <3>4. RowM => BufM'
      BY <3>1 DEF RowM, BufM, Filled, From
    <3> QED
      BY <3>1, <3>2, <3>3, <3>4, FromStays DEF UnseenInv, Made
  <2>8. CASE Save
    <3>1. /\ UNCHANGED <<call, row, rec, res, lost, misbased, buf, load>>
          /\ save'.text = buf.text /\ save'.base = buf.base
      BY <2>8 DEF Save, store, core, history
    <3>2. BufM => SaveM'
      BY <3>1 DEF BufM, SaveM
    <3> QED
      BY <2>d, <3>1, <3>2, FromStays
  <2>9. CASE Route
    <3>1. /\ UNCHANGED <<row, rec, res, lost, misbased, buf, load>> /\ save.pc = "asked"
          /\ save'.text = save.text /\ save'.base = save.base
          /\ call' = call \/ Send("save", save.text, save.base)
          /\ save.text \in Contents /\ save.base \in Files
      BY <2>9 DEF Route, store, history, SaveT, SaveS
    <3>2. SaveM => SaveM' /\ From(save.text, save.base)
      BY <3>1 DEF SaveM
    <3>3. SaveM /\ CallM => CallM'
      BY <3>1, <3>2, SentFrom, FromStays
    <3>4. call'["resolve"] = call["resolve"]
      BY <3>1, SendIs DEF Writers
    <3>5. ResM'
      BY <3>1, <3>4 DEF ResM
    <3> QED
      BY <3>1, <3>2, <3>3, <3>5, FromStays DEF UnseenInv, Made
  <2>10. CASE Retain
    <3>1. /\ UNCHANGED <<call, rec, res, lost, buf, load>>
          /\ save.pc = "retain" /\ save'.text = save.text /\ save'.base = save.base
      BY <2>10 DEF Retain, core, SaveT, SaveS
    <3>2. SaveM => SaveM'
      BY <3>1 DEF SaveM
    <3>3. misbased' = (misbased \/ ~MadeFrom(save.text, IF row = NoRow THEN cache ELSE row.base))
      BY <2>10 DEF Retain
    <3>4. row'.content = save.text /\ row'.base = IF row = NoRow THEN cache ELSE row.base
      BY <2>10 DEF Retain, Upserted, RowT, Rows
    <3>5. ~misbased' => ~misbased /\ RowM'
      BY <3>3, <3>4, FromIs DEF RowM
    <3>6. ResM'
      BY <3>1, FromStays
    <3> QED
      BY <3>1, <3>2, <3>5, <3>6, FromStays DEF UnseenInv, Made
  <2>11. CASE SaveAnswer
    <3>1. /\ UNCHANGED <<row, rec, res, lost, misbased, buf, load>> /\ Answered("save")
          /\ save.pc = "sent" /\ save'.text = save.text /\ save'.base = save.base
      BY <2>11 DEF SaveAnswer, history, SaveT, SaveS
    <3>2. SaveM => SaveM'
      BY <3>1 DEF SaveM
    <3>3. (CallM => CallM') /\ ResM'
      BY <3>1, AnsweredFrom DEF Writers
    <3> QED
      BY <3>1, <3>2, <3>3, FromStays DEF UnseenInv, Made
  <2>12. CASE SaveEnd
    <3>1. UNCHANGED <<call, row, rec, res, lost, load>> /\ save'.pc = "idle"
      BY <2>12 DEF SaveEnd, NoSave, store, core
    <3>2. misbased' = (misbased \/ (save.outcome = "written" /\ ~MadeFrom(buf.text, save.text)))
      BY <2>12 DEF SaveEnd
    <3>3. /\ buf'.text = buf.text
          /\ buf'.base = IF save.outcome = "written" THEN save.text ELSE buf.base
      BY <2>12 DEF SaveEnd, SaveEnded, Adopted, Held, Failed, BufT, Buffers
    <3>4. ~misbased' => ~misbased /\ (BufM => BufM')
      BY <3>2, <3>3, FromIs DEF BufM
    <3>5. ResM'
      BY <3>1, FromStays
    <3> QED
      BY <3>1, <3>4, <3>5, FromStays DEF UnseenInv, Made
  <2>13. CASE FileEvent
    <3>1. UNCHANGED <<call, row, rec, res, lost, misbased, buf, save>>
          /\ (load' = load \/ load'.pc = "decide")
      BY <2>13 DEF FileEvent, store, core, history, NoLoad
    <3> QED
      BY <2>d, <3>1, FromStays
  <2>14. CASE FileChanged
    <3>1. UNCHANGED <<call, row, rec, res, lost, misbased, buf, save>> /\ load'.pc # "fill"
      BY <2>14 DEF FileChanged, store, core, history, NoLoad
    <3> QED
      BY <2>d, <3>1, FromStays
  <2>15. CASE Discard
    <3>1. UNCHANGED <<call, row, rec, res, lost, misbased, save>>
          /\ (load' = load \/ load'.pc = "read")
          /\ buf'.text = buf.text /\ buf'.base = buf.base
      BY <2>15 DEF Discard, store, core, NoLoad, BufT, Buffers
    <3>2. BufM => BufM'
      BY <3>1 DEF BufM
    <3> QED
      BY <2>d, <3>1, <3>2, FromStays
  <2>16. CASE LoadRead
    <3>1. /\ UNCHANGED <<call, row, rec, res, lost, misbased, buf, save>>
          /\ \/ load'.pc # "fill"
             \/ load'.text = row.content /\ load'.base = row.base
             \/ load'.text = load'.base
      BY <2>16 DEF LoadRead, core, history, NoLoad
    <3>2. RowM => LoadM'
      BY <3>1 DEF RowM, LoadM, From
    <3> QED
      BY <2>d, <3>1, <3>2, FromStays
  <2>17. CASE LoadFill
    <3>1. /\ UNCHANGED <<call, row, rec, res, lost, misbased, save>>
          /\ load.pc = "fill" /\ load'.pc = "idle"
          /\ buf'.text = load.text /\ buf'.base = load.base
      BY <2>17 DEF LoadFill, store, core, history, NoLoad, Filled
    <3>2. LoadM => BufM'
      BY <3>1 DEF LoadM, BufM
    <3> QED
      BY <3>1, <3>2, FromStays DEF UnseenInv, Made
  <2>18. CASE Begin
    <3>1. UNCHANGED <<row, res, lost, misbased, buf, save, load>>
      BY <2>18 DEF Begin, store, editor
    <3>2. \/ UNCHANGED <<rec, call>>
          \/ row # NoRow /\ rec'.edit = row /\ (call' = call \/ Send("reconcile", row.content, Absent))
      BY <2>18 DEF Begin
    <3>3. row # NoRow => row.content \in Contents
      BY RowIs
    <3>4. From(row.content, Absent)
      BY DEF From
    <3>5. CallM => CallM'
      BY <3>2, <3>3, <3>4, SentFrom, FromStays, ContentsAre
    <3>6. call'["resolve"] = call["resolve"]
      BY <3>2, <3>3, SendIs, ContentsAre DEF Writers
    <3>7. ResM'
      BY <3>1, <3>6 DEF ResM
    <3>8. RowM /\ RecM => RecM'
      BY <3>2 DEF RowM, RecM
    <3> QED
      BY <3>1, <3>5, <3>7, <3>8, FromStays DEF UnseenInv, Made
  <2>19. CASE NotBegun
    <3>1. UNCHANGED <<call, row, rec, res, lost, misbased, buf, save, load>>
      BY <2>19 DEF NotBegun, store, editor, history
    <3> QED
      BY <2>d, <3>1, FromStays
  <2>20. CASE Attempt
    <3>1. UNCHANGED <<row, res, lost, misbased, buf, save, load>> /\ rec.pc = "read"
      BY <2>20 DEF Attempt, editor, history
    <3>2. PICK theirs \in Readable : /\ cache' = CacheAfter(theirs)
            /\ \/ Idle /\ UNCHANGED call
               \/ /\ rec' = [rec EXCEPT !.pc = "sent"]
                  /\ \/ Send("reconcile", rec.edit.content, rec.edit.base)
                     \/ /\ theirs \notin {Offline, Absent}
                        /\ Send("reconcile", Merge(rec.edit.base, rec.edit.content, theirs), theirs)
      BY <2>20 DEF Attempt
    <3>3. /\ rec.edit.content \in Contents /\ rec.edit.base \in Files
          /\ (theirs \in Files \/ theirs = Offline)
      BY <3>1, <3>2, ReadIs, ContentsAre DEF RecT, Recs, Rows
    <3>4. RecM => From(rec.edit.content, rec.edit.base)
      BY <3>1 DEF RecM
    <3>5. ASSUME theirs \notin {Offline, Absent}
          PROVE  /\ theirs \in Files
                 /\ Merge(rec.edit.base, rec.edit.content, theirs) \in Contents
      <4>1. theirs \in Contents
        BY <3>3, <3>5, ContentsAre
      <4> QED
        BY <3>3, <4>1 DEF Merge, Contents, Files
    <3>6. RecM => From(Merge(rec.edit.base, rec.edit.content, theirs), theirs)
      BY <3>1, <3>4, <2>c, MergeFrom
    <3>7. RecM /\ CallM => CallM'
      BY <3>2, <3>3, <3>4, <3>5, <3>6, SentFrom, FromStays
    <3>8. call'["resolve"] = call["resolve"]
      BY <3>2, <3>3, <3>5, SendIs DEF Writers
    <3>9. ResM'
      BY <3>1, <3>8 DEF ResM
    <3>10. rec'.pc = "idle" \/ rec'.edit = rec.edit
      BY <3>2 DEF Idle, NoRec, RecT, Recs
    <3>11. RecM => RecM'
      BY <3>1, <3>10 DEF RecM
    <3> QED
      BY <3>1, <3>7, <3>9, <3>11, FromStays DEF UnseenInv, Made
  <2>21. CASE Attempted
    <3>1. /\ UNCHANGED <<row, res, lost, misbased, buf, save, load>> /\ Answered("reconcile")
          /\ rec.pc = "sent" /\ (rec'.pc = "idle" \/ rec'.edit = rec.edit)
      BY <2>21 DEF Attempted, Idle, NoRec, editor, history, RecT, Recs
    <3>2. RecM => RecM'
      BY <3>1 DEF RecM
    <3>3. (CallM => CallM') /\ ResM'
      BY <3>1, AnsweredFrom DEF Writers
    <3> QED
      BY <3>1, <3>2, <3>3, FromStays DEF UnseenInv, Made
  <2>22. CASE Forget
    <3>1. /\ UNCHANGED <<call, res, lost, misbased, buf, save, load>>
          /\ row' = NoRow /\ rec'.pc = "idle"
      BY <2>22 DEF Forget, Idle, NoRec, editor
    <3> QED
      BY <3>1, FromStays DEF UnseenInv, Made
  <2>23. CASE List
    <3>1. /\ UNCHANGED <<call, row, rec, lost, misbased, buf, save, load>>
          /\ res.pc # "sent"
      BY <2>23 DEF List, editor, history
    <3>2. ResM'
      BY <3>1 DEF ResM
    <3> QED
      BY <3>1, <3>2, FromStays DEF UnseenInv, Made
  <2>24. CASE TakeRemote
    <3>1. /\ UNCHANGED <<call, rec, lost, misbased, buf, save, load>>
          /\ res.pc # "sent" /\ row' = NoRow
      BY <2>24 DEF TakeRemote, editor
    <3>2. ResM'
      BY <3>1 DEF ResM
    <3> QED
      BY <3>1, <3>2, FromStays DEF UnseenInv, Made
  <2>25. ASSUME NEW c \in Contents, Send("resolve", c, res.seen),
                UNCHANGED <<store, rec, editor, history>>, res' = [res EXCEPT !.pc = "sent"]
         PROVE  UnseenInv'
    <3>1. /\ UNCHANGED <<row, rec, lost, misbased, buf, save, load>>
          /\ res'.pc = "sent" /\ res'.seen = res.seen /\ res.seen \in Files
      BY <2>25 DEF store, editor, history, ResT, Ress
    <3>2. /\ call'["resolve"].base = res.seen
          /\ \A v \in Writers \ {"resolve"} : call'[v] = call[v]
      BY <2>25, <3>1, SendIs DEF Writers
    <3>3. (CallM => CallM') /\ ResM'
      BY <3>1, <3>2 DEF CallM, ResM, Writers
    <3> QED
      BY <3>1, <3>3, FromStays DEF UnseenInv, Made
  <2>26. CASE KeepLocal
    <3>1. row.content \in Contents
      BY <2>26, RowIs DEF KeepLocal
    <3> QED
      BY <2>25, <2>26, <3>1 DEF KeepLocal
  <2>27. CASE KeepText
    <3>1. res.local \cup res.seen \in Contents
      BY <2>27, ContentsAre DEF KeepText, ResT, Ress
    <3> QED
      BY <2>25, <2>27, <3>1 DEF KeepText
  <2>28. CASE Resolved
    <3>1. UNCHANGED <<row, rec, lost, misbased, buf, save, load>> /\ Answered("resolve")
      BY <2>28 DEF Resolved, editor, history
    <3>2. (CallM => CallM') /\ ResM'
      BY <3>1, AnsweredFrom DEF Writers
    <3> QED
      BY <3>1, <3>2, FromStays DEF UnseenInv, Made
  <2>29. CASE ForgetResolved
    <3>1. /\ UNCHANGED <<call, rec, lost, misbased, buf, save, load>>
          /\ res.pc # "sent" /\ row' = NoRow
      BY <2>29 DEF ForgetResolved, editor
    <3>2. ResM'
      BY <3>1 DEF ResM
    <3> QED
      BY <3>1, <3>2, FromStays DEF UnseenInv, Made
  <2>30. CASE UNCHANGED vars
    <3>1. UNCHANGED <<call, row, rec, res, lost, misbased, buf, save, load>>
      BY <2>30 DEF vars, store, core, editor, history
    <3> QED
      BY <2>d, <3>1, FromStays
  <2> QED
    BY <2>1, <2>2, <2>3, <2>4, <2>5, <2>6, <2>7, <2>8, <2>9, <2>10, <2>11, <2>12, <2>13, <2>14,
      <2>15, <2>16, <2>17, <2>18, <2>19, <2>20, <2>21, <2>22, <2>23, <2>24, <2>26, <2>27, <2>28,
      <2>29, <2>30
       DEF Next, Editor, Reconciliation, Resolution
<1> QED
  BY <1>1, <1>2, TypesHold, KeepHolds, PTL DEF Spec
-----------------------------------------------------------------------------
\* What the user was told is held on this machine is held until it has reached the
\* host or the user has let it go, through merges, refused and unanswered writes,
\* conflicts and restarts (HeldUntilSettled).
THEOREM RetainedIsHeld == Spec => []HeldUntilSettled
<1>1. TypeInv /\ KeepInv => HeldUntilSettled
  <2> SUFFICES ASSUME TypeInv, KeepInv PROVE HeldUntilSettled
    OBVIOUS
  <2>1. told \subseteq Mine /\ Lies(told, Retained)
    BY DEF TypeInv, PastT, KeepInv, Keeps
  <2> QED
    BY <2>1, TypesAreOK DEF HeldUntilSettled, Lies
<1> QED
  BY <1>1, TypesHold, KeepHolds, PTL

\* What was typed is in the buffer and known to be unsaved, or held, or has been on the
\* host, or was let go: no event, save, load or reconciliation replaces it (TypedIsKept).
THEOREM TypedStays == Spec => []TypedIsKept
<1>1. TypeInv /\ KeepInv => TypedIsKept
  <2> SUFFICES ASSUME TypeInv, KeepInv PROVE TypedIsKept
    OBVIOUS
  <2>1. typed \subseteq Mine /\ Lies(typed, Unsaved \cup Retained)
    BY DEF TypeInv, PastT, KeepInv, Keeps
  <2> QED
    BY <2>1 DEF TypedIsKept, Lies, Unsaved
<1> QED
  BY <1>1, TypesHold, KeepHolds, PTL

\* No save, reconciliation or resolution removes from the host what somebody else wrote
\* and the user has not seen, unless a row or the buffer was given a base its text was
\* not made from (NothingOverwritten).
THEOREM NothingIsOverwritten == Spec => []NothingOverwritten
<1>1. UnseenInv => NothingOverwritten
  BY DEF UnseenInv, Made, NothingOverwritten
<1> QED
  BY <1>1, UnseenHolds, PTL

\* The row that has not been looked at is there; and with the connection back a
\* reconciliation is due for it, or the one that was has passed it by.
IsDue ==
  /\ untried => row # NoRow
  /\ untried /\ connected => due > 0 \/ overlooked

\* No retained edit is passed over: whatever goes, comes back and is answered in between, a
\* reconciliation that will look at it is due while there is a connection, outside the two
\* circumstances (what RetainedIsTried rests on; that what is due begins is left to TLC).
THEOREM RetainedIsDue == Spec => []IsDue
<1>1. Init => IsDue
  BY DEF Init, IsDue
<1>2. TypeInv /\ IsDue /\ [Next]_vars => IsDue'
  <2> SUFFICES ASSUME TypeInv, IsDue, [Next]_vars PROVE IsDue'
    OBVIOUS
  <2>a. due \in Nat
    BY DEF TypeInv, RestT
  <2>1. ASSUME Disconnect \/ Relaunch PROVE IsDue'
    BY <2>1 DEF Disconnect, Relaunch, store, history, IsDue
  <2>2. ASSUME Reconnect PROVE IsDue'
    BY <2>a, <2>2 DEF Reconnect, store, history, IsDue
  <2>3. ASSUME Retain PROVE IsDue'
    <3>1. save.text \in Contents
      BY DEF TypeInv, SaveT, SaveS
    <3>2. row'.content = save.text
      BY <2>3 DEF Retain, Upserted, TypeInv, RowT, Rows
    <3>3. row' # NoRow
      BY <3>1, <3>2, ContentsAre DEF NoRow
    <3> QED
      BY <2>3, <3>3 DEF Retain, remote, core, IsDue
  <2>4. ASSUME Begin PROVE IsDue'
    BY <2>a, <2>4 DEF Begin, remote, store, IsDue
  <2>5. ASSUME NotBegun PROVE IsDue'
    BY <2>5 DEF NotBegun, remote, store, history, IsDue
  <2>6. ASSUME Forget \/ TakeRemote \/ ForgetResolved PROVE IsDue'
    BY <2>6 DEF Forget, TakeRemote, ForgetResolved, IsDue
  <2>7. ASSUME UNCHANGED <<connected, row, due, untried, overlooked>> PROVE IsDue'
    BY <2>7 DEF IsDue
  <2>8. \/ Disconnect \/ Reconnect \/ Relaunch \/ Retain \/ Begin \/ NotBegun
        \/ Forget \/ TakeRemote \/ ForgetResolved
        \/ UNCHANGED <<connected, row, due, untried, overlooked>>
    BY DEF Next, Editor, Reconciliation, Resolution, Type, HostEdit, HostDelete, WriteFile, Save,
      Route, SaveAnswer, SaveEnd, FileEvent, FileChanged, Discard, LoadRead, LoadFill, Attempt,
      Attempted, List, KeepLocal, KeepText, Resolved, remote, store, core, editor, history, vars
  <2> QED
    BY <2>1, <2>2, <2>3, <2>4, <2>5, <2>6, <2>7, <2>8
<1> QED
  BY <1>1, <1>2, TypesHold, PTL DEF Spec
=============================================================================
