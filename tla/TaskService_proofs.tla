------------------------- MODULE TaskService_proofs -------------------------
(***************************************************************************)
(* The engine's tasks for any number of runs, identities and workspaces:   *)
(* types, who is killed, how often an exit is told, what of the output     *)
(* reaches the wire, what an identity reaches, what is retained, and that  *)
(* no exit is forgotten.                                                   *)
(***************************************************************************)
EXTENDS TaskService, TLAPS

\* What a reader knows of a process it has reaped.
StatusKnown ==
  \A r \in Runs :
    /\ proc[r] = "dead" => how[r] \in Statuses
    /\ reader[r] \in {"mark", "deliver", "stash", "exit"} => status[r] \in Statuses

\* What the dispatch thread works on while it works on something.
MainBusy ==
  main \in {"adopt", "register", "replayEmit", "replayExit", "replayEntry", "replaySet"}
    => mid \in TaskIds /\ mrun \in Runs

TypeInv == TypeOK /\ StatusKnown /\ MainBusy

\* Types hold, with what they rest on: a reaped process has a status, and the
\* dispatch thread knows what it is working on.
LEMMA TypeInvHolds == Spec => []TypeInv
<1>1. Init => TypeInv
  BY BoundsAssumption DEF Init, TypeInv, TypeOK, StatusKnown, MainBusy, MainStates,
       ReaderStates, Statuses, Running, None
<1>2. TypeInv /\ [Next]_vars => TypeInv'
  <2> SUFFICES ASSUME TypeInv, [Next]_vars PROVE TypeInv'
    OBVIOUS
  <2>1. ASSUME NEW w \in Workspaces, Register(w) PROVE TypeInv'
    BY <2>1, NilAssumption DEF Register, stream, readers, host, mains, names, history,
      TypeInv, TypeOK, StatusKnown, MainBusy, MainStates, ReaderStates, Statuses, Running, None
  <2>2. ASSUME NEW w \in Workspaces, CloseWorkspace(w) PROVE TypeInv'
    BY <2>2, NilAssumption DEF CloseWorkspace, Ids, stream, readers, host, names,
      TypeInv, TypeOK, StatusKnown, MainBusy, MainStates, ReaderStates, Statuses, Running, None
  <2>3. ASSUME NEW i \in TaskIds, NEW w \in Workspaces, NEW r \in Runs, RunTask(i, w, r) PROVE
      TypeInv'
    BY <2>3, NilAssumption DEF RunTask, stream, readers, history,
      TypeInv, TypeOK, StatusKnown, MainBusy, MainStates, ReaderStates, Statuses, Running, None
  <2>4. ASSUME NEW i \in TaskIds, NEW s \in {"Int", "Term", "Kill"}, Terminate(i, s) PROVE
      TypeInv'
    <3>1. doomed' \in [Runs -> BOOLEAN] /\ asked' \in [Runs -> BOOLEAN]
      BY <2>4 DEF Terminate, Killed, TypeInv, TypeOK
    <3>2. CASE s = "Term"
      BY SMTT(30), <2>4, <3>1, <3>2 DEF Terminate, shared, stream, readers, names,
        TypeInv, TypeOK, StatusKnown, MainBusy, MainStates, ReaderStates, Statuses, Running,
            None
    <3>3. CASE s # "Term"
      BY <2>4, <3>1, <3>3 DEF Terminate, shared, stream, readers, names,
        TypeInv, TypeOK, StatusKnown, MainBusy, MainStates, ReaderStates, Statuses, Running,
            None
    <3> QED
      BY <3>2, <3>3
  <2>5. ASSUME Restart PROVE TypeInv'
    BY <2>5, NilAssumption DEF Restart, Killed, stream, readers, names,
      TypeInv, TypeOK, StatusKnown, MainBusy, MainStates, ReaderStates, Statuses, Running, None
  <2>6. ASSUME Adopt PROVE TypeInv'
    BY <2>6, NilAssumption DEF Adopt, stream, host, names, history,
      TypeInv, TypeOK, StatusKnown, MainBusy, MainStates, ReaderStates, Statuses, Running, None
  <2>7. ASSUME RegisterDeadline PROVE TypeInv'
    BY <2>7, NilAssumption DEF RegisterDeadline, stream, readers, host, names, history,
      TypeInv, TypeOK, StatusKnown, MainBusy, MainStates, ReaderStates, Statuses, Running, None
  <2>8. ASSUME ReplayEmit PROVE TypeInv'
    <3>1. CASE mlo < mhi
      <4>1. mrun \in Runs
        BY <2>8 DEF ReplayEmit, TypeInv, MainBusy
      <4>2. Append(sent[mrun], mlo + 1) \in Seq(Nat)
        BY <4>1 DEF TypeInv, TypeOK
      <4>3. mlo' \in Nat
        BY <2>8, <3>1 DEF ReplayEmit, TypeInv, TypeOK
      <4>4. sent' = [sent EXCEPT ![mrun] = Append(sent[mrun], mlo + 1)]
        BY <2>8, <3>1, <4>1 DEF ReplayEmit, Emit, TypeInv, TypeOK
      <4>5. sent' \in [Runs -> Seq(Nat)]
        BY <4>1, <4>2, <4>4 DEF TypeInv, TypeOK
      <4> QED
        BY <2>8, <3>1, <4>3, <4>5 DEF ReplayEmit, shared, stream, readers, host, names,
          TypeInv, TypeOK, StatusKnown, MainBusy, MainStates, ReaderStates, Statuses, Running,
              None
    <3>2. CASE ~(mlo < mhi)
      BY <2>8, <3>2 DEF ReplayEmit, shared, stream, readers, host, names,
        TypeInv, TypeOK, StatusKnown, MainBusy, MainStates, ReaderStates, Statuses, Running,
            None
    <3> QED
      BY <3>1, <3>2
  <2>9. ASSUME ReplayExit PROVE TypeInv'
    <3>1. ending' \in [Runs -> Statuses \union {None}] /\ mrun \in Runs /\ mid \in TaskIds
      BY <2>9 DEF ReplayExit, TypeInv, TypeOK, MainBusy
    <3>2. CASE ending[mrun] = None
      BY <2>9, <3>1, <3>2 DEF ReplayExit, shared, stream, host, names,
        TypeInv, TypeOK, StatusKnown, MainBusy, MainStates, ReaderStates, Statuses, Running,
            None
    <3>3. CASE ending[mrun] # None
      <4>1. exits[mrun] + 1 \in Nat
        BY <3>1 DEF TypeInv, TypeOK
      <4>2. exits' = [exits EXCEPT ![mrun] = exits[mrun] + 1]
        BY <2>9, <3>3 DEF ReplayExit, Exit
      <4>3. exits' \in [Runs -> Nat]
        BY <4>1, <4>2 DEF TypeInv, TypeOK
      <4> QED
        BY <2>9, <3>1, <3>3, <4>3 DEF ReplayExit, shared, stream, host, names,
          TypeInv, TypeOK, StatusKnown, MainBusy, MainStates, ReaderStates, Statuses, Running,
              None
    <3> QED
      BY <3>2, <3>3
  <2>10. ASSUME ReplayEntry PROVE TypeInv'
    BY <2>10, NilAssumption DEF ReplayEntry, stream, readers, host, names, history,
      TypeInv, TypeOK, StatusKnown, MainBusy, MainStates, ReaderStates, Statuses, Running, None
  <2>11. ASSUME ReplaySet PROVE TypeInv'
    BY <2>11, NilAssumption DEF ReplaySet, stream, readers, host, names, history,
      TypeInv, TypeOK, StatusKnown, MainBusy, MainStates, ReaderStates, Statuses, Running, None
  <2>12. ASSUME ReplayDone PROVE TypeInv'
    BY <2>12, NilAssumption DEF ReplayDone, shared, stream, readers, host, names, history,
      TypeInv, TypeOK, StatusKnown, MainBusy, MainStates, ReaderStates, Statuses, Running, None
  <2>13. ASSUME Joined PROVE TypeInv'
    BY <2>13, NilAssumption DEF Joined, shared, stream, readers, host, names, history,
      TypeInv, TypeOK, StatusKnown, MainBusy, MainStates, ReaderStates, Statuses, Running, None
  <2>14. ASSUME NEW i \in TaskIds, SignalPlan(i) PROVE TypeInv'
    BY SMTT(30), <2>14, NilAssumption DEF SignalPlan, shared, stream, readers, host, names, history,
      TypeInv, TypeOK, StatusKnown, MainBusy, MainStates, ReaderStates, Statuses, Running, None
  <2>15. ASSUME NEW i \in TaskIds, ReplayTake(i) PROVE TypeInv'
    <3>1. CASE entries[i] = Nil
      BY <2>15, <3>1 DEF ReplayTake, shared, readers, host, names, history,
        TypeInv, TypeOK, StatusKnown, MainBusy, MainStates, ReaderStates, Statuses, Running,
            None
    <3>2. CASE entries[i] # Nil
      <4>0. /\ entries[i] \in Runs
            /\ kept[entries[i]] \in Nat /\ freed[entries[i]] \in Nat
        BY <3>2 DEF TypeInv, TypeOK
      <4>1. freed' \in [Runs -> Nat] /\ mlo' \in Nat /\ mhi' \in Nat
        BY <2>15, <3>2, <4>0 DEF ReplayTake, TypeInv, TypeOK
      <4> QED
        BY SMTT(30), <2>15, <3>2, <4>1 DEF ReplayTake, shared, readers, host, names, history,
          TypeInv, TypeOK, StatusKnown, MainBusy, MainStates, ReaderStates, Statuses, Running,
              None
    <3> QED
      BY <3>1, <3>2
  <2>16. ASSUME Detach PROVE TypeInv'
    <3>1. drops' \in 0 .. MaxDrops
      BY <2>16, BoundsAssumption DEF Detach, stream, readers, host, names, history, TypeInv,
           TypeOK, MainBusy
    <3> QED
      BY <2>16, <3>1, NilAssumption DEF Detach, stream, readers, host, names, history,
        TypeInv, TypeOK, StatusKnown, MainBusy, MainStates, ReaderStates, Statuses, Running,
            None
  <2>17. ASSUME Reattach PROVE TypeInv'
    BY <2>17, NilAssumption DEF Reattach, Ids, stream, readers, host, names,
      TypeInv, TypeOK, StatusKnown, MainBusy, MainStates, ReaderStates, Statuses, Running, None
  <2>18. ASSUME Leave PROVE TypeInv'
    BY <2>18, NilAssumption DEF Leave, stream, readers, host, names, history,
      TypeInv, TypeOK, StatusKnown, MainBusy, MainStates, ReaderStates, Statuses, Running, None
  <2>19. ASSUME NEW i \in TaskIds, Fire(i) PROVE TypeInv'
    BY <2>19, NilAssumption DEF Fire, Killed, stream, readers, mains, names, history,
      TypeInv, TypeOK, StatusKnown, MainBusy, MainStates, ReaderStates, Statuses, Running, None
  <2>20. ASSUME NEW r \in Runs, Closes(r) PROVE TypeInv'
    <3>1. TypeOK'
      BY SMTT(30), <2>20, NilAssumption DEF Closes, shared, stream, readers, mains, names,
        history, TypeInv, TypeOK, MainStates, ReaderStates, Statuses, Running, None
    <3>2. StatusKnown'
      BY SMTT(30), <2>20 DEF Closes, shared, stream, readers, mains, names, history, TypeInv,
        TypeOK, StatusKnown, Statuses
    <3>3. MainBusy'
      BY <2>20 DEF Closes, shared, stream, readers, mains, names, history, TypeInv, MainBusy
    <3> QED
      BY <3>1, <3>2, <3>3 DEF TypeInv
  <2>21. ASSUME NEW r \in Runs, NEW s \in Statuses, Dies(r, s) PROVE TypeInv'
    <3>1. TypeOK'
      BY SMTT(30), <2>21, NilAssumption DEF Dies, shared, stream, readers, mains, names,
        history, TypeInv, TypeOK, MainStates, ReaderStates, Statuses, Running, None
    <3>2. StatusKnown'
      BY SMTT(30), <2>21 DEF Dies, shared, stream, readers, mains, names, history, TypeInv,
        TypeOK, StatusKnown, Statuses
    <3>3. MainBusy'
      BY <2>21 DEF Dies, shared, stream, readers, mains, names, history, TypeInv, MainBusy
    <3> QED
      BY <3>1, <3>2, <3>3 DEF TypeInv
  <2>22. ASSUME NEW r \in Runs, ReadBytes(r) PROVE TypeInv'
    <3>1. PICK to \in 0 .. MaxOutput : DrainDue(r, to)
      BY <2>22 DEF ReadBytes
    <3>2. got' \in [Runs -> Nat]
      BY SMTT(30), <2>22 DEF ReadBytes, TypeInv, TypeOK
    <3>3. cut' \in [Runs -> Nat]
      BY <3>1, BoundsAssumption DEF DrainDue, TypeInv, TypeOK
    <3>4. reader' \in [Runs -> ReaderStates]
          /\ \A q \in Runs : reader'[q] = reader[q] \/ reader'[q] \in {"load", "read"}
      BY <3>1 DEF DrainDue, At, ReaderStates, TypeInv, TypeOK
    <3> QED
      BY <2>22, <3>2, <3>3, <3>4 DEF ReadBytes, shared, host, mains, names, history,
        TypeInv, TypeOK, StatusKnown, MainBusy
  <2>23. ASSUME NEW r \in Runs, ReadIdle(r) PROVE TypeInv'
    <3>1. TypeOK'
      <4>1. cut' \in [Runs -> Nat]
        BY <2>23 DEF ReadIdle, TypeInv, TypeOK
      <4>2. reader' \in [Runs -> ReaderStates]
        BY <2>23 DEF ReadIdle, At, ReaderStates, TypeInv, TypeOK
      <4> QED
        BY SMTT(30), <2>23, <4>1, <4>2 DEF ReadIdle, shared, host, mains, names, history,
          TypeInv, TypeOK, MainStates
    <3>2. StatusKnown'
      BY SMTT(30), <2>23 DEF ReadIdle, At, shared, host, mains, names, history, TypeInv,
        TypeOK, StatusKnown, Statuses
    <3>3. MainBusy'
      BY <2>23 DEF ReadIdle, At, shared, host, mains, names, history, TypeInv, MainBusy
    <3> QED
      BY <3>1, <3>2, <3>3 DEF TypeInv
  <2>24. ASSUME NEW r \in Runs, ReadEnded(r) PROVE TypeInv'
    <3>1. TypeOK'
      BY SMTT(30), <2>24, NilAssumption DEF ReadEnded, At, shared, host, mains, names,
        history, TypeInv, TypeOK, MainStates, ReaderStates, Statuses, Running, None
    <3>2. StatusKnown'
      BY SMTT(30), <2>24 DEF ReadEnded, At, shared, host, mains, names, history, TypeInv,
        TypeOK, StatusKnown, Statuses
    <3>3. MainBusy'
      BY <2>24 DEF ReadEnded, At, shared, host, mains, names, history, TypeInv, MainBusy
    <3> QED
      BY <3>1, <3>2, <3>3 DEF TypeInv
  <2>25. ASSUME NEW r \in Runs, FlushLoad(r) PROVE TypeInv'
    BY <2>25, NilAssumption DEF FlushLoad, At, AfterChunk, shared, stream, host, mains, names,
         history,
      TypeInv, TypeOK, StatusKnown, MainBusy, MainStates, ReaderStates, Statuses, Running, None
  <2>26. ASSUME NEW r \in Runs, FlushPush(r) PROVE TypeInv'
    <3>1. kept' \in [Runs -> Nat]
      BY <2>26, BoundsAssumption DEF FlushPush, At, AfterChunk, shared, host, mains, names,
           history, TypeInv, TypeOK, MainBusy
    <3>2. TypeOK'
      BY SMTT(30), <2>26, <3>1, NilAssumption DEF FlushPush, At, AfterChunk, shared, host,
        mains, names, history, TypeInv, TypeOK, MainStates, ReaderStates, Statuses, Running,
        None
    <3>3. StatusKnown'
      BY SMTT(30), <2>26, <3>1 DEF FlushPush, At, AfterChunk, shared, host, mains, names,
        history, TypeInv, TypeOK, StatusKnown, Statuses
    <3>4. MainBusy'
      BY <2>26 DEF FlushPush, At, AfterChunk, shared, host, mains, names, history, TypeInv,
        MainBusy
    <3> QED
      BY <3>2, <3>3, <3>4 DEF TypeInv
  <2>27. ASSUME NEW r \in Runs, FlushEmit(r) PROVE TypeInv'
    BY <2>27, NilAssumption DEF FlushEmit, At, Emit, shared, stream, host, mains, names,
      TypeInv, TypeOK, StatusKnown, MainBusy, MainStates, ReaderStates, Statuses, Running, None
  <2>28. ASSUME NEW r \in Runs, FlushDrain(r) PROVE TypeInv'
    <3>1. TypeOK'
      BY SMTT(30), <2>28, NilAssumption DEF FlushDrain, At, AfterChunk, shared, host, mains,
        names, history, TypeInv, TypeOK, MainStates, ReaderStates, Statuses, Running, None
    <3>2. StatusKnown'
      BY SMTT(30), <2>28 DEF FlushDrain, At, AfterChunk, shared, host, mains, names, history,
        TypeInv, TypeOK, StatusKnown, Statuses
    <3>3. MainBusy'
      BY <2>28 DEF FlushDrain, At, AfterChunk, shared, host, mains, names, history, TypeInv,
        MainBusy
    <3> QED
      BY <3>1, <3>2, <3>3 DEF TypeInv
  <2>29. ASSUME NEW r \in Runs, Reap(r) PROVE TypeInv'
    <3>1. TypeOK'
      <4>1. status' \in [Runs -> Statuses \union {None}]
        BY <2>29 DEF Reap, Statuses, StatusKnown, TypeInv, TypeOK
      <4>2. reaped' \in [Runs -> BOOLEAN]
        BY <2>29 DEF Reap, TypeInv, TypeOK
      <4>3. pending' \in [TaskIds -> Runs \union {Nil}]
        BY <2>29, NilAssumption DEF Reap, TypeInv, TypeOK
      <4>4. reader' \in [Runs -> ReaderStates]
        BY <2>29 DEF Reap, At, ReaderStates, TypeInv, TypeOK
      <4> QED
        BY SMTT(30), <2>29, <4>1, <4>2, <4>3, <4>4 DEF Reap, stream, host, mains, names,
          history, TypeInv, TypeOK, MainStates
    <3>2. StatusKnown'
      BY SMTT(30), <2>29 DEF Reap, At, stream, host, mains, names, history, TypeInv, TypeOK,
        StatusKnown, Statuses
    <3>3. MainBusy'
      BY <2>29 DEF Reap, At, stream, host, mains, names, history, TypeInv, MainBusy
    <3> QED
      BY <3>1, <3>2, <3>3 DEF TypeInv
  <2>30. ASSUME NEW r \in Runs, MarkEnded(r) PROVE TypeInv'
    <3>1. TypeOK'
      <4>1. record' \in [Runs -> Statuses \union {Running}]
        BY <2>30 DEF MarkEnded, Statuses, StatusKnown, At, TypeInv, TypeOK
      <4>2. reader' \in [Runs -> ReaderStates]
        BY <2>30 DEF MarkEnded, At, ReaderStates, TypeInv, TypeOK
      <4> QED
        BY SMTT(30), <2>30, <4>1, <4>2 DEF MarkEnded, stream, host, mains, names, history,
          TypeInv, TypeOK, MainStates
    <3>2. StatusKnown'
      BY SMTT(30), <2>30 DEF MarkEnded, At, stream, host, mains, names, history, TypeInv,
        TypeOK, StatusKnown, Statuses
    <3>3. MainBusy'
      BY <2>30 DEF MarkEnded, At, stream, host, mains, names, history, TypeInv, MainBusy
    <3> QED
      BY <3>1, <3>2, <3>3 DEF TypeInv
  <2>31. ASSUME NEW r \in Runs, Deliver(r) PROVE TypeInv'
    <3>1. TypeOK'
      BY SMTT(30), <2>31, NilAssumption DEF Deliver, At, shared, stream, host, mains, names,
        history, TypeInv, TypeOK, MainStates, ReaderStates, Statuses, Running, None
    <3>2. StatusKnown'
      BY SMTT(30), <2>31 DEF Deliver, At, shared, stream, host, mains, names, history,
        TypeInv, TypeOK, StatusKnown, Statuses
    <3>3. MainBusy'
      BY <2>31 DEF Deliver, At, shared, stream, host, mains, names, history, TypeInv, MainBusy
    <3> QED
      BY <3>1, <3>2, <3>3 DEF TypeInv
  <2>32. ASSUME NEW r \in Runs, Stash(r) PROVE TypeInv'
    <3>1. TypeOK'
      <4>1. ending' \in [Runs -> Statuses \union {None}]
        BY <2>32 DEF Stash, Statuses, StatusKnown, At, TypeInv, TypeOK
      <4>2. reader' \in [Runs -> ReaderStates]
        BY <2>32 DEF Stash, At, ReaderStates, TypeInv, TypeOK
      <4> QED
        BY SMTT(30), <2>32, <4>1, <4>2 DEF Stash, shared, stream, host, mains, names, history,
          TypeInv, TypeOK, MainStates
    <3>2. StatusKnown'
      BY SMTT(30), <2>32 DEF Stash, At, shared, stream, host, mains, names, history, TypeInv,
        TypeOK, StatusKnown, Statuses
    <3>3. MainBusy'
      BY <2>32 DEF Stash, At, shared, stream, host, mains, names, history, TypeInv, MainBusy
    <3> QED
      BY <3>1, <3>2, <3>3 DEF TypeInv
  <2>33. ASSUME NEW r \in Runs, EmitExit(r) PROVE TypeInv'
    <3>1. exits' \in [Runs -> Nat]
      BY <2>33, BoundsAssumption DEF EmitExit, At, Exit, shared, stream, host, mains, names,
           TypeInv, TypeOK, MainBusy
    <3>2. TypeOK'
      <4>1. reader' \in [Runs -> ReaderStates]
        BY <2>33 DEF EmitExit, At, ReaderStates, TypeInv, TypeOK
      <4> QED
        BY SMTT(30), <2>33, <4>1, <3>1 DEF EmitExit, shared, stream, host, mains, names,
          TypeInv, TypeOK, MainStates
    <3>3. StatusKnown'
      BY SMTT(30), <2>33, <3>1 DEF EmitExit, At, shared, stream, host, mains, names, TypeInv,
        TypeOK, StatusKnown, Statuses
    <3>4. MainBusy'
      BY <2>33 DEF EmitExit, At, shared, stream, host, mains, names, TypeInv, MainBusy
    <3> QED
      BY <3>2, <3>3, <3>4 DEF TypeInv
  <2>34. ASSUME NEW r \in Runs, ReleaseEntry(r) PROVE TypeInv'
    <3>1. TypeOK'
      <4>1. entries' \in [TaskIds -> Runs \union {Nil}]
        BY <2>34, NilAssumption DEF ReleaseEntry, TypeInv, TypeOK
      <4>2. reader' \in [Runs -> ReaderStates]
        BY <2>34 DEF ReleaseEntry, At, ReaderStates, TypeInv, TypeOK
      <4> QED
        BY SMTT(30), <2>34, <4>1, <4>2 DEF ReleaseEntry, stream, host, mains, names, history,
          TypeInv, TypeOK, MainStates
    <3>2. StatusKnown'
      BY SMTT(30), <2>34 DEF ReleaseEntry, At, stream, host, mains, names, history, TypeInv,
        TypeOK, StatusKnown, Statuses
    <3>3. MainBusy'
      BY <2>34 DEF ReleaseEntry, At, stream, host, mains, names, history, TypeInv, MainBusy
    <3> QED
      BY <3>1, <3>2, <3>3 DEF TypeInv
  <2>35. ASSUME NEW r \in Runs, ReleaseSet(r) PROVE TypeInv'
    <3>1. TypeOK'
      <4>1. tasks' \in [TaskIds -> Runs \union {Nil}]
        BY <2>35, NilAssumption DEF ReleaseSet, TypeInv, TypeOK
      <4>2. reader' \in [Runs -> ReaderStates]
        BY <2>35 DEF ReleaseSet, At, ReaderStates, TypeInv, TypeOK
      <4> QED
        BY SMTT(30), <2>35, <4>1, <4>2 DEF ReleaseSet, stream, host, mains, names, history,
          TypeInv, TypeOK, MainStates
    <3>2. StatusKnown'
      BY SMTT(30), <2>35 DEF ReleaseSet, At, stream, host, mains, names, history, TypeInv,
        TypeOK, StatusKnown, Statuses
    <3>3. MainBusy'
      BY <2>35 DEF ReleaseSet, At, stream, host, mains, names, history, TypeInv, MainBusy
    <3> QED
      BY <3>1, <3>2, <3>3 DEF TypeInv
  <2>36. CASE UNCHANGED vars
    BY <2>36 DEF vars, shared, stream, readers, host, mains, names, history,
      TypeInv, TypeOK, StatusKnown, MainBusy, MainStates, ReaderStates, Statuses, Running, None
  <2> QED
    BY <2>1, <2>2, <2>3, <2>4, <2>5, <2>6, <2>7, <2>8, <2>9, <2>10, <2>11, <2>12, <2>13,
         <2>14, <2>15, <2>16, <2>17, <2>18, <2>19, <2>20, <2>21, <2>22, <2>23, <2>24, <2>25, <2>26,
         <2>27, <2>28, <2>29, <2>30, <2>31, <2>32, <2>33, <2>34, <2>35, <2>36
    DEF Next, Request, Dispatch, Connection, Reader, Process
<1> QED
  BY <1>1, <1>2, PTL DEF Spec

\* Every variable keeps its type, for any number of runs and any bounds.
THEOREM TypeCorrect == Spec => []TypeOK
<1>1. TypeInv => TypeOK
  BY DEF TypeInv
<1> QED
  BY <1>1, TypeInvHolds, PTL

-----------------------------------------------------------------------------
(* A process is killed only when asked for                                 *)

\* Whatever may still lead to a SIGKILL names a run somebody asked to stop; for
\* that a close must find in the entries the very run it took out of the set.
KillInv ==
  /\ \A r \in Runs : doomed[r] => asked[r]
  /\ \A i \in TaskIds : pending[i] # Nil => asked[pending[i]]
  /\ main = "register" => asked[mrun]
  /\ main \in {"serving", "adopt"} => mtodo = {}
  /\ main \in {"closing", "register"} =>
       \A i \in mtodo : entries[i] # Nil => asked[entries[i]]
  /\ main = "adopt" => tasks[mid] \in {Nil, mrun}
  /\ \A i \in TaskIds :
       tasks[i] # Nil /\ entries[i] # Nil /\ ~(main = "adopt" /\ mid = i)
         => tasks[i] = entries[i]

\* At every step of a close, a terminate or a restart, all that can still lead to a
\* SIGKILL is a run somebody asked to stop.
LEMMA KillInvHolds == Spec => []KillInv
<1>1. Init => KillInv
  BY DEF Init, KillInv, Running, None, Statuses, Ids
<1>2. TypeInv /\ KillInv /\ [Next]_vars => KillInv'
  <2> SUFFICES ASSUME TypeInv, KillInv, [Next]_vars PROVE KillInv'
    OBVIOUS
  <2>1. ASSUME NEW w \in Workspaces, Register(w) PROVE KillInv'
    BY <2>1, NilAssumption DEF Register, stream, readers, host, mains, names, history,
      TypeInv, TypeOK, MainBusy, KillInv, Running, None, Statuses, Ids
  <2>2. ASSUME NEW w \in Workspaces, CloseWorkspace(w) PROVE KillInv'
    <3>1. /\ \A q \in Runs : asked[q] => asked'[q]
          /\ doomed' = doomed /\ pending' = pending /\ entries' = entries
          /\ mid' = mid /\ mrun' = mrun
          /\ main = "serving" /\ main' \in {"serving", "closing"}
      BY <2>2 DEF CloseWorkspace, host, TypeInv, TypeOK
    <3>2. \A i \in mtodo' : tasks[i] \in Runs /\ asked'[tasks[i]]
      BY <2>2, NilAssumption DEF CloseWorkspace, Ids, TypeInv, TypeOK
    <3>3. main' = "serving" => mtodo' = {}
      BY <2>2 DEF CloseWorkspace
    <3>4. mtodo' \subseteq TaskIds /\ \A i \in TaskIds : tasks'[i] \in {Nil, tasks[i]}
      BY <2>2 DEF CloseWorkspace, Ids
    <3>5. \A i \in mtodo' : entries'[i] # Nil => asked'[entries'[i]]
      BY <3>1, <3>2, <3>4, NilAssumption DEF KillInv
    <3>6. \A i \in TaskIds : tasks'[i] # Nil /\ entries'[i] # Nil => tasks'[i] = entries'[i]
      BY <3>1, <3>4 DEF KillInv
    <3> QED
      BY <3>1, <3>3, <3>5, <3>6, NilAssumption DEF KillInv, TypeInv, TypeOK
  <2>3. ASSUME NEW i \in TaskIds, NEW w \in Workspaces, NEW r \in Runs, RunTask(i, w, r) PROVE
      KillInv'
    BY <2>3, NilAssumption DEF RunTask, stream, readers, history,
      TypeInv, TypeOK, MainBusy, KillInv, Running, None, Statuses, Ids
  <2>4. ASSUME NEW i \in TaskIds, NEW s \in {"Int", "Term", "Kill"}, Terminate(i, s) PROVE
      KillInv'
    <3>1. /\ \A q \in Runs : asked[q] => asked'[q]
          /\ entries[i] \in Runs /\ asked'[entries[i]]
      BY <2>4, NilAssumption DEF Terminate, TypeInv, TypeOK
    <3>2. \A q \in Runs : doomed'[q] => asked'[q]
      BY <2>4, <3>1 DEF Terminate, Killed, KillInv, TypeInv, TypeOK
    <3>3. \A j \in TaskIds : pending'[j] # Nil => asked'[pending'[j]]
      BY <2>4, <3>1, NilAssumption DEF Terminate, shared, KillInv, TypeInv, TypeOK
    <3>4. /\ main = "serving" /\ mtodo' = mtodo /\ mtodo = {}
          /\ main' = "serving" \/ (main' = "register" /\ mrun' = entries[i])
          /\ tasks' = tasks /\ entries' = entries
      BY <2>4 DEF Terminate, shared, KillInv
    <3> QED
      BY <3>1, <3>2, <3>3, <3>4 DEF KillInv
  <2>5. ASSUME Restart PROVE KillInv'
    BY <2>5, NilAssumption DEF Restart, Killed, stream, readers, names,
      TypeInv, TypeOK, MainBusy, KillInv, Running, None, Statuses, Ids
  <2>6. ASSUME Adopt PROVE KillInv'
    BY SMTT(30), <2>6, NilAssumption DEF Adopt, stream, host, names, history,
      TypeInv, TypeOK, MainBusy, KillInv, Running, None, Statuses, Ids
  <2>7. ASSUME RegisterDeadline PROVE KillInv'
    BY <2>7, NilAssumption DEF RegisterDeadline, stream, readers, host, names, history,
      TypeInv, TypeOK, MainBusy, KillInv, Running, None, Statuses, Ids
  <2>8. ASSUME ReplayEmit PROVE KillInv'
    BY <2>8, NilAssumption DEF ReplayEmit, Emit, shared, stream, readers, host, names,
      TypeInv, TypeOK, MainBusy, KillInv, Running, None, Statuses, Ids
  <2>9. ASSUME ReplayExit PROVE KillInv'
    BY <2>9, NilAssumption DEF ReplayExit, Exit, shared, stream, host, names,
      TypeInv, TypeOK, MainBusy, KillInv, Running, None, Statuses, Ids
  <2>10. ASSUME ReplayEntry PROVE KillInv'
    BY <2>10, NilAssumption DEF ReplayEntry, stream, readers, host, names, history,
      TypeInv, TypeOK, MainBusy, KillInv, Running, None, Statuses, Ids
  <2>11. ASSUME ReplaySet PROVE KillInv'
    BY <2>11, NilAssumption DEF ReplaySet, stream, readers, host, names, history,
      TypeInv, TypeOK, MainBusy, KillInv, Running, None, Statuses, Ids
  <2>12. ASSUME ReplayDone PROVE KillInv'
    BY <2>12, NilAssumption DEF ReplayDone, shared, stream, readers, host, names, history,
      TypeInv, TypeOK, MainBusy, KillInv, Running, None, Statuses, Ids
  <2>13. ASSUME Joined PROVE KillInv'
    BY <2>13, NilAssumption DEF Joined, shared, stream, readers, host, names, history,
      TypeInv, TypeOK, MainBusy, KillInv, Running, None, Statuses, Ids
  <2>14. ASSUME NEW i \in TaskIds, SignalPlan(i) PROVE KillInv'
    BY <2>14, NilAssumption DEF SignalPlan, shared, stream, readers, host, names, history,
      TypeInv, TypeOK, MainBusy, KillInv, Running, None, Statuses, Ids
  <2>15. ASSUME NEW i \in TaskIds, ReplayTake(i) PROVE KillInv'
    BY <2>15, NilAssumption DEF ReplayTake, shared, readers, host, names, history,
      TypeInv, TypeOK, MainBusy, KillInv, Running, None, Statuses, Ids
  <2>16. ASSUME Detach PROVE KillInv'
    BY <2>16, NilAssumption DEF Detach, stream, readers, host, names, history,
      TypeInv, TypeOK, MainBusy, KillInv, Running, None, Statuses, Ids
  <2>17. ASSUME Reattach PROVE KillInv'
    BY <2>17, NilAssumption DEF Reattach, Ids, stream, readers, host, names,
      TypeInv, TypeOK, MainBusy, KillInv, Running, None, Statuses, Ids
  <2>18. ASSUME Leave PROVE KillInv'
    BY <2>18, NilAssumption DEF Leave, stream, readers, host, names, history,
      TypeInv, TypeOK, MainBusy, KillInv, Running, None, Statuses, Ids
  <2>19. ASSUME NEW i \in TaskIds, Fire(i) PROVE KillInv'
    <3>1. pending[i] \in Runs /\ asked[pending[i]]
      BY <2>19, NilAssumption DEF Fire, KillInv, TypeInv, TypeOK
    <3>2. \A q \in Runs : doomed'[q] => asked'[q]
      BY <2>19, <3>1 DEF Fire, Killed, history, KillInv, TypeInv, TypeOK
    <3> QED
      BY <2>19, <3>2, NilAssumption DEF Fire, mains, history, KillInv, TypeInv, TypeOK
  <2>20. ASSUME NEW r \in Runs, Closes(r) PROVE KillInv'
    BY <2>20, NilAssumption DEF Closes, shared, stream, readers, mains, names, history,
      TypeInv, TypeOK, MainBusy, KillInv, Running, None, Statuses, Ids
  <2>21. ASSUME NEW r \in Runs, NEW s \in Statuses, Dies(r, s) PROVE KillInv'
    BY <2>21, NilAssumption DEF Dies, shared, stream, readers, mains, names, history,
      TypeInv, TypeOK, MainBusy, KillInv, Running, None, Statuses, Ids
  <2>22. ASSUME NEW r \in Runs, ReadBytes(r) PROVE KillInv'
    BY <2>22, NilAssumption DEF ReadBytes, At, DrainDue, shared, host, mains, names, history,
      TypeInv, TypeOK, MainBusy, KillInv, Running, None, Statuses, Ids
  <2>23. ASSUME NEW r \in Runs, ReadIdle(r) PROVE KillInv'
    BY <2>23, NilAssumption DEF ReadIdle, At, shared, host, mains, names, history,
      TypeInv, TypeOK, MainBusy, KillInv, Running, None, Statuses, Ids
  <2>24. ASSUME NEW r \in Runs, ReadEnded(r) PROVE KillInv'
    BY <2>24, NilAssumption DEF ReadEnded, At, shared, host, mains, names, history,
      TypeInv, TypeOK, MainBusy, KillInv, Running, None, Statuses, Ids
  <2>25. ASSUME NEW r \in Runs, FlushLoad(r) PROVE KillInv'
    BY <2>25, NilAssumption DEF FlushLoad, At, AfterChunk, shared, stream, host, mains, names,
         history,
      TypeInv, TypeOK, MainBusy, KillInv, Running, None, Statuses, Ids
  <2>26. ASSUME NEW r \in Runs, FlushPush(r) PROVE KillInv'
    BY <2>26, NilAssumption DEF FlushPush, At, AfterChunk, shared, host, mains, names, history,
      TypeInv, TypeOK, MainBusy, KillInv, Running, None, Statuses, Ids
  <2>27. ASSUME NEW r \in Runs, FlushEmit(r) PROVE KillInv'
    BY <2>27, NilAssumption DEF FlushEmit, At, Emit, shared, stream, host, mains, names,
      TypeInv, TypeOK, MainBusy, KillInv, Running, None, Statuses, Ids
  <2>28. ASSUME NEW r \in Runs, FlushDrain(r) PROVE KillInv'
    BY <2>28, NilAssumption DEF FlushDrain, At, AfterChunk, shared, host, mains, names, history,
      TypeInv, TypeOK, MainBusy, KillInv, Running, None, Statuses, Ids
  <2>29. ASSUME NEW r \in Runs, Reap(r) PROVE KillInv'
    BY SMTT(30), <2>29, NilAssumption DEF Reap, At, stream, host, mains, names, history,
      TypeInv, TypeOK, MainBusy, KillInv, Running, None, Statuses, Ids
  <2>30. ASSUME NEW r \in Runs, MarkEnded(r) PROVE KillInv'
    BY <2>30, NilAssumption DEF MarkEnded, At, stream, host, mains, names, history,
      TypeInv, TypeOK, MainBusy, KillInv, Running, None, Statuses, Ids
  <2>31. ASSUME NEW r \in Runs, Deliver(r) PROVE KillInv'
    BY <2>31, NilAssumption DEF Deliver, At, shared, stream, host, mains, names, history,
      TypeInv, TypeOK, MainBusy, KillInv, Running, None, Statuses, Ids
  <2>32. ASSUME NEW r \in Runs, Stash(r) PROVE KillInv'
    BY <2>32, NilAssumption DEF Stash, At, shared, stream, host, mains, names, history,
      TypeInv, TypeOK, MainBusy, KillInv, Running, None, Statuses, Ids
  <2>33. ASSUME NEW r \in Runs, EmitExit(r) PROVE KillInv'
    BY <2>33, NilAssumption DEF EmitExit, At, Exit, shared, stream, host, mains, names,
      TypeInv, TypeOK, MainBusy, KillInv, Running, None, Statuses, Ids
  <2>34. ASSUME NEW r \in Runs, ReleaseEntry(r) PROVE KillInv'
    BY SMTT(30), <2>34, NilAssumption DEF ReleaseEntry, At, stream, host, mains, names, history,
      TypeInv, TypeOK, MainBusy, KillInv, Running, None, Statuses, Ids
  <2>35. ASSUME NEW r \in Runs, ReleaseSet(r) PROVE KillInv'
    BY SMTT(30), <2>35, NilAssumption DEF ReleaseSet, At, stream, host, mains, names, history,
      TypeInv, TypeOK, MainBusy, KillInv, Running, None, Statuses, Ids
  <2>36. CASE UNCHANGED vars
    BY <2>36 DEF vars, shared, stream, readers, host, mains, names, history,
      KillInv, Running, None, Statuses, Ids
  <2> QED
    BY <2>1, <2>2, <2>3, <2>4, <2>5, <2>6, <2>7, <2>8, <2>9, <2>10, <2>11, <2>12, <2>13,
         <2>14, <2>15, <2>16, <2>17, <2>18, <2>19, <2>20, <2>21, <2>22, <2>23, <2>24, <2>25, <2>26,
         <2>27, <2>28, <2>29, <2>30, <2>31, <2>32, <2>33, <2>34, <2>35, <2>36
    DEF Next, Request, Dispatch, Connection, Reader, Process
<1> QED
  BY <1>1, <1>2, TypeInvHolds, PTL DEF Spec

\* SIGKILL reaches only runs somebody asked to stop, identities reused or not.
THEOREM OnlyTheAskedAreKilled == Spec => []KillsOnlyTheAsked
<1>1. KillInv => KillsOnlyTheAsked
  BY DEF KillInv, KillsOnlyTheAsked
<1> QED
  BY <1>1, KillInvHolds, PTL

-----------------------------------------------------------------------------
(* One exit per run                                                        *)

\* The reader either sends the exit and releases, or stashes the ending and is
\* done; only a stashed ending can still be sent.
ExitInv ==
  /\ \A r \in Runs :
       /\ exits[r] <= 1
       /\ ending[r] # None => exits[r] = 0 /\ reader[r] = "done"
       /\ reader[r] \notin {"releaseEntry", "releaseSet", "done"} => exits[r] = 0
       /\ idOf[r] = Nil => reader[r] = "none"
  /\ main = "adopt" => reader[mrun] = "none" /\ idOf[mrun] # Nil

\* An exit has been sent only by a reader that is past sending, or by the replay
\* that took the ending out.
LEMMA ExitInvHolds == Spec => []ExitInv
<1>1. Init => ExitInv
  BY DEF Init, ExitInv, None, Statuses
<1>2. TypeInv /\ ExitInv /\ [Next]_vars => ExitInv'
  <2> SUFFICES ASSUME TypeInv, ExitInv, [Next]_vars PROVE ExitInv'
    OBVIOUS
  <2>1. ASSUME NEW w \in Workspaces, Register(w) PROVE ExitInv'
    BY <2>1, NilAssumption DEF Register, stream, readers, host, mains, names, history,
      TypeInv, TypeOK, MainBusy, ExitInv, None, Statuses
  <2>2. ASSUME NEW w \in Workspaces, CloseWorkspace(w) PROVE ExitInv'
    BY <2>2, NilAssumption DEF CloseWorkspace, Ids, stream, readers, host, names,
      TypeInv, TypeOK, MainBusy, ExitInv, None, Statuses
  <2>3. ASSUME NEW i \in TaskIds, NEW w \in Workspaces, NEW r \in Runs, RunTask(i, w, r) PROVE
      ExitInv'
    BY <2>3, NilAssumption DEF RunTask, stream, readers, history,
      TypeInv, TypeOK, MainBusy, ExitInv, None, Statuses
  <2>4. ASSUME NEW i \in TaskIds, NEW s \in {"Int", "Term", "Kill"}, Terminate(i, s) PROVE
      ExitInv'
    BY <2>4, NilAssumption DEF Terminate, Killed, shared, stream, readers, names,
      TypeInv, TypeOK, MainBusy, ExitInv, None, Statuses
  <2>5. ASSUME Restart PROVE ExitInv'
    BY <2>5, NilAssumption DEF Restart, Killed, stream, readers, names,
      TypeInv, TypeOK, MainBusy, ExitInv, None, Statuses
  <2>6. ASSUME Adopt PROVE ExitInv'
    BY <2>6, NilAssumption DEF Adopt, stream, host, names, history,
      TypeInv, TypeOK, MainBusy, ExitInv, None, Statuses
  <2>7. ASSUME RegisterDeadline PROVE ExitInv'
    BY <2>7, NilAssumption DEF RegisterDeadline, stream, readers, host, names, history,
      TypeInv, TypeOK, MainBusy, ExitInv, None, Statuses
  <2>8. ASSUME ReplayEmit PROVE ExitInv'
    BY <2>8, NilAssumption DEF ReplayEmit, Emit, shared, stream, readers, host, names,
      TypeInv, TypeOK, MainBusy, ExitInv, None, Statuses
  <2>9. ASSUME ReplayExit PROVE ExitInv'
    BY <2>9, NilAssumption DEF ReplayExit, Exit, shared, stream, host, names,
      TypeInv, TypeOK, MainBusy, ExitInv, None, Statuses
  <2>10. ASSUME ReplayEntry PROVE ExitInv'
    BY <2>10, NilAssumption DEF ReplayEntry, stream, readers, host, names, history,
      TypeInv, TypeOK, MainBusy, ExitInv, None, Statuses
  <2>11. ASSUME ReplaySet PROVE ExitInv'
    BY <2>11, NilAssumption DEF ReplaySet, stream, readers, host, names, history,
      TypeInv, TypeOK, MainBusy, ExitInv, None, Statuses
  <2>12. ASSUME ReplayDone PROVE ExitInv'
    BY <2>12, NilAssumption DEF ReplayDone, shared, stream, readers, host, names, history,
      TypeInv, TypeOK, MainBusy, ExitInv, None, Statuses
  <2>13. ASSUME Joined PROVE ExitInv'
    BY <2>13, NilAssumption DEF Joined, shared, stream, readers, host, names, history,
      TypeInv, TypeOK, MainBusy, ExitInv, None, Statuses
  <2>14. ASSUME NEW i \in TaskIds, SignalPlan(i) PROVE ExitInv'
    BY <2>14, NilAssumption DEF SignalPlan, shared, stream, readers, host, names, history,
      TypeInv, TypeOK, MainBusy, ExitInv, None, Statuses
  <2>15. ASSUME NEW i \in TaskIds, ReplayTake(i) PROVE ExitInv'
    BY <2>15, NilAssumption DEF ReplayTake, shared, readers, host, names, history,
      TypeInv, TypeOK, MainBusy, ExitInv, None, Statuses
  <2>16. ASSUME Detach PROVE ExitInv'
    BY <2>16, NilAssumption DEF Detach, stream, readers, host, names, history,
      TypeInv, TypeOK, MainBusy, ExitInv, None, Statuses
  <2>17. ASSUME Reattach PROVE ExitInv'
    BY <2>17, NilAssumption DEF Reattach, Ids, stream, readers, host, names,
      TypeInv, TypeOK, MainBusy, ExitInv, None, Statuses
  <2>18. ASSUME Leave PROVE ExitInv'
    BY <2>18, NilAssumption DEF Leave, stream, readers, host, names, history,
      TypeInv, TypeOK, MainBusy, ExitInv, None, Statuses
  <2>19. ASSUME NEW i \in TaskIds, Fire(i) PROVE ExitInv'
    BY <2>19, NilAssumption DEF Fire, Killed, stream, readers, mains, names, history,
      TypeInv, TypeOK, MainBusy, ExitInv, None, Statuses
  <2>20. ASSUME NEW r \in Runs, Closes(r) PROVE ExitInv'
    BY <2>20, NilAssumption DEF Closes, shared, stream, readers, mains, names, history,
      TypeInv, TypeOK, MainBusy, ExitInv, None, Statuses
  <2>21. ASSUME NEW r \in Runs, NEW s \in Statuses, Dies(r, s) PROVE ExitInv'
    BY <2>21, NilAssumption DEF Dies, shared, stream, readers, mains, names, history,
      TypeInv, TypeOK, MainBusy, ExitInv, None, Statuses
  <2>22. ASSUME NEW r \in Runs, ReadBytes(r) PROVE ExitInv'
    BY SMTT(30), <2>22, NilAssumption DEF ReadBytes, At, DrainDue, shared, host, mains, names, history,
      TypeInv, TypeOK, MainBusy, ExitInv, None, Statuses
  <2>23. ASSUME NEW r \in Runs, ReadIdle(r) PROVE ExitInv'
    BY <2>23, NilAssumption DEF ReadIdle, At, shared, host, mains, names, history,
      TypeInv, TypeOK, MainBusy, ExitInv, None, Statuses
  <2>24. ASSUME NEW r \in Runs, ReadEnded(r) PROVE ExitInv'
    BY <2>24, NilAssumption DEF ReadEnded, At, shared, host, mains, names, history,
      TypeInv, TypeOK, MainBusy, ExitInv, None, Statuses
  <2>25. ASSUME NEW r \in Runs, FlushLoad(r) PROVE ExitInv'
    BY <2>25, NilAssumption DEF FlushLoad, At, AfterChunk, shared, stream, host, mains, names,
         history,
      TypeInv, TypeOK, MainBusy, ExitInv, None, Statuses
  <2>26. ASSUME NEW r \in Runs, FlushPush(r) PROVE ExitInv'
    BY <2>26, NilAssumption DEF FlushPush, At, AfterChunk, shared, host, mains, names, history,
      TypeInv, TypeOK, MainBusy, ExitInv, None, Statuses
  <2>27. ASSUME NEW r \in Runs, FlushEmit(r) PROVE ExitInv'
    BY <2>27, NilAssumption DEF FlushEmit, At, Emit, shared, stream, host, mains, names,
      TypeInv, TypeOK, MainBusy, ExitInv, None, Statuses
  <2>28. ASSUME NEW r \in Runs, FlushDrain(r) PROVE ExitInv'
    BY <2>28, NilAssumption DEF FlushDrain, At, AfterChunk, shared, host, mains, names, history,
      TypeInv, TypeOK, MainBusy, ExitInv, None, Statuses
  <2>29. ASSUME NEW r \in Runs, Reap(r) PROVE ExitInv'
    BY <2>29, NilAssumption DEF Reap, At, stream, host, mains, names, history,
      TypeInv, TypeOK, MainBusy, ExitInv, None, Statuses
  <2>30. ASSUME NEW r \in Runs, MarkEnded(r) PROVE ExitInv'
    BY <2>30, NilAssumption DEF MarkEnded, At, stream, host, mains, names, history,
      TypeInv, TypeOK, MainBusy, ExitInv, None, Statuses
  <2>31. ASSUME NEW r \in Runs, Deliver(r) PROVE ExitInv'
    BY <2>31, NilAssumption DEF Deliver, At, shared, stream, host, mains, names, history,
      TypeInv, TypeOK, MainBusy, ExitInv, None, Statuses
  <2>32. ASSUME NEW r \in Runs, Stash(r) PROVE ExitInv'
    BY <2>32, NilAssumption DEF Stash, At, shared, stream, host, mains, names, history,
      TypeInv, TypeOK, MainBusy, ExitInv, None, Statuses
  <2>33. ASSUME NEW r \in Runs, EmitExit(r) PROVE ExitInv'
    BY <2>33, NilAssumption DEF EmitExit, At, Exit, shared, stream, host, mains, names,
      TypeInv, TypeOK, MainBusy, ExitInv, None, Statuses
  <2>34. ASSUME NEW r \in Runs, ReleaseEntry(r) PROVE ExitInv'
    BY <2>34, NilAssumption DEF ReleaseEntry, At, stream, host, mains, names, history,
      TypeInv, TypeOK, MainBusy, ExitInv, None, Statuses
  <2>35. ASSUME NEW r \in Runs, ReleaseSet(r) PROVE ExitInv'
    BY <2>35, NilAssumption DEF ReleaseSet, At, stream, host, mains, names, history,
      TypeInv, TypeOK, MainBusy, ExitInv, None, Statuses
  <2>36. CASE UNCHANGED vars
    BY <2>36 DEF vars, shared, stream, readers, host, mains, names, history,
      ExitInv, None, Statuses
  <2> QED
    BY <2>1, <2>2, <2>3, <2>4, <2>5, <2>6, <2>7, <2>8, <2>9, <2>10, <2>11, <2>12, <2>13,
         <2>14, <2>15, <2>16, <2>17, <2>18, <2>19, <2>20, <2>21, <2>22, <2>23, <2>24, <2>25, <2>26,
         <2>27, <2>28, <2>29, <2>30, <2>31, <2>32, <2>33, <2>34, <2>35, <2>36
    DEF Next, Request, Dispatch, Connection, Reader, Process
<1> QED
  BY <1>1, <1>2, TypeInvHolds, PTL DEF Spec

\* No run's exit is reported twice, whatever reader and replay do.
THEOREM ExitsOnce == Spec => []ExitAtMostOnce
<1>1. ExitInv => ExitAtMostOnce
  BY DEF ExitInv, ExitAtMostOnce
<1> QED
  BY <1>1, ExitInvHolds, PTL

-----------------------------------------------------------------------------
(* Output, once and in order                                               *)

Flushing == {"load", "push", "emit", "drain"}
Ending   == {"reap", "mark", "deliver", "stash", "exit", "releaseEntry",
             "releaseSet", "done"}

\* The positions of a run's buffers, raced or not.
PositionsOf(r) ==
  /\ freed[r] <= kept[r] /\ kept[r] <= cut[r] /\ cut[r] <= got[r]
  /\ reader[r] = "none" => got[r] = 0 /\ ~final[r]
  /\ reader[r] = "read" => ~final[r]
  /\ reader[r] = "push" => kept[r] < cut[r]
  /\ reader[r] \in Flushing /\ final[r] => cut[r] = got[r]
  /\ reader[r] \in Ending => kept[r] = got[r]

Positions == \A r \in Runs : PositionsOf(r)

\* The dispatch thread replays with no reader of an unraced run at work, and
\* holds chunks only while it replays them.
Replaying ==
  /\ main \in {"replay", "replayEmit", "replayExit", "replayEntry", "replaySet"} =>
       \A r \in Runs : ~raced[r] => reader[r] \in {"none", "done"}
  /\ main \notin {"replayEmit", "replayExit"} => mlo = 0 /\ mhi = 0
  /\ main \in {"replayEmit", "replayExit"} => mlo <= mhi
  /\ main = "replayExit" => mlo = mhi

\* What the wire has seen of an unraced run, step by step of its reader.
Seen(r) ==
  /\ InOrder(r)
  /\ reader[r] \in {"emit", "drain"} => freed[r] = kept[r] - 1
  /\ reader[r] = "drain" => Len(sent[r]) = kept[r]
  /\ reader[r] # "drain" =>
       Len(sent[r]) = IF main = "replayEmit" /\ mrun = r THEN mlo ELSE freed[r]
  /\ main = "replayEmit" /\ mrun = r =>
       mhi = freed[r] /\ (exits[r] > 0 => mlo = mhi)
  /\ main \in {"replayEmit", "replayExit"} /\ mrun = r => freed[r] = kept[r]
  /\ reader[r] \in {"push", "emit", "drain"} /\ attached => snap[r]
  /\ reader[r] = "push" /\ snap[r] => freed[r] = kept[r]
  /\ reader[r] \in {"read", "load", "reap", "mark", "deliver"} /\ attached
       => freed[r] = kept[r]
  /\ reader[r] \in {"exit", "releaseEntry", "releaseSet"} => freed[r] = kept[r]
  /\ exits[r] > 0 => reader[r] \in Ending /\ freed[r] = kept[r]

StreamInv ==
  /\ Positions /\ Replaying
  /\ \A r \in Runs : ~raced[r] => Seen(r)

\* The buffers of a run hold adjacent pieces of its output, and what has been
\* written is the piece before them.
LEMMA StreamInvHolds == Spec => []StreamInv
<1>1. Init => StreamInv
  BY DEF Init, StreamInv, Positions, PositionsOf, Replaying, Seen, InOrder, Flushing, Ending
<1>2. TypeInv /\ ExitInv /\ StreamInv /\ [Next]_vars => StreamInv'
  <2> SUFFICES ASSUME TypeInv, ExitInv, StreamInv, [Next]_vars PROVE StreamInv'
    OBVIOUS
  <2>1. ASSUME NEW w \in Workspaces, Register(w) PROVE StreamInv'
    BY <2>1, NilAssumption DEF Register, stream, readers, host, mains, names, history,
      TypeInv, TypeOK, MainBusy, StreamInv, Positions, PositionsOf, Replaying, Seen, InOrder,
          Flushing, Ending, Ids
  <2>2. ASSUME NEW w \in Workspaces, CloseWorkspace(w) PROVE StreamInv'
    BY <2>2, NilAssumption DEF CloseWorkspace, Ids, stream, readers, host, names,
      TypeInv, TypeOK, MainBusy, StreamInv, Positions, PositionsOf, Replaying, Seen, InOrder,
          Flushing, Ending, Ids
  <2>3. ASSUME NEW i \in TaskIds, NEW w \in Workspaces, NEW r \in Runs, RunTask(i, w, r) PROVE
      StreamInv'
    <3>1. Positions'
      BY <2>3, NilAssumption DEF RunTask, stream, readers, history,
        TypeInv, TypeOK, MainBusy, StreamInv, Positions, PositionsOf, Replaying, Flushing,
            Ending
    <3>2. Replaying'
      BY <2>3, NilAssumption DEF RunTask, readers, history, Replaying, StreamInv
    <3>3. ASSUME NEW q \in Runs, ~raced'[q] PROVE Seen(q)'
      BY <2>3, <3>3, NilAssumption DEF RunTask, stream, readers, history,
        TypeInv, TypeOK, MainBusy, StreamInv, Positions, PositionsOf, Replaying, Seen,
            InOrder, Flushing, Ending
    <3> QED
      BY <3>1, <3>2, <3>3 DEF StreamInv
  <2>4. ASSUME NEW i \in TaskIds, NEW s \in {"Int", "Term", "Kill"}, Terminate(i, s) PROVE
      StreamInv'
    BY <2>4, NilAssumption DEF Terminate, Killed, shared, stream, readers, names,
      TypeInv, TypeOK, MainBusy, StreamInv, Positions, PositionsOf, Replaying, Seen, InOrder,
          Flushing, Ending, Ids
  <2>5. ASSUME Restart PROVE StreamInv'
    BY <2>5, NilAssumption DEF Restart, Killed, stream, readers, names,
      TypeInv, TypeOK, MainBusy, StreamInv, Positions, PositionsOf, Replaying, Seen, InOrder,
          Flushing, Ending, Ids
  <2>6. ASSUME Adopt PROVE StreamInv'
    <3>0. mrun \in Runs /\ reader[mrun] = "none"
      BY <2>6 DEF Adopt, ExitInv, TypeInv, MainBusy
    <3>1. Positions'
      BY <2>6, <3>0, NilAssumption DEF Adopt, stream, host, names, history,
        TypeInv, TypeOK, MainBusy, StreamInv, Positions, PositionsOf, Replaying, Flushing,
            Ending
    <3>2. Replaying'
      BY <2>6, <3>0, NilAssumption DEF Adopt, stream, host, names, history,
        TypeInv, TypeOK, MainBusy, StreamInv, Positions, PositionsOf, Replaying, Ids
    <3>3. ASSUME NEW q \in Runs, ~raced'[q] PROVE Seen(q)'
      BY SMTT(30), <2>6, <3>0, <3>3, NilAssumption DEF Adopt, stream, host, names, history,
        TypeInv, TypeOK, MainBusy, StreamInv, Positions, PositionsOf, Replaying, Seen,
            InOrder, Flushing, Ending
    <3> QED
      BY <3>1, <3>2, <3>3 DEF StreamInv
  <2>7. ASSUME RegisterDeadline PROVE StreamInv'
    BY <2>7, NilAssumption DEF RegisterDeadline, stream, readers, host, names, history,
      TypeInv, TypeOK, MainBusy, StreamInv, Positions, PositionsOf, Replaying, Seen, InOrder,
          Flushing, Ending, Ids
  <2>8. ASSUME ReplayEmit PROVE StreamInv'
    <3>1. Positions'
      BY <2>8, NilAssumption DEF ReplayEmit, Emit, shared, stream, readers, host, names,
        TypeInv, TypeOK, MainBusy, StreamInv, Positions, PositionsOf, Replaying, Flushing,
            Ending
    <3>2. Replaying'
      BY <2>8, NilAssumption DEF ReplayEmit, Emit, shared, stream, readers, host, names,
        TypeInv, TypeOK, MainBusy, StreamInv, Positions, PositionsOf, Replaying, Ids
    <3>3. ASSUME NEW q \in Runs, ~raced'[q] PROVE Seen(q)'
      <4>0. /\ main = "replayEmit" /\ mrun \in Runs /\ mrun' = mrun /\ ~raced[q]
            /\ mlo \in Nat /\ mhi \in Nat /\ mlo <= mhi /\ mhi' = mhi
            /\ reader[q] \in {"none", "done"} /\ Seen(q)
        BY <2>8, <3>3 DEF ReplayEmit, TypeInv, TypeOK, MainBusy, StreamInv, Replaying
      <4>1. CASE ~(mlo < mhi)
        BY <2>8, <4>0, <4>1 DEF ReplayEmit, shared, stream, readers, Seen, InOrder
      <4>2. CASE mlo < mhi /\ q = mrun
        <5>1. /\ sent'[q] = Append(sent[q], mlo + 1) /\ mlo' = mlo + 1 /\ main' = main
              /\ Len(sent[q]) = mlo /\ InOrder(q) /\ exits[q] = 0
          BY <2>8, <4>0, <4>2 DEF ReplayEmit, Emit, Seen, TypeInv, TypeOK
        <5>2. /\ Len(sent'[q]) = mlo'
              /\ \A n \in 1 .. Len(sent'[q]) : sent'[q][n] = n
          BY <5>1 DEF InOrder, TypeInv, TypeOK
        <5> QED
          BY <2>8, <4>0, <4>2, <5>1, <5>2 DEF ReplayEmit, shared, stream, readers, Seen, InOrder
      <4>3. CASE mlo < mhi /\ q # mrun
        BY <2>8, <4>0, <4>3 DEF ReplayEmit, Emit, shared, stream, readers, Seen, InOrder,
          TypeInv, TypeOK
      <4> QED
        BY <4>1, <4>2, <4>3
    <3> QED
      BY <3>1, <3>2, <3>3 DEF StreamInv
  <2>9. ASSUME ReplayExit PROVE StreamInv'
    <3>1. Positions'
      BY <2>9, NilAssumption DEF ReplayExit, Exit, shared, stream, host, names,
        TypeInv, TypeOK, MainBusy, StreamInv, Positions, PositionsOf, Replaying, Flushing,
            Ending
    <3>2. Replaying'
      BY <2>9, NilAssumption DEF ReplayExit, Exit, shared, stream, host, names,
        TypeInv, TypeOK, MainBusy, StreamInv, Positions, PositionsOf, Replaying, Ids
    <3>3. ASSUME NEW q \in Runs, ~raced'[q] PROVE Seen(q)'
      <4>0. /\ main = "replayExit" /\ mrun \in Runs /\ ~raced[q] /\ Seen(q)
            /\ main' # "replayEmit" /\ mlo = mhi
            /\ reader[q] \in {"none", "done"}
        BY <2>9, <3>3 DEF ReplayExit, TypeInv, MainBusy, StreamInv, Replaying
      <4>1. exits'[q] > 0 => exits[q] > 0 \/ (q = mrun /\ ending[q] # None)
        BY <2>9, <4>0 DEF ReplayExit, Exit, TypeInv, TypeOK
      <4>2. q = mrun /\ ending[q] # None => reader[q] = "done" /\ freed[q] = kept[q]
        BY <4>0 DEF ExitInv, Seen
      <4> QED
        BY <2>9, <4>0, <4>1, <4>2 DEF ReplayExit, shared, stream, Seen, InOrder, Ending
    <3> QED
      BY <3>1, <3>2, <3>3 DEF StreamInv
  <2>10. ASSUME ReplayEntry PROVE StreamInv'
    BY <2>10, NilAssumption DEF ReplayEntry, stream, readers, host, names, history,
      TypeInv, TypeOK, MainBusy, StreamInv, Positions, PositionsOf, Replaying, Seen, InOrder,
          Flushing, Ending, Ids
  <2>11. ASSUME ReplaySet PROVE StreamInv'
    BY <2>11, NilAssumption DEF ReplaySet, stream, readers, host, names, history,
      TypeInv, TypeOK, MainBusy, StreamInv, Positions, PositionsOf, Replaying, Seen, InOrder,
          Flushing, Ending, Ids
  <2>12. ASSUME ReplayDone PROVE StreamInv'
    BY <2>12, NilAssumption DEF ReplayDone, shared, stream, readers, host, names, history,
      TypeInv, TypeOK, MainBusy, StreamInv, Positions, PositionsOf, Replaying, Seen, InOrder,
          Flushing, Ending, Ids
  <2>13. ASSUME Joined PROVE StreamInv'
    BY <2>13, NilAssumption DEF Joined, shared, stream, readers, host, names, history,
      TypeInv, TypeOK, MainBusy, StreamInv, Positions, PositionsOf, Replaying, Seen, InOrder,
          Flushing, Ending, Ids
  <2>14. ASSUME NEW i \in TaskIds, SignalPlan(i) PROVE StreamInv'
    BY <2>14, NilAssumption DEF SignalPlan, shared, stream, readers, host, names, history,
      TypeInv, TypeOK, MainBusy, StreamInv, Positions, PositionsOf, Replaying, Seen, InOrder,
          Flushing, Ending, Ids
  <2>15. ASSUME NEW i \in TaskIds, ReplayTake(i) PROVE StreamInv'
    <3>1. Positions'
      <4>1. CASE entries[i] = Nil
        BY <2>15, <4>1 DEF ReplayTake, readers, StreamInv, Positions, PositionsOf
      <4>2. CASE entries[i] # Nil
        <5>1. /\ entries[i] \in Runs /\ freed' = [freed EXCEPT ![entries[i]] = kept[entries[i]]]
              /\ got' = got /\ cut' = cut /\ kept' = kept /\ reader' = reader /\ final' = final
          BY <2>15, <4>2 DEF ReplayTake, readers, TypeInv, TypeOK
        <5> QED
          BY <5>1 DEF TypeInv, TypeOK, StreamInv, Positions, PositionsOf
      <4> QED
        BY <4>1, <4>2
    <3>2. Replaying'
      BY <2>15, NilAssumption DEF ReplayTake, shared, readers, host, names, history,
        TypeInv, TypeOK, MainBusy, StreamInv, Positions, PositionsOf, Replaying, Ids
    <3>3. ASSUME NEW q \in Runs, ~raced'[q] PROVE Seen(q)'
      BY SMTT(30), <2>15, <3>3, NilAssumption DEF ReplayTake, shared, readers, host, names, history,
        TypeInv, TypeOK, MainBusy, StreamInv, Positions, PositionsOf, Replaying, Seen,
            InOrder, Flushing, Ending
    <3> QED
      BY <3>1, <3>2, <3>3 DEF StreamInv
  <2>16. ASSUME Detach PROVE StreamInv'
    BY <2>16, NilAssumption DEF Detach, stream, readers, host, names, history,
      TypeInv, TypeOK, MainBusy, StreamInv, Positions, PositionsOf, Replaying, Seen, InOrder,
          Flushing, Ending, Ids
  <2>17. ASSUME Reattach PROVE StreamInv'
    BY <2>17, NilAssumption DEF Reattach, Ids, stream, readers, host, names,
      TypeInv, TypeOK, MainBusy, StreamInv, Positions, PositionsOf, Replaying, Seen, InOrder,
          Flushing, Ending, Ids
  <2>18. ASSUME Leave PROVE StreamInv'
    BY <2>18, NilAssumption DEF Leave, stream, readers, host, names, history,
      TypeInv, TypeOK, MainBusy, StreamInv, Positions, PositionsOf, Replaying, Seen, InOrder,
          Flushing, Ending, Ids
  <2>19. ASSUME NEW i \in TaskIds, Fire(i) PROVE StreamInv'
    BY <2>19, NilAssumption DEF Fire, Killed, stream, readers, mains, names, history,
      TypeInv, TypeOK, MainBusy, StreamInv, Positions, PositionsOf, Replaying, Seen, InOrder,
          Flushing, Ending, Ids
  <2>20. ASSUME NEW r \in Runs, Closes(r) PROVE StreamInv'
    BY <2>20, NilAssumption DEF Closes, shared, stream, readers, mains, names, history,
      TypeInv, TypeOK, MainBusy, StreamInv, Positions, PositionsOf, Replaying, Seen, InOrder,
          Flushing, Ending, Ids
  <2>21. ASSUME NEW r \in Runs, NEW s \in Statuses, Dies(r, s) PROVE StreamInv'
    BY <2>21, NilAssumption DEF Dies, shared, stream, readers, mains, names, history,
      TypeInv, TypeOK, MainBusy, StreamInv, Positions, PositionsOf, Replaying, Seen, InOrder,
          Flushing, Ending, Ids
  <2>22. ASSUME NEW r \in Runs, ReadBytes(r) PROVE StreamInv'
    <3>0. PICK to \in 0 .. MaxOutput : DrainDue(r, to)
      BY <2>22 DEF ReadBytes
    <3>a. /\ got' = [got EXCEPT ![r] = got[r] + 1] /\ got'[r] = got[r] + 1
          /\ kept' = kept /\ freed' = freed /\ final' = final /\ to \in Nat
      BY <2>22, BoundsAssumption DEF ReadBytes, TypeInv, TypeOK
    <3>b. /\ reader[r] = "read" /\ cut[r] <= to /\ to <= got[r] + 1
          /\ cut' = [cut EXCEPT ![r] = to]
          /\ reader' = [reader EXCEPT ![r] = IF to > kept[r] THEN "load" ELSE "read"]
      BY <3>0, <3>a DEF DrainDue, At, TypeInv, TypeOK
    <3>1. ASSUME NEW q \in Runs PROVE PositionsOf(q)'
      <4>1. CASE q = r
        <5>1. /\ reader[r] = "read" /\ ~final[r]
              /\ freed[r] <= kept[r] /\ kept[r] <= cut[r] /\ cut[r] <= got[r]
          BY <3>b DEF StreamInv, Positions, PositionsOf
        <5>2. reader'[r] \in {"load", "read"} /\ cut'[r] = to
          BY <3>b DEF TypeInv, TypeOK
        <5>3. freed[r] \in Nat /\ kept[r] \in Nat /\ cut[r] \in Nat /\ got[r] \in Nat
          BY DEF TypeInv, TypeOK
        <5> QED
          BY <3>a, <3>b, <4>1, <5>1, <5>2, <5>3 DEF PositionsOf, Flushing, Ending
      <4>2. CASE q # r
        BY <3>a, <3>b, <4>2 DEF StreamInv, Positions, PositionsOf, TypeInv, TypeOK
      <4> QED
        BY <4>1, <4>2
    <3>2. Replaying'
      BY <2>22, <3>b DEF ReadBytes, mains, history, TypeInv, TypeOK, StreamInv, Replaying
    <3>3. ASSUME NEW q \in Runs, ~raced'[q] PROVE Seen(q)'
      BY <2>22, <3>a, <3>b, <3>3 DEF ReadBytes, shared, mains, history, TypeInv, TypeOK,
        StreamInv, Seen, InOrder, Ending
    <3> QED
      BY <3>1, <3>2, <3>3 DEF StreamInv, Positions
  <2>23. ASSUME NEW r \in Runs, ReadIdle(r) PROVE StreamInv'
    <3>1. Positions'
      BY SMTT(30), <2>23, NilAssumption DEF ReadIdle, At, shared, host, mains, names, history,
        TypeInv, TypeOK, MainBusy, StreamInv, Positions, PositionsOf, Replaying, Flushing,
            Ending
    <3>2. Replaying'
      BY <2>23, NilAssumption DEF ReadIdle, At, shared, host, mains, names, history,
        TypeInv, TypeOK, MainBusy, StreamInv, Positions, PositionsOf, Replaying, Ids
    <3>3. ASSUME NEW q \in Runs, ~raced'[q] PROVE Seen(q)'
      BY <2>23, <3>3, NilAssumption DEF ReadIdle, At, shared, host, mains, names, history,
        TypeInv, TypeOK, MainBusy, StreamInv, Positions, PositionsOf, Replaying, Seen,
            InOrder, Flushing, Ending
    <3> QED
      BY <3>1, <3>2, <3>3 DEF StreamInv
  <2>24. ASSUME NEW r \in Runs, ReadEnded(r) PROVE StreamInv'
    <3>1. Positions'
      BY <2>24, NilAssumption DEF ReadEnded, At, shared, host, mains, names, history,
        TypeInv, TypeOK, MainBusy, StreamInv, Positions, PositionsOf, Replaying, Flushing,
            Ending
    <3>2. Replaying'
      BY <2>24, NilAssumption DEF ReadEnded, At, shared, host, mains, names, history,
        TypeInv, TypeOK, MainBusy, StreamInv, Positions, PositionsOf, Replaying, Ids
    <3>3. ASSUME NEW q \in Runs, ~raced'[q] PROVE Seen(q)'
      BY <2>24, <3>3, NilAssumption DEF ReadEnded, At, shared, host, mains, names, history,
        TypeInv, TypeOK, MainBusy, StreamInv, Positions, PositionsOf, Replaying, Seen,
            InOrder, Flushing, Ending
    <3> QED
      BY <3>1, <3>2, <3>3 DEF StreamInv
  <2>25. ASSUME NEW r \in Runs, FlushLoad(r) PROVE StreamInv'
    <3>1. Positions'
      BY SMTT(30), <2>25, NilAssumption DEF FlushLoad, At, AfterChunk, shared, stream, host, mains,
           names, history,
        TypeInv, TypeOK, MainBusy, StreamInv, Positions, PositionsOf, Replaying, Flushing,
            Ending
    <3>2. Replaying'
      BY <2>25, NilAssumption DEF FlushLoad, At, AfterChunk, shared, stream, host, mains,
           names, history,
        TypeInv, TypeOK, MainBusy, StreamInv, Positions, PositionsOf, Replaying, Ids
    <3>3. ASSUME NEW q \in Runs, ~raced'[q] PROVE Seen(q)'
      BY <2>25, <3>3, NilAssumption DEF FlushLoad, At, AfterChunk, shared, stream, host,
           mains, names, history,
        TypeInv, TypeOK, MainBusy, StreamInv, Positions, PositionsOf, Replaying, Seen,
            InOrder, Flushing, Ending
    <3> QED
      BY <3>1, <3>2, <3>3 DEF StreamInv
  <2>26. ASSUME NEW r \in Runs, FlushPush(r) PROVE StreamInv'
    <3>1. Positions'
      BY SMTT(30), <2>26, NilAssumption DEF FlushPush, At, AfterChunk, shared, host, mains, names,
           history,
        TypeInv, TypeOK, MainBusy, StreamInv, Positions, PositionsOf, Replaying, Flushing,
            Ending
    <3>2. Replaying'
      BY <2>26, NilAssumption DEF FlushPush, At, AfterChunk, shared, host, mains, names,
           history,
        TypeInv, TypeOK, MainBusy, StreamInv, Positions, PositionsOf, Replaying, Ids
    <3>3. ASSUME NEW q \in Runs, ~raced'[q] PROVE Seen(q)'
      <4>1. /\ reader[r] = "push" /\ kept' = [kept EXCEPT ![r] = kept[r] + 1]
            /\ reader' = [reader EXCEPT ![r] =
                 IF snap[r] THEN "emit" ELSE AfterChunk(r, kept[r] + 1)]
            /\ freed' = freed /\ snap' = snap /\ attached' = attached /\ main' = main
            /\ mrun' = mrun /\ mlo' = mlo /\ mhi' = mhi /\ sent' = sent /\ exits' = exits
            /\ ~raced[q] /\ Seen(q)
        BY <2>26, <3>3 DEF FlushPush, At, shared, mains, history, StreamInv
      <4>2. CASE q = r
        <5>1. main \notin {"replayEmit", "replayExit"} \/ mrun # r
          BY <4>1, <4>2 DEF StreamInv, Replaying
        <5>2. kept[r] \in Nat /\ freed[r] \in Nat /\ kept'[r] = kept[r] + 1
          BY <4>1 DEF TypeInv, TypeOK
        <5>3. CASE snap[r]
          <6>1. reader'[r] = "emit"
            BY <4>1, <5>3 DEF TypeInv, TypeOK
          <6> QED
            BY <4>1, <4>2, <5>1, <5>2, <5>3, <6>1 DEF Seen, InOrder, Ending
        <5>4. CASE ~snap[r]
          <6>1. reader'[r] \in {"push", "reap", "read"}
            BY <4>1, <5>4 DEF AfterChunk, TypeInv, TypeOK
          <6> QED
            BY <4>1, <4>2, <5>1, <5>2, <5>4, <6>1 DEF Seen, InOrder, Ending
        <5> QED
          BY <5>3, <5>4
      <4>3. CASE q # r
        BY <4>1, <4>3 DEF Seen, InOrder, TypeInv, TypeOK
      <4> QED
        BY <4>2, <4>3
    <3> QED
      BY <3>1, <3>2, <3>3 DEF StreamInv
  <2>27. ASSUME NEW r \in Runs, FlushEmit(r) PROVE StreamInv'
    <3>1. Positions'
      BY <2>27, NilAssumption DEF FlushEmit, At, Emit, shared, stream, host, mains, names,
        TypeInv, TypeOK, MainBusy, StreamInv, Positions, PositionsOf, Replaying, Flushing,
            Ending
    <3>2. Replaying'
      BY <2>27, NilAssumption DEF FlushEmit, At, Emit, shared, stream, host, mains, names,
        TypeInv, TypeOK, MainBusy, StreamInv, Positions, PositionsOf, Replaying, Ids
    <3>3. ASSUME NEW q \in Runs, ~raced'[q] PROVE Seen(q)'
      <4>1. CASE q = r
        <5>1. /\ reader[r] = "emit" /\ reader'[r] = "drain" /\ ~raced[r]
              /\ sent'[r] = Append(sent[r], kept[r])
          BY <2>27, <3>3, <4>1 DEF FlushEmit, Emit, At, TypeInv, TypeOK
        <5>2. main \notin {"replayEmit", "replayExit"}
          BY <5>1 DEF StreamInv, Replaying
        <5>3. /\ Len(sent[r]) = kept[r] - 1 /\ InOrder(r) /\ freed[r] = kept[r] - 1
              /\ attached => snap[r] /\ exits[r] = 0
          BY <5>1, <5>2 DEF StreamInv, Seen, Ending, ExitInv
        <5>4. /\ Len(sent'[r]) = kept[r]
              /\ \A n \in 1 .. Len(sent'[r]) : sent'[r][n] = n
          BY SMTT(30), <5>1, <5>3 DEF InOrder, TypeInv, TypeOK
        <5>5. exits[r] = 0 /\ (attached => snap[r])
          BY <5>1 DEF StreamInv, Seen, ExitInv
        <5>6. kept' = kept /\ freed' = freed /\ snap' = snap /\ exits' = exits
              /\ attached' = attached /\ main' = main /\ mrun' = mrun /\ kept[r] \in Nat
          BY <2>27 DEF FlushEmit, shared, stream, mains, TypeInv, TypeOK
        <5> QED
          BY <4>1, <5>1, <5>2, <5>3, <5>4, <5>5, <5>6 DEF Seen, InOrder
      <4>2. CASE q # r
        BY <2>27, <3>3, <4>2 DEF FlushEmit, Emit, At, shared, stream, mains, StreamInv,
          Seen, InOrder, TypeInv, TypeOK
      <4> QED
        BY <4>1, <4>2
    <3> QED
      BY <3>1, <3>2, <3>3 DEF StreamInv
  <2>28. ASSUME NEW r \in Runs, FlushDrain(r) PROVE StreamInv'
    <3>1. Positions'
      BY SMTT(30), <2>28, NilAssumption DEF FlushDrain, At, AfterChunk, shared, host, mains, names,
           history,
        TypeInv, TypeOK, MainBusy, StreamInv, Positions, PositionsOf, Replaying, Flushing,
            Ending
    <3>2. Replaying'
      BY <2>28, NilAssumption DEF FlushDrain, At, AfterChunk, shared, host, mains, names,
           history,
        TypeInv, TypeOK, MainBusy, StreamInv, Positions, PositionsOf, Replaying, Ids
    <3>3. ASSUME NEW q \in Runs, ~raced'[q] PROVE Seen(q)'
      BY SMTT(30), <2>28, <3>3, NilAssumption DEF FlushDrain, At, AfterChunk, shared, host, mains,
           names, history,
        TypeInv, TypeOK, MainBusy, StreamInv, Positions, PositionsOf, Replaying, Seen,
            InOrder, Flushing, Ending
    <3> QED
      BY <3>1, <3>2, <3>3 DEF StreamInv
  <2>29. ASSUME NEW r \in Runs, Reap(r) PROVE StreamInv'
    BY SMTT(30), <2>29, NilAssumption DEF Reap, At, stream, host, mains, names, history,
      TypeInv, TypeOK, MainBusy, StreamInv, Positions, PositionsOf, Replaying, Seen, InOrder,
          Flushing, Ending, Ids
  <2>30. ASSUME NEW r \in Runs, MarkEnded(r) PROVE StreamInv'
    BY SMTT(30), <2>30, NilAssumption DEF MarkEnded, At, stream, host, mains, names, history,
      TypeInv, TypeOK, MainBusy, StreamInv, Positions, PositionsOf, Replaying, Seen, InOrder,
          Flushing, Ending, Ids
  <2>31. ASSUME NEW r \in Runs, Deliver(r) PROVE StreamInv'
    BY SMTT(30), <2>31, NilAssumption DEF Deliver, At, shared, stream, host, mains, names, history,
      TypeInv, TypeOK, MainBusy, StreamInv, Positions, PositionsOf, Replaying, Seen, InOrder,
          Flushing, Ending, Ids
  <2>32. ASSUME NEW r \in Runs, Stash(r) PROVE StreamInv'
    BY SMTT(30), <2>32, NilAssumption DEF Stash, At, shared, stream, host, mains, names, history,
      TypeInv, TypeOK, MainBusy, StreamInv, Positions, PositionsOf, Replaying, Seen, InOrder,
          Flushing, Ending, Ids
  <2>33. ASSUME NEW r \in Runs, EmitExit(r) PROVE StreamInv'
    <3>1. Positions'
      BY <2>33, NilAssumption DEF EmitExit, At, Exit, shared, stream, host, mains, names,
        TypeInv, TypeOK, MainBusy, StreamInv, Positions, PositionsOf, Replaying, Flushing,
            Ending
    <3>2. Replaying'
      BY <2>33, NilAssumption DEF EmitExit, At, Exit, shared, stream, host, mains, names,
        TypeInv, TypeOK, MainBusy, StreamInv, Positions, PositionsOf, Replaying, Ids
    <3>3. ASSUME NEW q \in Runs, ~raced'[q] PROVE Seen(q)'
      BY <2>33, <3>3, NilAssumption DEF EmitExit, At, Exit, shared, stream, host, mains, names,
        TypeInv, TypeOK, MainBusy, StreamInv, Positions, PositionsOf, Replaying, Seen,
            InOrder, Flushing, Ending
    <3> QED
      BY <3>1, <3>2, <3>3 DEF StreamInv
  <2>34. ASSUME NEW r \in Runs, ReleaseEntry(r) PROVE StreamInv'
    BY SMTT(30), <2>34, NilAssumption DEF ReleaseEntry, At, stream, host, mains, names, history,
      TypeInv, TypeOK, MainBusy, StreamInv, Positions, PositionsOf, Replaying, Seen, InOrder,
          Flushing, Ending, Ids
  <2>35. ASSUME NEW r \in Runs, ReleaseSet(r) PROVE StreamInv'
    BY SMTT(30), <2>35, NilAssumption DEF ReleaseSet, At, stream, host, mains, names, history,
      TypeInv, TypeOK, MainBusy, StreamInv, Positions, PositionsOf, Replaying, Seen, InOrder,
          Flushing, Ending, Ids
  <2>36. CASE UNCHANGED vars
    BY <2>36 DEF vars, shared, stream, readers, host, mains, names, history,
      StreamInv, Positions, PositionsOf, Replaying, Seen, InOrder, Flushing, Ending
  <2> QED
    BY <2>1, <2>2, <2>3, <2>4, <2>5, <2>6, <2>7, <2>8, <2>9, <2>10, <2>11, <2>12, <2>13,
         <2>14, <2>15, <2>16, <2>17, <2>18, <2>19, <2>20, <2>21, <2>22, <2>23, <2>24, <2>25, <2>26,
         <2>27, <2>28, <2>29, <2>30, <2>31, <2>32, <2>33, <2>34, <2>35, <2>36
    DEF Next, Request, Dispatch, Connection, Reader, Process
<1> QED
  BY <1>1, <1>2, TypeInvHolds, ExitInvHolds, PTL DEF Spec

\* Output once and in order, then the exit, for every run no client came back
\* to at work.
THEOREM DeliveredInOrderOnce == Spec => []DeliveredExactly
<1>1. TypeInv /\ StreamInv => DeliveredExactly
  BY DEF StreamInv, TypeInv, TypeOK, Positions, PositionsOf, Replaying, Seen, Ending,
       DeliveredExactly
<1> QED
  BY <1>1, StreamInvHolds, TypeInvHolds, PTL

\* What retention lets go of has been written.
THEOREM NothingIsDiscarded == Spec => []NothingDiscarded
<1>1. TypeInv /\ StreamInv => NothingDiscarded
  BY DEF StreamInv, NothingDiscarded, TypeInv, TypeOK, Positions, PositionsOf, Replaying, Seen
<1> QED
  BY <1>1, TypeInvHolds, StreamInvHolds, PTL

-----------------------------------------------------------------------------
(* An identity is reachable                                                *)

\* A run whose reader is at work or about to be, and which nobody asked to stop: its
\* identity is still its own, or was taken from it by the release of another that was
\* asked to stop.
Works(q) == reader[q] \notin {"none", "done"} \/ (main = "adopt" /\ mrun = q)
Displaced(q) ==
  \E p \in Runs \ {q, tasks[idOf[q]]} : idOf[p] = idOf[q] /\ asked[p]
Held == \A q \in Runs : Works(q) /\ ~asked[q] => tasks[idOf[q]] = q \/ Displaced(q)

\* An identity names a run that was started under it, and what a replay releases is not
\* at work.
Named ==
  /\ \A i \in TaskIds : tasks[i] # Nil => idOf[tasks[i]] = i
  /\ main = "adopt" => idOf[mrun] = mid
  /\ main \in {"replayEmit", "replayExit", "replayEntry", "replaySet"} =>
       tasks[mid] \in {Nil, mrun}
  /\ main \in {"replayEntry", "replaySet"} => reader[mrun] = "done"

Reach ==
  \A i \in TaskIds : tasks[i] # Nil =>
    \/ entries[i] = tasks[i]
    \/ main \in {"adopt", "replaySet"} /\ mid = i
    \/ reader[tasks[i]] = "releaseSet"
    \/ Inherits(tasks[i])

ReachInv == Named /\ (main # "gone" => Held) /\ Reach

\* Whatever leaves the identities alone, asks nobody to go on, and neither begins nor
\* ends a release, leaves the invariant alone.
LEMMA Undisturbed ==
  ASSUME TypeInv, TypeInv', ReachInv,
         tasks' = tasks, entries' = entries, idOf' = idOf,
         \A q \in Runs : asked[q] => asked'[q],
         \A q \in Runs : reader'[q] # reader[q] =>
           /\ reader[q] \notin {"none", "releaseSet", "done"},
         main = "gone" => main' = "gone",
         main \in {"adopt", "replaySet"} => main' = main /\ mid' = mid,
         main' = "adopt" => main = "adopt" /\ mid' = mid /\ mrun' = mrun,
         main' \in {"replayEmit", "replayExit", "replayEntry", "replaySet"} =>
           /\ main \in {"replayEmit", "replayExit", "replayEntry", "replaySet"}
           /\ mid' = mid /\ mrun' = mrun,
         main' \in {"replayEntry", "replaySet"} => main \in {"replayEntry", "replaySet"}
  PROVE  ReachInv'
<1>1. Named'
  BY NilAssumption DEF ReachInv, Named, TypeInv, TypeOK, MainBusy
<1>2. main' # "gone" => Held'
  <2> SUFFICES ASSUME main' # "gone", NEW q \in Runs, Works(q)', ~asked'[q]
               PROVE tasks'[idOf'[q]] = q \/ Displaced(q)'
    BY DEF Held
  <2>1. Works(q) /\ ~asked[q]
    BY DEF Works, TypeInv, TypeOK
  <2>2. tasks[idOf[q]] = q \/ Displaced(q)
    BY <2>1 DEF ReachInv, Held
  <2> QED
    BY <2>2 DEF Displaced
<1>3. Reach'
  <2> SUFFICES ASSUME NEW i \in TaskIds, tasks'[i] # Nil
               PROVE \/ entries'[i] = tasks'[i]
                     \/ main' \in {"adopt", "replaySet"} /\ mid' = i
                     \/ reader'[tasks'[i]] = "releaseSet"
                     \/ Inherits(tasks[i])'
    BY DEF Reach
  <2>1. tasks[i] \in Runs
    BY DEF TypeInv, TypeOK
  <2>2. Inherits(tasks[i]) => Inherits(tasks[i])'
    BY <2>1 DEF Inherits
  <2> QED
    BY <2>1, <2>2 DEF ReachInv, Reach, TypeInv, TypeOK
<1> QED
  BY <1>1, <1>2, <1>3 DEF ReachInv

\* ... and so does a step of a reader that is at work and is not releasing.
LEMMA ReaderStep ==
  ASSUME TypeInv, TypeInv', ReachInv, NEW r \in Runs,
         reader[r] \notin {"none", "releaseSet", "done"},
         \A q \in Runs \ {r} : reader'[q] = reader[q],
         UNCHANGED <<tasks, entries, idOf, asked, main, mid, mrun>>
  PROVE  ReachInv'
<1>1. \A q \in Runs : reader'[q] # reader[q] =>
        reader[q] \notin {"none", "releaseSet", "done"}
  OBVIOUS
<1> QED
  BY <1>1, Undisturbed

\* An identity the set holds has its entry, is about to get it or lose it, or was used by
\* another that was to be stopped: one action after the other.
LEMMA ReachInvHolds == Spec => []ReachInv
<1>1. Init => ReachInv
  BY NilAssumption DEF Init, ReachInv, Named, Held, Works, Reach
<1>2. TypeInv /\ TypeInv' /\ KillInv /\ ExitInv /\ ReachInv /\ [Next]_vars => ReachInv'
  <2> SUFFICES ASSUME TypeInv, TypeInv', KillInv, ExitInv, ReachInv, [Next]_vars
               PROVE  ReachInv'
    OBVIOUS
  <2>1. ASSUME NEW w \in Workspaces, Register(w) PROVE ReachInv'
    BY <2>1, Undisturbed DEF Register, stream, readers, host, mains, names, history,
      TypeInv, TypeOK, ReaderStates
  <2>2. ASSUME NEW w \in Workspaces, CloseWorkspace(w) PROVE ReachInv'
    <3>0. /\ main = "serving" /\ main' \in {"serving", "closing"}
          /\ entries' = entries /\ reader' = reader /\ idOf' = idOf
          /\ \A q \in Runs : asked[q] => asked'[q]
      BY <2>2 DEF CloseWorkspace, readers, names, TypeInv, TypeOK
    <3>a. ASSUME NEW i \in TaskIds PROVE \/ tasks'[i] = tasks[i]
                                         \/ tasks'[i] = Nil /\ tasks[i] \in Runs /\ asked'[tasks[i]]
      BY ZenonT(40), <2>2, NilAssumption DEF CloseWorkspace, Ids, TypeInv, TypeOK
    <3>1. Named'
      BY <3>0, <3>a DEF ReachInv, Named, TypeInv, TypeOK
    <3>2. Held'
      <4> SUFFICES ASSUME NEW q \in Runs, Works(q)', ~asked'[q]
                   PROVE tasks'[idOf'[q]] = q \/ Displaced(q)'
        BY DEF Held
      <4>1. Works(q) /\ ~asked[q] /\ idOf[q] \in TaskIds
        BY <3>0 DEF Works, ExitInv, TypeInv, TypeOK
      <4>2. tasks[idOf[q]] = q => tasks'[idOf[q]] = q
        BY <3>a, <4>1
      <4>3. Displaced(q) => Displaced(q)'
        <5> SUFFICES ASSUME NEW p \in Runs \ {q, tasks[idOf[q]]}, idOf[p] = idOf[q], asked[p]
                     PROVE Displaced(q)'
          BY DEF Displaced
        <5>1. tasks'[idOf[q]] # p
          BY <3>a, <4>1, NilAssumption
        <5> QED
          BY <3>0, <5>1 DEF Displaced
      <4> QED
        BY <3>0, <4>1, <4>2, <4>3 DEF ReachInv, Held
    <3>3. Reach'
      <4> SUFFICES ASSUME NEW j \in TaskIds, tasks'[j] # Nil
                   PROVE \/ entries[j] = tasks[j]
                         \/ reader[tasks[j]] = "releaseSet"
                         \/ Inherits(tasks[j])'
        BY <3>0, <3>a DEF Reach
      <4>1. tasks'[j] = tasks[j] /\ tasks[j] \in Runs
        BY <3>a DEF TypeInv, TypeOK
      <4>2. Inherits(tasks[j]) => Inherits(tasks[j])'
        BY <3>0, <4>1 DEF Inherits
      <4> QED
        BY <3>0, <3>a, <4>1, <4>2 DEF ReachInv, Reach
    <3> QED
      BY <3>1, <3>2, <3>3 DEF ReachInv
  <2>3. ASSUME NEW i \in TaskIds, NEW w \in Workspaces, NEW r \in Runs, RunTask(i, w, r)
       PROVE ReachInv'
    <3>0. /\ main = "serving" /\ tasks[i] = Nil /\ idOf[r] = Nil /\ main' = "adopt"
          /\ tasks' = [tasks EXCEPT ![i] = r] /\ idOf' = [idOf EXCEPT ![r] = i]
          /\ mid' = i /\ mrun' = r /\ entries' = entries /\ reader' = reader /\ asked' = asked
      BY <2>3 DEF RunTask, readers, history
    <3>a. ASSUME NEW j \in TaskIds, tasks'[j] # Nil PROVE idOf'[tasks'[j]] = j
      <4>1. CASE j = i
        BY <3>0, <4>1 DEF TypeInv, TypeOK
      <4>2. CASE j # i
        <5>1. tasks'[j] = tasks[j] /\ tasks[j] \in Runs /\ idOf[tasks[j]] = j
          BY <3>0, <3>a, <4>2 DEF ReachInv, Named, TypeInv, TypeOK
        <5>2. tasks[j] # r
          BY <3>0, <5>1, NilAssumption
        <5> QED
          BY <3>0, <5>1, <5>2
      <4> QED
        BY <4>1, <4>2
    <3>1. Named'
      BY <3>0, <3>a DEF Named, TypeInv, TypeOK
    <3>2. Held'
      <4> SUFFICES ASSUME NEW q \in Runs, Works(q)', ~asked'[q]
                   PROVE tasks'[idOf'[q]] = q \/ Displaced(q)'
        BY DEF Held
      <4>1. CASE q = r
        BY <3>0, <4>1 DEF TypeInv, TypeOK
      <4>2. CASE q # r
        <5>1. Works(q) /\ ~asked[q] /\ idOf[q] \in TaskIds /\ idOf'[q] = idOf[q]
          BY <3>0, <4>2 DEF Works, ExitInv, TypeInv, TypeOK
        <5>2. CASE tasks[idOf[q]] = q
          <6>1. idOf[q] # i
            BY <3>0, <5>2, NilAssumption
          <6> QED
            BY <3>0, <5>1, <5>2, <6>1 DEF TypeInv, TypeOK
        <5>3. CASE Displaced(q)
          <6>1. PICK p \in Runs \ {q, tasks[idOf[q]]} : idOf[p] = idOf[q] /\ asked[p]
            BY <5>3 DEF Displaced
          <6>2. p # r /\ idOf'[p] = idOf[p] /\ asked'[p]
            BY <3>0, <5>1, <6>1, NilAssumption DEF TypeInv, TypeOK
          <6>3. tasks'[idOf'[q]] \in {tasks[idOf[q]], r}
            BY <3>0, <5>1 DEF TypeInv, TypeOK
          <6> QED
            BY <5>1, <6>1, <6>2, <6>3 DEF Displaced
        <5> QED
          BY <3>0, <5>1, <5>2, <5>3 DEF ReachInv, Held
      <4> QED
        BY <4>1, <4>2
    <3>3. Reach'
      <4> SUFFICES ASSUME NEW j \in TaskIds, j # i, tasks[j] # Nil
                   PROVE \/ entries[j] = tasks[j]
                         \/ reader[tasks[j]] = "releaseSet"
                         \/ Inherits(tasks[j])'
        BY <3>0 DEF Reach, TypeInv, TypeOK
      <4>1. tasks[j] \in Runs /\ idOf[tasks[j]] = j /\ tasks[j] # r
        BY <3>0, NilAssumption DEF ReachInv, Named, TypeInv, TypeOK
      <4>2. Inherits(tasks[j]) => Inherits(tasks[j])'
        BY <3>0, <4>1, NilAssumption DEF Inherits, TypeInv, TypeOK
      <4> QED
        BY <3>0, <4>2 DEF ReachInv, Reach
    <3> QED
      BY <3>1, <3>2, <3>3 DEF ReachInv
  <2>4. ASSUME NEW i \in TaskIds, NEW s \in {"Int", "Term", "Kill"}, Terminate(i, s) PROVE ReachInv'
    <3>1. /\ main = "serving" /\ main' \in {"serving", "register"}
          /\ UNCHANGED <<tasks, entries, idOf, reader>>
          /\ asked' = [asked EXCEPT ![entries[i]] = TRUE]
      BY <2>4 DEF Terminate, shared, readers, names
    <3>2. \A q \in Runs : asked[q] => asked'[q]
      BY <3>1 DEF TypeInv, TypeOK
    <3> QED
      BY <3>1, <3>2, Undisturbed
  <2>5. ASSUME Restart PROVE ReachInv'
    BY <2>5, NilAssumption DEF Restart, ReachInv, Named, Reach
  <2>6. ASSUME Adopt PROVE ReachInv'
    <3>0. /\ main = "adopt" /\ main' = "serving" /\ mid \in TaskIds /\ mrun \in Runs
          /\ entries' = [entries EXCEPT ![mid] = mrun]
          /\ reader' = [reader EXCEPT ![mrun] = "read"]
          /\ tasks' = tasks /\ idOf' = idOf /\ asked' = asked
          /\ tasks[mid] \in {Nil, mrun} /\ idOf[mrun] = mid
          /\ reader[mrun] = "none"
      BY <2>6 DEF Adopt, names, history, TypeInv, MainBusy, KillInv, ExitInv, ReachInv, Named
    <3>1. Named'
      BY <3>0 DEF ReachInv, Named
    <3>2. Held'
      BY ZenonT(40), <3>0 DEF ReachInv, Held, Works, Displaced, TypeInv, TypeOK
    <3>3. Reach'
      <4> SUFFICES ASSUME NEW j \in TaskIds, tasks[j] # Nil, j # mid
                   PROVE \/ entries[j] = tasks[j]
                         \/ reader'[tasks[j]] = "releaseSet"
                         \/ Inherits(tasks[j])'
        BY <3>0 DEF Reach, TypeInv, TypeOK
      <4>1. tasks[j] \in Runs
        BY DEF TypeInv, TypeOK
      <4>2. Inherits(tasks[j]) => Inherits(tasks[j])'
        BY <3>0 DEF Inherits
      <4> QED
        BY <3>0, <4>1, <4>2 DEF ReachInv, Reach, TypeInv, TypeOK
    <3> QED
      BY <3>1, <3>2, <3>3 DEF ReachInv
  <2>7. ASSUME RegisterDeadline PROVE ReachInv'
    BY <2>7, Undisturbed DEF RegisterDeadline, stream, readers, host, names, history,
      TypeInv, TypeOK, ReaderStates
  <2>8. ASSUME ReplayEmit PROVE ReachInv'
    BY <2>8, Undisturbed DEF ReplayEmit, Emit, shared, stream, readers, host, names,
      TypeInv, TypeOK, ReaderStates
  <2>9. ASSUME ReplayExit PROVE ReachInv'
    <3>0. /\ main = "replayExit" /\ mid \in TaskIds /\ mrun \in Runs
          /\ tasks' = tasks /\ entries' = entries /\ idOf' = idOf
          /\ reader' = reader /\ asked' = asked
          /\ \/ main' = "replay"
             \/ main' = "replayEntry" /\ mid' = mid /\ mrun' = mrun /\ ending[mrun] # None
      BY <2>9 DEF ReplayExit, shared, names, TypeInv, MainBusy
    <3>1. Named'
      BY <3>0 DEF ReachInv, Named, ExitInv
    <3>2. Held'
      BY <3>0 DEF ReachInv, Held, Works, Displaced
    <3>3. Reach'
      BY <3>0 DEF ReachInv, Reach, Inherits
    <3> QED
      BY <3>1, <3>2, <3>3 DEF ReachInv
  <2>10. ASSUME ReplayEntry PROVE ReachInv'
    <3>0. /\ main = "replayEntry" /\ main' = "replaySet" /\ mid \in TaskIds
          /\ mid' = mid /\ mrun' = mrun
          /\ entries' = [entries EXCEPT ![mid] = Nil]
          /\ tasks' = tasks /\ idOf' = idOf /\ reader' = reader /\ asked' = asked
      BY <2>10 DEF ReplayEntry, readers, names, history, TypeInv, MainBusy
    <3>1. Named'
      BY <3>0 DEF ReachInv, Named
    <3>2. Held'
      BY <3>0 DEF ReachInv, Held, Works, Displaced
    <3>3. Reach'
      BY <3>0 DEF ReachInv, Reach, Inherits, TypeInv, TypeOK
    <3> QED
      BY <3>1, <3>2, <3>3 DEF ReachInv
  <2>11. ASSUME ReplaySet PROVE ReachInv'
    <3>0. /\ main = "replaySet" /\ main' = "replay" /\ mid \in TaskIds /\ mrun \in Runs
          /\ tasks' = [tasks EXCEPT ![mid] = Nil] /\ tasks[mid] \in {Nil, mrun}
          /\ reader[mrun] = "done"
          /\ entries' = entries /\ idOf' = idOf /\ reader' = reader /\ asked' = asked
      BY <2>11 DEF ReplaySet, readers, names, history, TypeInv, MainBusy, ReachInv, Named
    <3>1. Named'
      BY <3>0 DEF ReachInv, Named, TypeInv, TypeOK
    <3>2. Held'
      <4> SUFFICES ASSUME NEW q \in Runs, Works(q)', ~asked'[q]
                   PROVE tasks'[idOf'[q]] = q \/ Displaced(q)'
        BY DEF Held
      <4>1. Works(q) /\ ~asked[q] /\ idOf[q] \in TaskIds /\ q # mrun
        BY <3>0 DEF Works, ExitInv, TypeInv, TypeOK
      <4>2. tasks[idOf[q]] = q => tasks'[idOf[q]] = q
        BY <3>0, <4>1, NilAssumption DEF TypeInv, TypeOK
      <4>3. tasks'[idOf[q]] \in {Nil, tasks[idOf[q]]}
        BY <3>0, <4>1 DEF TypeInv, TypeOK
      <4>4. Displaced(q) => Displaced(q)'
        BY <3>0, <4>3, NilAssumption DEF Displaced
      <4> QED
        BY <3>0, <4>1, <4>2, <4>4 DEF ReachInv, Held
    <3>3. Reach'
      BY <3>0 DEF ReachInv, Reach, Inherits, TypeInv, TypeOK
    <3> QED
      BY <3>1, <3>2, <3>3 DEF ReachInv
  <2>12. ASSUME ReplayDone PROVE ReachInv'
    BY <2>12, Undisturbed DEF ReplayDone, shared, stream, readers, host, names, history,
      TypeInv, TypeOK, ReaderStates
  <2>13. ASSUME Joined PROVE ReachInv'
    BY <2>13, Undisturbed DEF Joined, shared, stream, readers, host, names, history,
      TypeInv, TypeOK, ReaderStates
  <2>14. ASSUME NEW i \in TaskIds, SignalPlan(i) PROVE ReachInv'
    BY <2>14, Undisturbed DEF SignalPlan, shared, stream, readers, host, names, history,
      TypeInv, TypeOK, ReaderStates
  <2>15. ASSUME NEW i \in TaskIds, ReplayTake(i) PROVE ReachInv'
    <3>0. /\ main = "replay" /\ tasks' = tasks /\ entries' = entries /\ idOf' = idOf
          /\ reader' = reader /\ asked' = asked
      BY <2>15 DEF ReplayTake, shared, readers, names, history
    <3>1. CASE entries[i] = Nil
      BY <2>15, <3>0, <3>1, Undisturbed DEF ReplayTake
    <3>2. CASE entries[i] # Nil
      <4>0. main' = "replayEmit" /\ mid' = i /\ mrun' = entries[i]
        BY <2>15, <3>2 DEF ReplayTake
      <4>1. Named'
        BY <3>0, <3>2, <4>0 DEF ReachInv, Named, KillInv
      <4>2. Held'
        BY <3>0, <4>0 DEF ReachInv, Held, Works, Displaced
      <4>3. Reach'
        BY <3>0, <4>0 DEF ReachInv, Reach, Inherits
      <4> QED
        BY <4>1, <4>2, <4>3 DEF ReachInv
    <3> QED
      BY <3>1, <3>2
  <2>16. ASSUME Detach PROVE ReachInv'
    BY <2>16, Undisturbed DEF Detach, stream, readers, host, names, history, TypeInv,
      TypeOK, ReaderStates
  <2>17. ASSUME Reattach PROVE ReachInv'
    BY <2>17, Undisturbed DEF Reattach, Ids, stream, readers, host, names, TypeInv, TypeOK,
      ReaderStates
  <2>18. ASSUME Leave PROVE ReachInv'
    BY <2>18, Undisturbed DEF Leave, stream, readers, host, names, history, TypeInv, TypeOK,
      ReaderStates
  <2>19. ASSUME NEW i \in TaskIds, Fire(i) PROVE ReachInv'
    BY <2>19, Undisturbed DEF Fire, Killed, stream, readers, mains, names, history, TypeInv,
      TypeOK, ReaderStates
  <2>20. ASSUME NEW r \in Runs, Closes(r) PROVE ReachInv'
    BY <2>20, Undisturbed DEF Closes, shared, stream, readers, mains, names, history,
      TypeInv, TypeOK, ReaderStates
  <2>21. ASSUME NEW r \in Runs, NEW s \in Statuses, Dies(r, s) PROVE ReachInv'
    BY <2>21, Undisturbed DEF Dies, shared, stream, readers, mains, names, history, TypeInv,
      TypeOK, ReaderStates
  <2>22. ASSUME NEW r \in Runs, ReadBytes(r) PROVE ReachInv'
    <3>1. /\ reader[r] = "read" /\ \A q \in Runs \ {r} : reader'[q] = reader[q]
          /\ UNCHANGED <<tasks, entries, idOf, asked, main, mid, mrun>>
      BY <2>22 DEF ReadBytes, At, DrainDue, shared, mains, names, history, TypeInv, TypeOK
    <3> QED
      BY <3>1, ReaderStep
  <2>23. ASSUME NEW r \in Runs, ReadIdle(r) PROVE ReachInv'
    <3>1. /\ reader[r] = "read" /\ \A q \in Runs \ {r} : reader'[q] = reader[q]
          /\ UNCHANGED <<tasks, entries, idOf, asked, main, mid, mrun>>
      BY <2>23 DEF ReadIdle, At, shared, mains, names, history, TypeInv, TypeOK
    <3> QED
      BY <3>1, ReaderStep
  <2>24. ASSUME NEW r \in Runs, ReadEnded(r) PROVE ReachInv'
    <3>1. /\ reader[r] = "read" /\ \A q \in Runs \ {r} : reader'[q] = reader[q]
          /\ UNCHANGED <<tasks, entries, idOf, asked, main, mid, mrun>>
      BY <2>24 DEF ReadEnded, At, shared, mains, names, history, TypeInv, TypeOK
    <3> QED
      BY <3>1, ReaderStep
  <2>25. ASSUME NEW r \in Runs, FlushLoad(r) PROVE ReachInv'
    <3>1. /\ reader[r] = "load" /\ \A q \in Runs \ {r} : reader'[q] = reader[q]
          /\ UNCHANGED <<tasks, entries, idOf, asked, main, mid, mrun>>
      BY <2>25 DEF FlushLoad, At, shared, mains, names, history, TypeInv, TypeOK
    <3> QED
      BY <3>1, ReaderStep
  <2>26. ASSUME NEW r \in Runs, FlushPush(r) PROVE ReachInv'
    <3>1. /\ reader[r] = "push" /\ \A q \in Runs \ {r} : reader'[q] = reader[q]
          /\ UNCHANGED <<tasks, entries, idOf, asked, main, mid, mrun>>
      BY <2>26 DEF FlushPush, At, shared, mains, names, history, TypeInv, TypeOK
    <3> QED
      BY <3>1, ReaderStep
  <2>27. ASSUME NEW r \in Runs, FlushEmit(r) PROVE ReachInv'
    <3>1. /\ reader[r] = "emit" /\ \A q \in Runs \ {r} : reader'[q] = reader[q]
          /\ UNCHANGED <<tasks, entries, idOf, asked, main, mid, mrun>>
      BY <2>27 DEF FlushEmit, At, Emit, shared, mains, names, TypeInv, TypeOK
    <3> QED
      BY <3>1, ReaderStep
  <2>28. ASSUME NEW r \in Runs, FlushDrain(r) PROVE ReachInv'
    <3>1. /\ reader[r] = "drain" /\ \A q \in Runs \ {r} : reader'[q] = reader[q]
          /\ UNCHANGED <<tasks, entries, idOf, asked, main, mid, mrun>>
      BY <2>28 DEF FlushDrain, At, shared, mains, names, history, TypeInv, TypeOK
    <3> QED
      BY <3>1, ReaderStep
  <2>29. ASSUME NEW r \in Runs, Reap(r) PROVE ReachInv'
    <3>1. /\ reader[r] = "reap" /\ \A q \in Runs \ {r} : reader'[q] = reader[q]
          /\ UNCHANGED <<tasks, entries, idOf, asked, main, mid, mrun>>
      BY <2>29 DEF Reap, At, mains, names, history, TypeInv, TypeOK
    <3> QED
      BY <3>1, ReaderStep
  <2>30. ASSUME NEW r \in Runs, MarkEnded(r) PROVE ReachInv'
    <3>1. /\ reader[r] = "mark" /\ \A q \in Runs \ {r} : reader'[q] = reader[q]
          /\ UNCHANGED <<tasks, entries, idOf, asked, main, mid, mrun>>
      BY <2>30 DEF MarkEnded, At, mains, names, history, TypeInv, TypeOK
    <3> QED
      BY <3>1, ReaderStep
  <2>31. ASSUME NEW r \in Runs, Deliver(r) PROVE ReachInv'
    <3>1. /\ reader[r] = "deliver" /\ \A q \in Runs \ {r} : reader'[q] = reader[q]
          /\ UNCHANGED <<tasks, entries, idOf, asked, main, mid, mrun>>
      BY <2>31 DEF Deliver, At, shared, mains, names, history, TypeInv, TypeOK
    <3> QED
      BY <3>1, ReaderStep
  <2>32. ASSUME NEW r \in Runs, Stash(r) PROVE ReachInv'
    <3>1. /\ reader[r] = "stash" /\ \A q \in Runs \ {r} : reader'[q] = reader[q]
          /\ UNCHANGED <<tasks, entries, idOf, asked, main, mid, mrun>>
      BY <2>32 DEF Stash, At, shared, mains, names, history, TypeInv, TypeOK
    <3> QED
      BY <3>1, ReaderStep
  <2>33. ASSUME NEW r \in Runs, EmitExit(r) PROVE ReachInv'
    <3>1. /\ reader[r] = "exit" /\ \A q \in Runs \ {r} : reader'[q] = reader[q]
          /\ UNCHANGED <<tasks, entries, idOf, asked, main, mid, mrun>>
      BY <2>33 DEF EmitExit, At, Exit, shared, mains, names, TypeInv, TypeOK
    <3> QED
      BY <3>1, ReaderStep
  <2>34. ASSUME NEW r \in Runs, ReleaseEntry(r) PROVE ReachInv'
    <3>0. /\ main # "gone" /\ main' = main /\ mid' = mid /\ mrun' = mrun
          /\ reader[r] = "releaseEntry" /\ reader' = [reader EXCEPT ![r] = "releaseSet"]
          /\ entries' = [entries EXCEPT ![idOf[r]] = Nil]
          /\ tasks' = tasks /\ idOf' = idOf /\ asked' = asked /\ idOf[r] \in TaskIds
      BY <2>34 DEF ReleaseEntry, At, mains, names, history, ExitInv, TypeInv, TypeOK
    <3>1. Named'
      BY <3>0 DEF ReachInv, Named, TypeInv, TypeOK, MainBusy
    <3>2. Held'
      <4>1. \A q \in Runs : Works(q)' => Works(q)
        BY <3>0 DEF Works, TypeInv, TypeOK
      <4>2. \A q \in Runs : Displaced(q) => Displaced(q)'
        BY <3>0 DEF Displaced
      <4> QED
        BY <3>0, <4>1, <4>2 DEF ReachInv, Held
    <3>3. Reach'
      <4> SUFFICES ASSUME NEW j \in TaskIds, tasks[j] # Nil
                   PROVE \/ entries'[j] = tasks[j]
                         \/ main \in {"adopt", "replaySet"} /\ mid = j
                         \/ reader'[tasks[j]] = "releaseSet"
                         \/ Inherits(tasks[j])
        BY <3>0 DEF Reach, Inherits
      <4>1. tasks[j] \in Runs /\ idOf[tasks[j]] = j
        BY DEF ReachInv, Named, TypeInv, TypeOK
      <4>2. CASE j # idOf[r] \/ tasks[j] = r
        BY <3>0, <4>1, <4>2 DEF ReachInv, Reach, TypeInv, TypeOK
      <4>3. CASE j = idOf[r] /\ tasks[j] # r
        <5>1. asked[r] \/ Displaced(r)
          BY <3>0, <4>3 DEF ReachInv, Held, Works
        <5>2. Inherits(tasks[j])
          BY <4>1, <4>3, <5>1 DEF Displaced, Inherits
        <5> QED
          BY <5>2
      <4> QED
        BY <4>2, <4>3
    <3> QED
      BY <3>1, <3>2, <3>3 DEF ReachInv
  <2>35. ASSUME NEW r \in Runs, ReleaseSet(r) PROVE ReachInv'
    <3>0. /\ main # "gone" /\ main' = main /\ mid' = mid /\ mrun' = mrun
          /\ reader[r] = "releaseSet" /\ reader' = [reader EXCEPT ![r] = "done"]
          /\ tasks' = [tasks EXCEPT ![idOf[r]] = Nil]
          /\ entries' = entries /\ idOf' = idOf /\ asked' = asked /\ idOf[r] \in TaskIds
      BY <2>35 DEF ReleaseSet, At, mains, names, history, ExitInv, TypeInv, TypeOK
    <3>1. Named'
      BY <3>0 DEF ReachInv, Named, TypeInv, TypeOK, MainBusy
    <3>2. Held'
      <4> SUFFICES ASSUME NEW q \in Runs, Works(q)', ~asked'[q]
                   PROVE tasks'[idOf'[q]] = q \/ Displaced(q)'
        BY DEF Held
      <4>1. Works(q) /\ ~asked[q] /\ q # r
        BY <3>0 DEF Works, ExitInv, TypeInv, TypeOK
      <4>2. idOf[q] \in TaskIds
        BY <4>1 DEF Works, ExitInv, TypeInv, TypeOK
      <4>3. tasks'[idOf[q]] \in {Nil, tasks[idOf[q]]}
        BY <3>0, <4>2 DEF TypeInv, TypeOK
      <4>4. CASE Displaced(q)
        BY <3>0, <4>3, <4>4, NilAssumption DEF Displaced
      <4>5. CASE tasks[idOf[q]] = q /\ idOf[q] # idOf[r]
        BY <3>0, <4>2, <4>5 DEF TypeInv, TypeOK
      <4>6. CASE tasks[idOf[q]] = q /\ idOf[q] = idOf[r]
        <5>1. tasks'[idOf[q]] = Nil
          BY <3>0, <4>6 DEF TypeInv, TypeOK
        <5>2. asked[r] \/ Displaced(r)
          BY <3>0, <4>1, <4>6 DEF ReachInv, Held, Works
        <5>3. \E p \in Runs \ {q} : idOf[p] = idOf[q] /\ asked[p]
          BY <4>1, <4>6, <5>2 DEF Displaced
        <5> QED
          BY <3>0, <5>1, <5>3, NilAssumption DEF Displaced
      <4> QED
        BY <3>0, <4>1, <4>4, <4>5, <4>6 DEF ReachInv, Held
    <3>3. Reach'
      <4> SUFFICES ASSUME NEW j \in TaskIds, j # idOf[r], tasks[j] # Nil
                   PROVE \/ entries[j] = tasks[j]
                         \/ main \in {"adopt", "replaySet"} /\ mid = j
                         \/ reader'[tasks[j]] = "releaseSet"
                         \/ Inherits(tasks[j])
        BY <3>0 DEF Reach, Inherits, TypeInv, TypeOK
      <4>1. tasks[j] \in Runs /\ tasks[j] # r
        BY DEF ReachInv, Named, TypeInv, TypeOK
      <4> QED
        BY <3>0, <4>1 DEF ReachInv, Reach, TypeInv, TypeOK
    <3> QED
      BY <3>1, <3>2, <3>3 DEF ReachInv
  <2>36. CASE UNCHANGED vars
    BY <2>36, Undisturbed DEF vars, shared, stream, readers, host, mains, names, history
  <2> QED
    BY <2>1, <2>2, <2>3, <2>4, <2>5, <2>6, <2>7, <2>8, <2>9, <2>10, <2>11, <2>12, <2>13,
      <2>14, <2>15, <2>16, <2>17, <2>18, <2>19, <2>20, <2>21, <2>22, <2>23, <2>24, <2>25,
      <2>26, <2>27, <2>28, <2>29, <2>30, <2>31, <2>32, <2>33, <2>34, <2>35, <2>36
    DEF Next, Request, Dispatch, Connection, Reader, Process
<1> QED
  BY <1>1, <1>2, TypeInvHolds, KillInvHolds, ExitInvHolds, PTL DEF Spec

\* An identity the set holds can be reached, for any number of runs that take it one
\* after the other.
THEOREM IdentitiesAreReachable == Spec => []IdentityReachable
<1>1. TypeInv /\ ReachInv => IdentityReachable
  BY DEF TypeInv, ReachInv, Reach, IdentityReachable
<1> QED
  BY <1>1, TypeInvHolds, ReachInvHolds, PTL

-----------------------------------------------------------------------------
(* What a run retains is bounded                                           *)

\* Nobody else was given the identity of r.
Sole(r) == idOf[r] # Nil => \A q \in Runs \ {r} : idOf[q] # idOf[r]

\* A client has come back, and the replay has not reached r yet.
Replays == {"replay", "replayEmit", "replayExit", "replayEntry", "replaySet"}
Unseen(r) == main \in Replays /\ idOf[r] \in mtodo

\* The most a reader that may go on reading finds retained with nobody there, or adds
\* to what it finds just after a replay; and that with one flush more.
Most == IF MaxHeld < Bound THEN Bound - 1 ELSE MaxHeld
Cap  == Most + MaxHeld

\* The chunker holds less than a chunk, and one flush at most a chunk.
ChunkOf(r) ==
  /\ reader[r] = "read" => kept[r] = cut[r]
  /\ reader[r] \in Flushing => cut[r] - kept[r] <= MaxHeld
  /\ reader[r] \in {"read"} \union Flushing /\ ~final[r] => got[r] - cut[r] < MaxHeld

\* What r retains, and a flush that does not clear the retention is about to. Once a
\* replay has been there, only the rest of the flush it met is retained.
LevelOf(r) ==
  /\ Retained(r) <= Cap + 1
  /\ reader[r] \notin {"emit", "drain"} => Retained(r) <= Cap
  /\ reader[r] \in {"read"} \union Flushing => entries[idOf[r]] = r
  /\ reader[r] = "push" /\ ~snap[r] => cut[r] - freed[r] <= Cap
  /\ reader[r] = "load" /\ ~attached => cut[r] - freed[r] <= Cap
  /\ attached /\ ~Unseen(r) =>
       /\ reader[r] \in {"read", "load"} => Retained(r) <= MaxHeld
       /\ reader[r] = "push" /\ ~snap[r] => cut[r] - freed[r] <= MaxHeld

\* An entry is found under the identity its run was started with.
EntryNamed ==
  /\ \A i \in TaskIds : entries[i] # Nil => idOf[entries[i]] = i
  /\ main \in {"replayEmit", "replayExit", "replayEntry", "replaySet"} => idOf[mrun] = mid

BoundInv ==
  /\ EntryNamed
  /\ \A r \in Runs : ChunkOf(r) /\ (Sole(r) => LevelOf(r))

\* Whatever leaves the readers, their buffers and the entries alone, and nobody comes or
\* goes, leaves the invariant alone.
LEMMA Elsewhere ==
  ASSUME TypeInv, TypeInv', BoundInv,
         UNCHANGED <<stream, reader, snap, final, attached, entries, idOf>>,
         main' \in Replays <=> main \in Replays,
         main' \in Replays => mtodo' = mtodo,
         main' \in {"replayEmit", "replayExit", "replayEntry", "replaySet"} =>
           /\ main \in {"replayEmit", "replayExit", "replayEntry", "replaySet"}
           /\ mid' = mid /\ mrun' = mrun
  PROVE  BoundInv'
<1>1. EntryNamed'
  BY DEF BoundInv, EntryNamed
<1>2. ASSUME NEW r \in Runs PROVE ChunkOf(r)' /\ (Sole(r)' => LevelOf(r)')
  BY DEF BoundInv, ChunkOf, LevelOf, Sole, Unseen, Retained, stream
<1> QED
  BY <1>1, <1>2 DEF BoundInv

\* A step of one reader that keeps its entry is a matter of that run.
LEMMA OneReader ==
  ASSUME TypeInv, TypeInv', BoundInv, NEW r \in Runs,
         UNCHANGED <<attached, entries, idOf, main, mid, mrun, mtodo>>,
         \A q \in Runs \ {r} : UNCHANGED <<got[q], cut[q], kept[q], freed[q], reader[q],
                                           snap[q], final[q]>>,
         ChunkOf(r) => ChunkOf(r)',
         Sole(r) /\ ChunkOf(r) /\ LevelOf(r) => LevelOf(r)'
  PROVE  BoundInv'
<1>1. EntryNamed'
  BY DEF BoundInv, EntryNamed
<1>2. ASSUME NEW q \in Runs \ {r} PROVE ChunkOf(q)' /\ (Sole(q)' => LevelOf(q)')
  BY DEF BoundInv, ChunkOf, LevelOf, Sole, Unseen, Retained
<1>3. ChunkOf(r)' /\ (Sole(r)' => LevelOf(r)')
  BY DEF BoundInv, Sole
<1> QED
  BY <1>1, <1>2, <1>3 DEF BoundInv

\* A reader that may go on finds at most Most retained, and adds at most a flush to it:
\* one action after the other.
LEMMA BoundInvHolds == Spec => []BoundInv
<1>1. Init => BoundInv
  BY BoundsAssumption DEF Init, BoundInv, EntryNamed, ChunkOf, LevelOf, Retained, Cap, Most, Flushing
<1>2. /\ TypeInv /\ TypeInv' /\ KillInv /\ ExitInv /\ StreamInv /\ ReachInv
      /\ BoundInv /\ [Next]_vars
      => BoundInv'
  <2> SUFFICES ASSUME TypeInv, TypeInv', KillInv, ExitInv, StreamInv, ReachInv, BoundInv,
                      [Next]_vars
               PROVE  BoundInv'
    OBVIOUS
  <2>a. /\ Bound \in Nat \ {0} /\ MaxHeld \in Nat \ {0} /\ Most \in Nat /\ Cap = Most + MaxHeld
        /\ Bound <= Most + 1 /\ MaxHeld <= Most
    BY BoundsAssumption DEF Most, Cap
  <2>1. ASSUME NEW w \in Workspaces, Register(w) PROVE BoundInv'
    BY <2>1, Elsewhere DEF Register, stream, readers, mains, names, history, TypeInv,
      TypeOK, Replays
  <2>2. ASSUME NEW w \in Workspaces, CloseWorkspace(w) PROVE BoundInv'
    BY <2>2, Elsewhere DEF CloseWorkspace, Ids, stream, readers, names, TypeInv, TypeOK,
      Replays
  <2>3. ASSUME NEW i \in TaskIds, NEW w \in Workspaces, NEW r \in Runs, RunTask(i, w, r)
       PROVE BoundInv'
    <3>0. /\ UNCHANGED <<stream, reader, snap, final, attached, entries, mtodo>>
          /\ main = "serving" /\ main' = "adopt" /\ idOf[r] = Nil /\ reader[r] = "none"
          /\ idOf' = [idOf EXCEPT ![r] = i]
      BY <2>3 DEF RunTask, readers, ExitInv
    <3>1. EntryNamed'
      BY <3>0, NilAssumption DEF BoundInv, EntryNamed, TypeInv, TypeOK
    <3>2. ASSUME NEW q \in Runs PROVE ChunkOf(q)' /\ (Sole(q)' => LevelOf(q)')
      <4>1. CASE q = r
        <5>1. kept[r] = 0 /\ cut[r] = 0 /\ freed[r] = 0 /\ got[r] = 0
          <6>1. PositionsOf(r)
            BY DEF StreamInv, Positions
          <6>2. kept[r] \in Nat /\ cut[r] \in Nat /\ freed[r] \in Nat /\ got[r] \in Nat
            BY DEF TypeInv, TypeOK
          <6> QED
            BY <3>0, <6>1, <6>2 DEF PositionsOf
        <5> QED
          BY <2>a, <3>0, <4>1, <5>1 DEF ChunkOf, LevelOf, Retained, Flushing, stream
      <4>2. CASE q # r
        <5>1. idOf'[q] = idOf[q] /\ (Sole(q)' => Sole(q))
          BY <3>0, <4>2, NilAssumption DEF Sole, TypeInv, TypeOK
        <5> QED
          BY <3>0, <5>1 DEF BoundInv, ChunkOf, LevelOf, Retained, Unseen, Replays, stream
      <4> QED
        BY <4>1, <4>2
    <3> QED
      BY <3>1, <3>2 DEF BoundInv
  <2>4. ASSUME NEW i \in TaskIds, NEW s \in {"Int", "Term", "Kill"}, Terminate(i, s) PROVE BoundInv'
    BY <2>4, Elsewhere DEF Terminate, Killed, shared, stream, readers, names, TypeInv,
      TypeOK, Replays
  <2>5. ASSUME Restart PROVE BoundInv'
    BY <2>5, Elsewhere DEF Restart, Killed, stream, readers, names, TypeInv, TypeOK,
      Replays
  <2>6. ASSUME Adopt PROVE BoundInv'
    <3>0. /\ UNCHANGED <<stream, snap, final, attached, idOf, mtodo>>
          /\ main = "adopt" /\ main' = "serving" /\ mrun \in Runs /\ mid \in TaskIds
          /\ idOf[mrun] = mid /\ reader[mrun] = "none"
          /\ entries' = [entries EXCEPT ![mid] = mrun]
          /\ reader' = [reader EXCEPT ![mrun] = "read"]
      BY <2>6 DEF Adopt, names, TypeInv, MainBusy, ExitInv, ReachInv, Named
    <3>1. EntryNamed'
      BY <3>0, NilAssumption DEF BoundInv, EntryNamed, TypeInv, TypeOK
    <3>2. ASSUME NEW q \in Runs PROVE ChunkOf(q)' /\ (Sole(q)' => LevelOf(q)')
      <4>1. CASE q = mrun
        <5>1. kept[q] = 0 /\ cut[q] = 0 /\ freed[q] = 0 /\ got[q] = 0
          BY <3>0, <4>1 DEF TypeInv, TypeOK, StreamInv, Positions, PositionsOf
        <5>2. reader'[q] = "read" /\ entries'[idOf'[q]] = q
          BY <3>0, <4>1 DEF TypeInv, TypeOK
        <5> QED
          BY <2>a, <3>0, <5>1, <5>2 DEF ChunkOf, LevelOf, Retained, Flushing, stream
      <4>2. CASE q # mrun
        <5>1. reader'[q] = reader[q] /\ ChunkOf(q)' /\ (Sole(q)' => Sole(q))
          BY <3>0, <4>2 DEF BoundInv, ChunkOf, Sole, stream, TypeInv, TypeOK
        <5>2. Sole(q) /\ idOf[q] # Nil => entries'[idOf[q]] = entries[idOf[q]]
          BY <3>0, <4>2 DEF Sole, TypeInv, TypeOK
        <5>3. idOf[q] = Nil => reader[q] = "none"
          BY DEF ExitInv
        <5> QED
          BY <3>0, <5>1, <5>2, <5>3 DEF BoundInv, LevelOf, Retained, Unseen, Replays, stream,
            Flushing
      <4> QED
        BY <4>1, <4>2
    <3> QED
      BY <3>1, <3>2 DEF BoundInv
  <2>7. ASSUME RegisterDeadline PROVE BoundInv'
    BY <2>7, Elsewhere DEF RegisterDeadline, stream, readers, names, history, TypeInv,
      TypeOK, Replays
  <2>8. ASSUME ReplayEmit PROVE BoundInv'
    BY <2>8, Elsewhere DEF ReplayEmit, Emit, shared, stream, readers, names, TypeInv,
      TypeOK, Replays
  <2>9. ASSUME ReplayExit PROVE BoundInv'
    BY <2>9, Elsewhere DEF ReplayExit, Exit, shared, stream, names, TypeInv, TypeOK,
      Replays
  <2>10. ASSUME ReplayEntry PROVE BoundInv'
    <3>0. /\ UNCHANGED <<stream, snap, final, reader, attached, idOf, mtodo, mid, mrun>>
          /\ main = "replayEntry" /\ main' = "replaySet" /\ mid \in TaskIds /\ mrun \in Runs
          /\ idOf[mrun] = mid /\ reader[mrun] = "done"
          /\ entries' = [entries EXCEPT ![mid] = Nil]
      BY <2>10 DEF ReplayEntry, readers, names, TypeInv, MainBusy, BoundInv, EntryNamed,
        ReachInv, Named
    <3>1. EntryNamed'
      BY <3>0 DEF BoundInv, EntryNamed, TypeInv, TypeOK
    <3>2. ASSUME NEW q \in Runs PROVE ChunkOf(q)' /\ (Sole(q)' => LevelOf(q)')
      <4>1. Sole(q) /\ reader[q] \in {"read"} \union Flushing => entries'[idOf[q]] = entries[idOf[q]]
        BY ZenonT(40), <3>0 DEF Sole, TypeInv, TypeOK, Flushing, ExitInv
      <4> QED
        BY <3>0, <4>1 DEF BoundInv, ChunkOf, LevelOf, Sole, Retained, Unseen, Replays, stream
    <3> QED
      BY <3>1, <3>2 DEF BoundInv
  <2>11. ASSUME ReplaySet PROVE BoundInv'
    BY <2>11, Elsewhere DEF ReplaySet, stream, readers, names, history, TypeInv, TypeOK,
      Replays
  <2>12. ASSUME ReplayDone PROVE BoundInv'
    <3>0. /\ UNCHANGED <<stream, reader, snap, final, attached, entries, idOf, mtodo>>
          /\ main' = "serving" /\ mtodo = {}
      BY <2>12 DEF ReplayDone, shared, readers, names
    <3>1. EntryNamed'
      BY <3>0 DEF BoundInv, EntryNamed
    <3>2. ASSUME NEW q \in Runs PROVE ChunkOf(q)' /\ (Sole(q)' => LevelOf(q)')
      BY <3>0 DEF BoundInv, ChunkOf, LevelOf, Sole, Retained, Unseen, stream
    <3> QED
      BY <3>1, <3>2 DEF BoundInv
  <2>13. ASSUME Joined PROVE BoundInv'
    BY <2>13, Elsewhere DEF Joined, shared, stream, readers, names, history, TypeInv,
      TypeOK, Replays
  <2>14. ASSUME NEW i \in TaskIds, SignalPlan(i) PROVE BoundInv'
    BY <2>14, Elsewhere DEF SignalPlan, shared, stream, readers, names, history, TypeInv,
      TypeOK, Replays
  <2>15. ASSUME NEW i \in TaskIds, ReplayTake(i) PROVE BoundInv'
    <3>0. /\ UNCHANGED <<got, cut, kept, reader, snap, final, attached, entries, idOf>>
          /\ main = "replay" /\ main' \in {"replay", "replayEmit"} /\ mtodo' = mtodo \ {i}
          /\ main' = "replayEmit" => entries[i] # Nil /\ mid' = i /\ mrun' = entries[i]
          /\ freed' = IF entries[i] = Nil THEN freed
                      ELSE [freed EXCEPT ![entries[i]] = kept[entries[i]]]
      BY <2>15 DEF ReplayTake, shared, readers, names
    <3>1. EntryNamed'
      BY <3>0 DEF BoundInv, EntryNamed
    <3>2. ASSUME NEW q \in Runs PROVE ChunkOf(q)'
      BY <3>0 DEF BoundInv, ChunkOf
    <3>3. ASSUME NEW q \in Runs, Sole(q)' PROVE LevelOf(q)'
      <4>0. Sole(q) /\ LevelOf(q) /\ ChunkOf(q)
        BY <3>0, <3>3 DEF BoundInv, Sole
      <4>n. /\ cut[q] \in Nat /\ kept[q] \in Nat /\ freed[q] \in Nat
            /\ freed[q] <= kept[q] /\ kept[q] <= cut[q]
        BY DEF TypeInv, TypeOK, StreamInv, Positions, PositionsOf
      <4>1. CASE entries[i] = q
        <5>1. freed'[q] = kept[q]
          BY <3>0, <4>1, NilAssumption DEF TypeInv, TypeOK
        <5>2. reader[q] = "push" => cut[q] - kept[q] <= MaxHeld
          BY <4>0 DEF ChunkOf, Flushing
        <5> QED
          BY <2>a, <3>0, <4>0, <4>n, <5>1, <5>2 DEF LevelOf, Retained
      <4>2. CASE entries[i] # q
        <5>1. freed'[q] = freed[q]
          BY <3>0, <4>2 DEF TypeInv, TypeOK
        <5>2. reader[q] \in {"read"} \union Flushing => (Unseen(q)' <=> Unseen(q))
          BY <3>0, <4>0, <4>2 DEF LevelOf, Unseen, Replays
        <5> QED
          BY <3>0, <4>0, <5>1, <5>2 DEF LevelOf, Retained, Flushing
      <4> QED
        BY <4>1, <4>2
    <3> QED
      BY <3>1, <3>2, <3>3 DEF BoundInv
  <2>16. ASSUME Detach PROVE BoundInv'
    <3>0. /\ UNCHANGED <<stream, reader, snap, final, entries, idOf, mtodo>>
          /\ main = "serving" /\ main' = "away" /\ ~attached'
      BY <2>16 DEF Detach, readers, names
    <3>1. EntryNamed'
      BY <3>0 DEF BoundInv, EntryNamed
    <3>2. ASSUME NEW q \in Runs PROVE ChunkOf(q)' /\ (Sole(q)' => LevelOf(q)')
      <4>n. /\ cut[q] \in Nat /\ kept[q] \in Nat /\ freed[q] \in Nat
        BY DEF TypeInv, TypeOK
      <4>1. ChunkOf(q) /\ ~Unseen(q)
        BY <3>0 DEF BoundInv, Unseen, Replays
      <4> QED
        BY <2>a, <3>0, <4>n, <4>1 DEF BoundInv, ChunkOf, LevelOf, Sole, Retained, stream, Flushing
    <3> QED
      BY <3>1, <3>2 DEF BoundInv
  <2>17. ASSUME Reattach PROVE BoundInv'
    <3>0. /\ UNCHANGED <<stream, reader, snap, final, entries, idOf>>
          /\ main' = "replay" /\ attached' /\ mtodo' = Ids(entries)
      BY <2>17 DEF Reattach, readers, names
    <3>1. EntryNamed'
      BY <3>0 DEF BoundInv, EntryNamed
    <3>2. ASSUME NEW q \in Runs PROVE ChunkOf(q)' /\ (Sole(q)' => LevelOf(q)')
      <4>1. Sole(q) /\ reader[q] \in {"read"} \union Flushing => Unseen(q)'
        <5>1. reader[q] \in {"read"} \union Flushing => idOf[q] \in TaskIds
          BY DEF ExitInv, Flushing, TypeInv, TypeOK
        <5> QED
          BY <3>0, <5>1, NilAssumption DEF BoundInv, LevelOf, Unseen, Replays, Ids
      <4> QED
        BY <3>0, <4>1 DEF BoundInv, ChunkOf, LevelOf, Sole, Retained, stream, Flushing
    <3> QED
      BY <3>1, <3>2 DEF BoundInv
  <2>18. ASSUME Leave PROVE BoundInv'
    BY <2>18, Elsewhere DEF Leave, stream, readers, names, history, TypeInv, TypeOK,
      Replays
  <2>19. ASSUME NEW i \in TaskIds, Fire(i) PROVE BoundInv'
    BY <2>19, Elsewhere DEF Fire, Killed, stream, readers, mains, names, history, TypeInv,
      TypeOK, Replays
  <2>20. ASSUME NEW r \in Runs, Closes(r) PROVE BoundInv'
    BY <2>20, Elsewhere DEF Closes, shared, stream, readers, mains, names, history,
      TypeInv, TypeOK, Replays
  <2>21. ASSUME NEW r \in Runs, NEW s \in Statuses, Dies(r, s) PROVE BoundInv'
    BY <2>21, Elsewhere DEF Dies, shared, stream, readers, mains, names, history, TypeInv,
      TypeOK, Replays
  <2>22. ASSUME NEW r \in Runs, ReadBytes(r) PROVE BoundInv'
    <3>n. /\ got[r] \in Nat /\ cut[r] \in Nat /\ kept[r] \in Nat /\ freed[r] \in Nat
          /\ freed[r] <= kept[r] /\ kept[r] <= cut[r] /\ cut[r] <= got[r]
      BY DEF TypeInv, TypeOK, StreamInv, Positions, PositionsOf
    <3>0. PICK to \in 0 .. MaxOutput : DrainDue(r, to)
      BY <2>22 DEF ReadBytes
    <3>a. /\ UNCHANGED <<shared, kept, freed, snap, final, mains, names>>
          /\ attached \/ Retained(r) < Bound
          /\ got' = [got EXCEPT ![r] = got[r] + 1] /\ got'[r] = got[r] + 1 /\ to \in Nat
      BY SMTT(30), <2>a, <2>22, <3>n, BoundsAssumption DEF ReadBytes, Paused, Retained, TypeInv, TypeOK
    <3>b. /\ reader[r] = "read" /\ cut[r] <= to /\ to <= got[r] + 1 /\ got[r] + 1 - to < MaxHeld
          /\ cut' = [cut EXCEPT ![r] = to]
          /\ reader' = [reader EXCEPT ![r] = IF to > kept[r] THEN "load" ELSE "read"]
      BY <3>0, <3>a, <3>n DEF DrainDue, At
    <3>1. /\ UNCHANGED <<attached, entries, idOf, main, mid, mrun, mtodo>>
          /\ \A q \in Runs \ {r} : UNCHANGED <<got[q], cut[q], kept[q], freed[q], reader[q],
                                             snap[q], final[q]>>
      BY <3>a, <3>b DEF shared, mains, names, TypeInv, TypeOK
    <3>2. /\ cut'[r] = to /\ reader'[r] = IF to > kept[r] THEN "load" ELSE "read"
          /\ kept'[r] = kept[r] /\ freed'[r] = freed[r] /\ final'[r] = final[r] /\ snap'[r] = snap[r]
      BY <3>a, <3>b DEF TypeInv, TypeOK
    <3>f. ~final[r]
      BY <3>b DEF StreamInv, Positions, PositionsOf
    <3>c. CASE to > kept[r]
      <4>1. reader'[r] = "load"
        BY <3>2, <3>c
      <4>2. ChunkOf(r) => ChunkOf(r)'
        BY <2>a, <3>n, <3>a, <3>b, <3>2, <3>f, <4>1 DEF ChunkOf, Flushing
      <4>3. Sole(r) /\ ChunkOf(r) /\ LevelOf(r) => LevelOf(r)'
        BY <2>a, <3>n, <3>1, <3>a, <3>b, <3>2, <3>f, <4>1 DEF ChunkOf, LevelOf, Retained, Unseen,
          Flushing
      <4> QED
        BY <3>1, <4>2, <4>3, OneReader
    <3>d. CASE ~(to > kept[r])
      <4>1. reader'[r] = "read"
        BY <3>2, <3>d
      <4>2. ChunkOf(r) => ChunkOf(r)'
        BY <2>a, <3>n, <3>a, <3>b, <3>d, <3>2, <3>f, <4>1 DEF ChunkOf, Flushing
      <4>3. Sole(r) /\ ChunkOf(r) /\ LevelOf(r) => LevelOf(r)'
        BY <2>a, <3>n, <3>1, <3>a, <3>b, <3>2, <3>f, <4>1 DEF ChunkOf, LevelOf, Retained, Unseen,
          Flushing
      <4> QED
        BY <3>1, <4>2, <4>3, OneReader
    <3> QED
      BY <3>c, <3>d
  <2>23. ASSUME NEW r \in Runs, ReadIdle(r) PROVE BoundInv'
    <3>n. /\ got[r] \in Nat /\ cut[r] \in Nat /\ kept[r] \in Nat /\ freed[r] \in Nat
          /\ freed[r] <= kept[r] /\ kept[r] <= cut[r] /\ cut[r] <= got[r]
      BY DEF TypeInv, TypeOK, StreamInv, Positions, PositionsOf
    <3>1. /\ UNCHANGED <<attached, entries, idOf, main, mid, mrun, mtodo>>
          /\ reader[r] = "read"
          /\ \A q \in Runs \ {r} : UNCHANGED <<got[q], cut[q], kept[q], freed[q], reader[q],
                                             snap[q], final[q]>>
      BY <2>23 DEF ReadIdle, At, shared, mains, names, TypeInv, TypeOK
    <3>f. ~final[r]
      BY <3>1 DEF StreamInv, Positions, PositionsOf
    <3>2. /\ got'[r] = got[r] /\ cut'[r] = got[r] /\ reader'[r] = "load"
          /\ kept'[r] = kept[r] /\ freed'[r] = freed[r] /\ final'[r] = final[r] /\ snap'[r] = snap[r]
          /\ attached \/ Retained(r) < Bound
      BY <2>a, <2>23, <3>n DEF ReadIdle, At, Paused, Retained, TypeInv, TypeOK
    <3>3. ChunkOf(r) => ChunkOf(r)'
      BY <2>a, <3>n, <3>f, <3>1, <3>2 DEF ChunkOf, Flushing
    <3>4. Sole(r) /\ ChunkOf(r) /\ LevelOf(r) => LevelOf(r)'
      BY <2>a, <3>n, <3>f, <3>1, <3>2 DEF ChunkOf, LevelOf, Retained, Unseen, Flushing
    <3> QED
      BY <3>1, <3>3, <3>4, OneReader
  <2>24. ASSUME NEW r \in Runs, ReadEnded(r) PROVE BoundInv'
    <3>n. /\ got[r] \in Nat /\ cut[r] \in Nat /\ kept[r] \in Nat /\ freed[r] \in Nat
          /\ freed[r] <= kept[r] /\ kept[r] <= cut[r] /\ cut[r] <= got[r]
      BY DEF TypeInv, TypeOK, StreamInv, Positions, PositionsOf
    <3>1. /\ UNCHANGED <<attached, entries, idOf, main, mid, mrun, mtodo>>
          /\ reader[r] = "read"
          /\ \A q \in Runs \ {r} : UNCHANGED <<got[q], cut[q], kept[q], freed[q], reader[q],
                                             snap[q], final[q]>>
      BY <2>24 DEF ReadEnded, At, shared, mains, names, TypeInv, TypeOK
    <3>f. ~final[r]
      BY <3>1 DEF StreamInv, Positions, PositionsOf
    <3>2. /\ got'[r] = got[r] /\ cut'[r] = got[r] /\ reader'[r] = "load" /\ final'[r]
          /\ kept'[r] = kept[r] /\ freed'[r] = freed[r] /\ snap'[r] = snap[r]
          /\ attached \/ Retained(r) < Bound
      BY <2>a, <2>24, <3>n DEF ReadEnded, At, Paused, Retained, TypeInv, TypeOK
    <3>3. ChunkOf(r) => ChunkOf(r)'
      BY <2>a, <3>n, <3>f, <3>1, <3>2 DEF ChunkOf, Flushing
    <3>4. Sole(r) /\ ChunkOf(r) /\ LevelOf(r) => LevelOf(r)'
      BY <2>a, <3>n, <3>f, <3>1, <3>2 DEF ChunkOf, LevelOf, Retained, Unseen, Flushing
    <3> QED
      BY <3>1, <3>3, <3>4, OneReader
  <2>25. ASSUME NEW r \in Runs, FlushLoad(r) PROVE BoundInv'
    <3>n. /\ got[r] \in Nat /\ cut[r] \in Nat /\ kept[r] \in Nat /\ freed[r] \in Nat
          /\ freed[r] <= kept[r] /\ kept[r] <= cut[r] /\ cut[r] <= got[r]
      BY DEF TypeInv, TypeOK, StreamInv, Positions, PositionsOf
    <3>1. /\ UNCHANGED <<attached, entries, idOf, main, mid, mrun, mtodo>>
          /\ reader[r] = "load"
          /\ \A q \in Runs \ {r} : UNCHANGED <<got[q], cut[q], kept[q], freed[q], reader[q],
                                             snap[q], final[q]>>
      BY <2>25 DEF FlushLoad, At, shared, stream, mains, names, TypeInv, TypeOK
    <3>2. /\ UNCHANGED <<got[r], cut[r], kept[r], freed[r], final[r]>>
          /\ reader'[r] \in {"push", "reap", "read"}
          /\ reader'[r] # "push" => kept[r] = cut[r]
          /\ reader'[r] = "read" => ~final[r]
          /\ snap'[r] = attached
      BY <2>25, <3>n DEF FlushLoad, At, AfterChunk, stream, TypeInv, TypeOK
    <3>3. ChunkOf(r) => ChunkOf(r)'
      BY <2>a, <3>n, <3>1, <3>2 DEF ChunkOf, Flushing
    <3>4. Sole(r) /\ ChunkOf(r) /\ LevelOf(r) => LevelOf(r)'
      BY <2>a, <3>n, <3>1, <3>2 DEF ChunkOf, LevelOf, Retained, Unseen, Flushing
    <3> QED
      BY <3>1, <3>3, <3>4, OneReader
  <2>26. ASSUME NEW r \in Runs, FlushPush(r) PROVE BoundInv'
    <3>n. /\ got[r] \in Nat /\ cut[r] \in Nat /\ kept[r] \in Nat /\ freed[r] \in Nat
          /\ freed[r] <= kept[r] /\ kept[r] <= cut[r] /\ cut[r] <= got[r]
      BY DEF TypeInv, TypeOK, StreamInv, Positions, PositionsOf
    <3>1. /\ UNCHANGED <<attached, entries, idOf, main, mid, mrun, mtodo>>
          /\ reader[r] = "push"
          /\ \A q \in Runs \ {r} : UNCHANGED <<got[q], cut[q], kept[q], freed[q], reader[q],
                                             snap[q], final[q]>>
      BY <2>26 DEF FlushPush, At, shared, mains, names, TypeInv, TypeOK
    <3>2. /\ UNCHANGED <<got[r], cut[r], freed[r], final[r], snap[r]>>
          /\ kept'[r] = kept[r] + 1 /\ kept[r] < cut[r]
          /\ snap[r] => reader'[r] = "emit"
          /\ ~snap[r] => reader'[r] \in {"push", "reap", "read"}
          /\ reader'[r] \in {"reap", "read"} => kept'[r] = cut[r]
          /\ reader'[r] = "read" => ~final[r]
      BY <2>26, <3>n DEF FlushPush, At, AfterChunk, TypeInv, TypeOK, StreamInv, Positions, PositionsOf
    <3>3. ChunkOf(r) => ChunkOf(r)'
      BY <2>a, <3>n, <3>1, <3>2 DEF ChunkOf, Flushing
    <3>4. Sole(r) /\ ChunkOf(r) /\ LevelOf(r) => LevelOf(r)'
      BY <2>a, <3>n, <3>1, <3>2 DEF ChunkOf, LevelOf, Retained, Unseen, Flushing
    <3> QED
      BY <3>1, <3>3, <3>4, OneReader
  <2>27. ASSUME NEW r \in Runs, FlushEmit(r) PROVE BoundInv'
    <3>n. /\ got[r] \in Nat /\ cut[r] \in Nat /\ kept[r] \in Nat /\ freed[r] \in Nat
          /\ freed[r] <= kept[r] /\ kept[r] <= cut[r] /\ cut[r] <= got[r]
      BY DEF TypeInv, TypeOK, StreamInv, Positions, PositionsOf
    <3>1. /\ UNCHANGED <<attached, entries, idOf, main, mid, mrun, mtodo>>
          /\ reader[r] = "emit"
          /\ \A q \in Runs \ {r} : UNCHANGED <<got[q], cut[q], kept[q], freed[q], reader[q],
                                             snap[q], final[q]>>
      BY <2>27 DEF FlushEmit, At, Emit, shared, stream, mains, names, TypeInv, TypeOK
    <3>2. UNCHANGED <<got[r], cut[r], kept[r], freed[r], final[r], snap[r]>> /\ reader'[r] = "drain"
      BY <2>27 DEF FlushEmit, At, Emit, stream, TypeInv, TypeOK
    <3>3. ChunkOf(r) => ChunkOf(r)'
      BY <2>a, <3>n, <3>1, <3>2 DEF ChunkOf, Flushing
    <3>4. Sole(r) /\ ChunkOf(r) /\ LevelOf(r) => LevelOf(r)'
      BY <2>a, <3>n, <3>1, <3>2 DEF ChunkOf, LevelOf, Retained, Unseen, Flushing
    <3> QED
      BY <3>1, <3>3, <3>4, OneReader
  <2>28. ASSUME NEW r \in Runs, FlushDrain(r) PROVE BoundInv'
    <3>n. /\ got[r] \in Nat /\ cut[r] \in Nat /\ kept[r] \in Nat /\ freed[r] \in Nat
          /\ freed[r] <= kept[r] /\ kept[r] <= cut[r] /\ cut[r] <= got[r]
      BY DEF TypeInv, TypeOK, StreamInv, Positions, PositionsOf
    <3>1. /\ UNCHANGED <<attached, entries, idOf, main, mid, mrun, mtodo>>
          /\ reader[r] = "drain"
          /\ \A q \in Runs \ {r} : UNCHANGED <<got[q], cut[q], kept[q], freed[q], reader[q],
                                             snap[q], final[q]>>
      BY <2>28 DEF FlushDrain, At, shared, mains, names, TypeInv, TypeOK
    <3>2. /\ UNCHANGED <<got[r], cut[r], kept[r], final[r], snap[r]>>
          /\ freed'[r] = kept[r]
          /\ reader'[r] \in {"push", "reap", "read"}
          /\ reader'[r] \in {"reap", "read"} => kept[r] = cut[r]
          /\ reader'[r] = "read" => ~final[r]
      BY <2>28, <3>n DEF FlushDrain, At, AfterChunk, TypeInv, TypeOK
    <3>3. ChunkOf(r) => ChunkOf(r)'
      BY <2>a, <3>n, <3>1, <3>2 DEF ChunkOf, Flushing
    <3>4. Sole(r) /\ ChunkOf(r) /\ LevelOf(r) => LevelOf(r)'
      BY <2>a, <3>n, <3>1, <3>2 DEF ChunkOf, LevelOf, Retained, Unseen, Flushing
    <3> QED
      BY <3>1, <3>3, <3>4, OneReader
  <2>29. ASSUME NEW r \in Runs, Reap(r) PROVE BoundInv'
    <3>1. /\ UNCHANGED <<attached, entries, idOf, main, mid, mrun, mtodo>>
          /\ reader[r] = "reap"
          /\ \A q \in Runs \ {r} : UNCHANGED <<got[q], cut[q], kept[q], freed[q], reader[q],
                                             snap[q], final[q]>>
      BY <2>29 DEF Reap, At, stream, mains, names, TypeInv, TypeOK
    <3>2. reader'[r] \in Ending /\ UNCHANGED stream
      BY <2>29 DEF Reap, At, TypeInv, TypeOK, Ending
    <3>3. ChunkOf(r)' /\ (LevelOf(r) => LevelOf(r)')
      BY <3>1, <3>2 DEF ChunkOf, LevelOf, Retained, stream, Flushing, Ending
    <3> QED
      BY <3>1, <3>3, OneReader
  <2>30. ASSUME NEW r \in Runs, MarkEnded(r) PROVE BoundInv'
    <3>1. /\ UNCHANGED <<attached, entries, idOf, main, mid, mrun, mtodo>>
          /\ reader[r] = "mark"
          /\ \A q \in Runs \ {r} : UNCHANGED <<got[q], cut[q], kept[q], freed[q], reader[q],
                                             snap[q], final[q]>>
      BY <2>30 DEF MarkEnded, At, stream, mains, names, TypeInv, TypeOK
    <3>2. reader'[r] \in Ending /\ UNCHANGED stream
      BY <2>30 DEF MarkEnded, At, TypeInv, TypeOK, Ending
    <3>3. ChunkOf(r)' /\ (LevelOf(r) => LevelOf(r)')
      BY <3>1, <3>2 DEF ChunkOf, LevelOf, Retained, stream, Flushing, Ending
    <3> QED
      BY <3>1, <3>3, OneReader
  <2>31. ASSUME NEW r \in Runs, Deliver(r) PROVE BoundInv'
    <3>1. /\ UNCHANGED <<attached, entries, idOf, main, mid, mrun, mtodo>>
          /\ reader[r] = "deliver"
          /\ \A q \in Runs \ {r} : UNCHANGED <<got[q], cut[q], kept[q], freed[q], reader[q],
                                             snap[q], final[q]>>
      BY <2>31 DEF Deliver, At, shared, stream, mains, names, TypeInv, TypeOK
    <3>2. reader'[r] \in Ending /\ UNCHANGED stream
      BY <2>31 DEF Deliver, At, TypeInv, TypeOK, Ending
    <3>3. ChunkOf(r)' /\ (LevelOf(r) => LevelOf(r)')
      BY <3>1, <3>2 DEF ChunkOf, LevelOf, Retained, stream, Flushing, Ending
    <3> QED
      BY <3>1, <3>3, OneReader
  <2>32. ASSUME NEW r \in Runs, Stash(r) PROVE BoundInv'
    <3>1. /\ UNCHANGED <<attached, entries, idOf, main, mid, mrun, mtodo>>
          /\ reader[r] = "stash"
          /\ \A q \in Runs \ {r} : UNCHANGED <<got[q], cut[q], kept[q], freed[q], reader[q],
                                             snap[q], final[q]>>
      BY <2>32 DEF Stash, At, shared, stream, mains, names, TypeInv, TypeOK
    <3>2. reader'[r] \in Ending /\ UNCHANGED stream
      BY <2>32 DEF Stash, At, TypeInv, TypeOK, Ending
    <3>3. ChunkOf(r)' /\ (LevelOf(r) => LevelOf(r)')
      BY <3>1, <3>2 DEF ChunkOf, LevelOf, Retained, stream, Flushing, Ending
    <3> QED
      BY <3>1, <3>3, OneReader
  <2>33. ASSUME NEW r \in Runs, EmitExit(r) PROVE BoundInv'
    <3>1. /\ UNCHANGED <<attached, entries, idOf, main, mid, mrun, mtodo>>
          /\ reader[r] = "exit"
          /\ \A q \in Runs \ {r} : UNCHANGED <<got[q], cut[q], kept[q], freed[q], reader[q],
                                             snap[q], final[q]>>
      BY <2>33 DEF EmitExit, At, Exit, shared, stream, mains, names, TypeInv, TypeOK
    <3>2. reader'[r] \in Ending /\ UNCHANGED stream
      BY <2>33 DEF EmitExit, At, Exit, TypeInv, TypeOK, Ending
    <3>3. ChunkOf(r)' /\ (LevelOf(r) => LevelOf(r)')
      BY <3>1, <3>2 DEF ChunkOf, LevelOf, Retained, stream, Flushing, Ending
    <3> QED
      BY <3>1, <3>3, OneReader
  <2>34. ASSUME NEW r \in Runs, ReleaseEntry(r) PROVE BoundInv'
    <3>0. /\ UNCHANGED <<stream, snap, final, attached, idOf, mtodo, main, mid, mrun>>
          /\ reader[r] = "releaseEntry" /\ reader' = [reader EXCEPT ![r] = "releaseSet"]
          /\ entries' = [entries EXCEPT ![idOf[r]] = Nil] /\ idOf[r] \in TaskIds
      BY <2>34 DEF ReleaseEntry, At, mains, names, ExitInv, TypeInv, TypeOK
    <3>1. EntryNamed'
      BY <3>0 DEF BoundInv, EntryNamed, TypeInv, TypeOK
    <3>2. ASSUME NEW q \in Runs PROVE ChunkOf(q)' /\ (Sole(q)' => LevelOf(q)')
      <4>1. CASE q = r
        <5>1. reader'[q] = "releaseSet"
          BY <3>0, <4>1 DEF TypeInv, TypeOK
        <5> QED
          BY <3>0, <4>1, <5>1 DEF BoundInv, ChunkOf, LevelOf, Sole, Retained, stream, Flushing
      <4>2. CASE q # r
        <5>1. reader'[q] = reader[q]
          BY <3>0, <4>2 DEF TypeInv, TypeOK
        <5>2. Sole(q) /\ reader[q] \in {"read"} \union Flushing =>
                entries'[idOf[q]] = entries[idOf[q]]
          BY ZenonT(40), <3>0, <4>2 DEF Sole, ExitInv, Flushing, TypeInv, TypeOK
        <5> QED
          BY <3>0, <5>1, <5>2 DEF BoundInv, ChunkOf, LevelOf, Sole, Retained, Unseen, stream
      <4> QED
        BY <4>1, <4>2
    <3> QED
      BY <3>1, <3>2 DEF BoundInv
  <2>35. ASSUME NEW r \in Runs, ReleaseSet(r) PROVE BoundInv'
    <3>1. /\ UNCHANGED <<attached, entries, idOf, main, mid, mrun, mtodo>>
          /\ reader[r] = "releaseSet"
          /\ \A q \in Runs \ {r} : UNCHANGED <<got[q], cut[q], kept[q], freed[q], reader[q],
                                             snap[q], final[q]>>
      BY <2>35 DEF ReleaseSet, At, stream, mains, names, TypeInv, TypeOK
    <3>2. reader'[r] \in Ending /\ UNCHANGED stream
      BY <2>35 DEF ReleaseSet, At, TypeInv, TypeOK, Ending
    <3>3. ChunkOf(r)' /\ (LevelOf(r) => LevelOf(r)')
      BY <3>1, <3>2 DEF ChunkOf, LevelOf, Retained, stream, Flushing, Ending
    <3> QED
      BY <3>1, <3>3, OneReader
  <2>36. CASE UNCHANGED vars
    BY <2>36, Elsewhere DEF vars, shared, stream, readers, mains, names
  <2> QED
    BY <2>1, <2>2, <2>3, <2>4, <2>5, <2>6, <2>7, <2>8, <2>9, <2>10, <2>11, <2>12, <2>13,
      <2>14, <2>15, <2>16, <2>17, <2>18, <2>19, <2>20, <2>21, <2>22, <2>23, <2>24, <2>25,
      <2>26, <2>27, <2>28, <2>29, <2>30, <2>31, <2>32, <2>33, <2>34, <2>35, <2>36
    DEF Next, Request, Dispatch, Connection, Reader, Process
<1> QED
  BY <1>1, <1>2, TypeInvHolds, KillInvHolds, ExitInvHolds, StreamInvHolds, ReachInvHolds, PTL
  DEF Spec

\* What one run retains is bounded, whatever clients do and however the constants are
\* chosen.
THEOREM RetentionIsBounded == Spec => []RetentionBounded
<1>1. TypeInv /\ BoundInv => RetentionBounded
  <2> SUFFICES ASSUME TypeInv, BoundInv, NEW r \in Runs, \A q \in Runs \ {r} : idOf[q] # idOf[r]
               PROVE Retained(r) <= (IF MaxHeld < Bound THEN Bound ELSE MaxHeld + 1) + MaxHeld
    BY DEF RetentionBounded
  <2>1. Retained(r) <= Cap + 1 /\ Retained(r) \in Int
    BY DEF BoundInv, LevelOf, Sole, Retained, TypeInv, TypeOK
  <2> QED
    BY <2>1, BoundsAssumption DEF Cap, Most
<1> QED
  BY <1>1, TypeInvHolds, BoundInvHolds, PTL

-----------------------------------------------------------------------------
(* An exit that has not been told is still going to be                     *)

\* The reader has yet to tell the end of its run, or to leave it with the entry.
Telling == {"read", "reap", "mark", "deliver", "stash", "exit"} \union Flushing

\* Nobody is there to be told.
Absent == {"away", "exiting", "gone"}

\* The ending of r is with the entry its identity reaches, until somebody comes; and
\* then the replay is on its way to it, unless it met the reader at work.
Awaited(r) ==
  /\ entries[idOf[r]] = r
  /\ \/ raced[r] \/ main \in Absent \/ Unseen(r)
     \/ main \in {"replayEmit", "replayExit"} /\ mrun = r

\* Who has the exit of r: the start that is about to publish it, its reader, or its entry
\* (which the release of another run under the same identity may take out).
InHand(r) ==
  \/ main = "adopt" /\ mrun = r
  \/ reader[r] \in Telling
  \/ reader[r] = "done" /\ ending[r] # None /\ (Sole(r) => Awaited(r))

\* No exit is forgotten: it has been told, or somebody has it.
NoneForgotten == \A r \in Runs : idOf[r] # Nil /\ exits[r] = 0 => InHand(r)

\* ... a release comes after telling, an ending is stashed with nobody there, and an
\* entry stays until its reader is through.
KeptOf(r) ==
  /\ idOf[r] # Nil /\ exits[r] = 0 => InHand(r)
  /\ reader[r] \in {"releaseEntry", "releaseSet"} => exits[r] = 1
  /\ main \in {"replayEntry", "replaySet"} /\ mrun = r => exits[r] = 1
  /\ reader[r] = "stash" => raced[r] \/ main \in Absent
  /\ Sole(r) /\ reader[r] \in Telling => entries[idOf[r]] = r

KeptInv ==
  /\ ~attached => main \in Absent
  /\ \A r \in Runs : KeptOf(r)

\* Whatever leaves the readers, the entries and the exits alone, and neither ends an
\* absence nor a replay, leaves the invariant alone.
LEMMA NotHere ==
  ASSUME TypeInv, TypeInv', KeptInv,
         UNCHANGED <<entries, idOf, reader, exits, ending, raced>>,
         ~attached' => main' \in Absent,
         main \in Absent => main' \in Absent,
         main = "adopt" => main' = "adopt" /\ mrun' = mrun,
         main' \in Replays <=> main \in Replays,
         main \in Replays => mtodo' = mtodo,
         main \in {"replayEmit", "replayExit"} =>
           main' \in {"replayEmit", "replayExit"} /\ mrun' = mrun,
         main' \in {"replayEntry", "replaySet"} =>
           main \in {"replayEntry", "replaySet"} /\ mrun' = mrun
  PROVE  KeptInv'
<1>1. ASSUME NEW r \in Runs PROVE KeptOf(r)'
  BY DEF KeptInv, KeptOf, InHand, Awaited, Sole, Unseen
<1> QED
  BY <1>1 DEF KeptInv

\* So does a reader that goes on, as long as it stashes with nobody there only.
LEMMA GoesOn ==
  ASSUME TypeInv, TypeInv', KeptInv, NEW r \in Runs, NEW s \in Telling,
         UNCHANGED <<attached, entries, idOf, exits, ending, raced, main, mrun, mtodo>>,
         reader[r] \in Telling, reader' = [reader EXCEPT ![r] = s],
         s = "stash" => ~attached
  PROVE  KeptInv'
<1>1. reader \in [Runs -> ReaderStates]
  BY DEF TypeInv, TypeOK
<1>2. KeptOf(r)'
  BY <1>1 DEF KeptInv, KeptOf, InHand, Sole, Telling, Flushing
<1>3. ASSUME NEW q \in Runs \ {r} PROVE KeptOf(q)'
  BY <1>1 DEF KeptInv, KeptOf, InHand, Awaited, Sole, Unseen
<1> QED
  BY <1>2, <1>3 DEF KeptInv

\* From the start to the telling, through the stash and the replay: one action after the
\* other.
LEMMA KeptInvHolds == Spec => []KeptInv
<1>1. Init => KeptInv
  BY NilAssumption DEF Init, KeptInv, KeptOf, Sole, Telling, Flushing
<1>2. /\ TypeInv /\ TypeInv' /\ ExitInv /\ ReachInv /\ BoundInv /\ KeptInv /\ [Next]_vars
      => KeptInv'
  <2> SUFFICES ASSUME TypeInv, TypeInv', ExitInv, ReachInv, BoundInv, KeptInv, [Next]_vars
               PROVE  KeptInv'
    OBVIOUS
  <2>1. ASSUME NEW w \in Workspaces, Register(w) PROVE KeptInv'
    BY <2>1, NotHere DEF Register, stream, readers, mains, names, history, Absent,
      Replays, TypeInv, TypeOK, KeptInv
  <2>2. ASSUME NEW w \in Workspaces, CloseWorkspace(w) PROVE KeptInv'
    BY <2>2, NotHere DEF CloseWorkspace, Ids, stream, readers, names, Absent, Replays,
      TypeInv, TypeOK, KeptInv
  <2>3. ASSUME NEW i \in TaskIds, NEW w \in Workspaces, NEW r \in Runs, RunTask(i, w, r)
       PROVE KeptInv'
    <3>0. /\ UNCHANGED <<entries, reader, exits, ending, raced, attached>>
          /\ main = "serving" /\ main' = "adopt" /\ mrun' = r
          /\ idOf[r] = Nil /\ reader[r] = "none" /\ idOf' = [idOf EXCEPT ![r] = i]
      BY <2>3 DEF RunTask, readers, history, ExitInv
    <3>1. KeptOf(r)'
      BY <3>0 DEF KeptOf, InHand, Telling, Flushing
    <3>2. ASSUME NEW q \in Runs \ {r} PROVE KeptOf(q)'
      <4>1. idOf'[q] = idOf[q] /\ (Sole(q)' => Sole(q))
        BY <3>0, NilAssumption DEF Sole, TypeInv, TypeOK
      <4> QED
        BY <3>0, <4>1 DEF KeptInv, KeptOf, InHand, Awaited, Unseen, Absent, Replays
    <3> QED
      BY <3>0, <3>1, <3>2 DEF KeptInv, Absent
  <2>4. ASSUME NEW i \in TaskIds, NEW s \in {"Int", "Term", "Kill"}, Terminate(i, s)
       PROVE KeptInv'
    BY <2>4, NotHere DEF Terminate, Killed, shared, stream, readers, names, Absent,
      Replays, TypeInv, TypeOK, KeptInv
  <2>5. ASSUME Restart PROVE KeptInv'
    BY <2>5, NotHere DEF Restart, Killed, stream, readers, names, Absent, Replays,
      TypeInv, TypeOK, KeptInv
  <2>6. ASSUME Adopt PROVE KeptInv'
    <3>0. /\ UNCHANGED <<exits, ending, raced, attached, idOf, mtodo>>
          /\ main = "adopt" /\ main' = "serving" /\ mrun \in Runs /\ mid \in TaskIds
          /\ idOf[mrun] = mid
          /\ entries' = [entries EXCEPT ![mid] = mrun]
          /\ reader' = [reader EXCEPT ![mrun] = "read"]
      BY <2>6 DEF Adopt, names, history, TypeInv, MainBusy, ReachInv, Named
    <3>1. PICK r \in Runs : r = mrun
      BY <3>0
    <3>2. KeptOf(r)'
      BY <3>0, <3>1 DEF KeptOf, InHand, Telling, TypeInv, TypeOK
    <3>3. ASSUME NEW q \in Runs \ {r} PROVE KeptOf(q)'
      <4>1. reader'[q] = reader[q]
        BY <3>0, <3>1 DEF TypeInv, TypeOK
      <4>2. Sole(q) /\ idOf[q] # Nil => entries'[idOf[q]] = entries[idOf[q]]
        BY <3>0, <3>1 DEF Sole, TypeInv, TypeOK
      <4>3. idOf[q] = Nil => reader[q] = "none"
        BY DEF ExitInv
      <4> QED
        BY <3>0, <3>1, <4>1, <4>2, <4>3 DEF KeptInv, KeptOf, InHand, Awaited, Sole, Unseen, Absent,
          Replays, Telling, Flushing
    <3> QED
      BY <3>0, <3>1, <3>2, <3>3 DEF KeptInv, Absent
  <2>7. ASSUME RegisterDeadline PROVE KeptInv'
    BY <2>7, NotHere DEF RegisterDeadline, stream, readers, names, history, Absent,
      Replays, TypeInv, TypeOK, KeptInv
  <2>8. ASSUME ReplayEmit PROVE KeptInv'
    BY <2>8, NotHere DEF ReplayEmit, Emit, shared, stream, readers, names, Absent,
      Replays, TypeInv, TypeOK, KeptInv
  <2>9. ASSUME ReplayExit PROVE KeptInv'
    <3>0. /\ UNCHANGED <<entries, idOf, reader, raced, attached, mtodo>>
          /\ main = "replayExit" /\ mrun \in Runs
          /\ ending' = [ending EXCEPT ![mrun] = None]
      BY <2>9 DEF ReplayExit, shared, names, TypeInv, MainBusy
    <3>1. PICK r \in Runs : r = mrun
      BY <3>0
    <3>2. CASE ending[r] = None
      <4>1. UNCHANGED exits /\ main' = "replay" /\ ending' = ending
        BY <2>9, <3>0, <3>1, <3>2 DEF ReplayExit, TypeInv, TypeOK
      <4>2. ASSUME NEW q \in Runs PROVE KeptOf(q)'
        BY <3>0, <3>1, <3>2, <4>1 DEF KeptInv, KeptOf, InHand, Awaited, Sole, Unseen, Absent,
          Replays
      <4> QED
        BY <3>0, <4>1, <4>2 DEF KeptInv, Absent
    <3>3. CASE ending[r] # None
      <4>1. /\ main' = "replayEntry" /\ mrun' = mrun
            /\ exits' = [exits EXCEPT ![r] = exits[r] + 1]
            /\ exits[r] = 0 /\ reader[r] = "done"
        BY <2>9, <3>0, <3>1, <3>3 DEF ReplayExit, Exit, ExitInv
      <4>2. KeptOf(r)'
        BY <3>0, <3>1, <4>1 DEF KeptOf, Telling, Flushing, TypeInv, TypeOK
      <4>3. ASSUME NEW q \in Runs \ {r} PROVE KeptOf(q)'
        <5>1. exits'[q] = exits[q] /\ ending'[q] = ending[q]
          BY <3>0, <3>1, <4>1 DEF TypeInv, TypeOK
        <5> QED
          BY <3>0, <3>1, <4>1, <5>1 DEF KeptInv, KeptOf, InHand, Awaited, Sole, Unseen, Absent,
            Replays
      <4> QED
        BY <3>0, <4>1, <4>2, <4>3 DEF KeptInv, Absent
    <3> QED
      BY <3>2, <3>3
  <2>10. ASSUME ReplayEntry PROVE KeptInv'
    <3>0. /\ UNCHANGED <<reader, exits, ending, raced, attached, idOf, mtodo, mrun>>
          /\ main = "replayEntry" /\ main' = "replaySet" /\ mrun \in Runs
          /\ idOf[mrun] = mid /\ mid \in TaskIds /\ exits[mrun] = 1 /\ reader[mrun] = "done"
          /\ entries' = [entries EXCEPT ![mid] = Nil]
      BY <2>10 DEF ReplayEntry, readers, names, history, TypeInv, MainBusy, BoundInv,
        EntryNamed, ReachInv, Named, KeptInv, KeptOf
    <3>1. ASSUME NEW q \in Runs PROVE KeptOf(q)'
      <4>1. CASE q = mrun
        BY <3>0, <4>1 DEF KeptOf, Telling, Flushing
      <4>2. CASE q # mrun
        <5>1. Sole(q) /\ idOf[q] # Nil => entries'[idOf[q]] = entries[idOf[q]]
          BY <3>0, <4>2 DEF Sole, TypeInv, TypeOK
        <5>2. idOf[q] = Nil => reader[q] = "none"
          BY DEF ExitInv
        <5> QED
          BY <3>0, <4>2, <5>1, <5>2 DEF KeptInv, KeptOf, InHand, Awaited, Sole, Unseen, Absent,
            Replays, Telling, Flushing
      <4> QED
        BY <4>1, <4>2
    <3> QED
      BY <3>0, <3>1 DEF KeptInv, Absent
  <2>11. ASSUME ReplaySet PROVE KeptInv'
    BY <2>11, NotHere DEF ReplaySet, stream, readers, names, history, Absent, Replays,
      TypeInv, TypeOK, KeptInv
  <2>12. ASSUME ReplayDone PROVE KeptInv'
    <3>0. /\ UNCHANGED <<entries, idOf, reader, exits, ending, raced, attached>>
          /\ main = "replay" /\ main' = "serving" /\ mtodo = {}
      BY <2>12 DEF ReplayDone, shared, readers, names, history
    <3>1. ASSUME NEW q \in Runs PROVE KeptOf(q)'
      BY <3>0 DEF KeptInv, KeptOf, InHand, Awaited, Sole, Unseen, Absent
    <3> QED
      BY <3>0, <3>1 DEF KeptInv, Absent
  <2>13. ASSUME Joined PROVE KeptInv'
    BY <2>13, NotHere DEF Joined, shared, stream, readers, names, history, Absent,
      Replays, TypeInv, TypeOK, KeptInv
  <2>14. ASSUME NEW i \in TaskIds, SignalPlan(i) PROVE KeptInv'
    BY <2>14, NotHere DEF SignalPlan, shared, stream, readers, names, history, Absent,
      Replays, TypeInv, TypeOK, KeptInv
  <2>15. ASSUME NEW i \in TaskIds, ReplayTake(i) PROVE KeptInv'
    <3>0. /\ UNCHANGED <<entries, idOf, reader, exits, ending, raced, attached>>
          /\ main = "replay" /\ main' \in {"replay", "replayEmit"} /\ mtodo' = mtodo \ {i}
          /\ entries[i] # Nil => main' = "replayEmit" /\ mrun' = entries[i]
      BY <2>15 DEF ReplayTake, shared, readers, names, history
    <3>1. ASSUME NEW q \in Runs PROVE KeptOf(q)'
      <4>1. Awaited(q) => Awaited(q)'
        <5>1. CASE idOf[q] = i
          BY <3>0, <5>1, NilAssumption DEF Awaited, Unseen, Absent
        <5>2. CASE idOf[q] # i
          BY <3>0, <5>2 DEF Awaited, Unseen, Absent, Replays
        <5> QED
          BY <5>1, <5>2
      <4> QED
        BY <3>0, <4>1 DEF KeptInv, KeptOf, InHand, Sole, Absent
    <3> QED
      BY <3>0, <3>1 DEF KeptInv, Absent
  <2>16. ASSUME Detach PROVE KeptInv'
    BY <2>16, NotHere DEF Detach, stream, readers, names, history, Absent, Replays,
      TypeInv, TypeOK, KeptInv
  <2>17. ASSUME Reattach PROVE KeptInv'
    <3>0. /\ UNCHANGED <<entries, idOf, reader, exits, ending>>
          /\ main = "away" /\ main' = "replay" /\ attached' /\ mtodo' = Ids(entries)
          /\ raced' = [r \in Runs |-> raced[r] \/ reader[r] \notin {"none", "done"}]
      BY <2>17 DEF Reattach, readers, names
    <3>1. ASSUME NEW q \in Runs PROVE KeptOf(q)'
      <4>1. /\ raced[q] => raced'[q]
            /\ reader[q] = "stash" => raced'[q]
        BY <3>0 DEF TypeInv, TypeOK
      <4>2. idOf[q] # Nil /\ Awaited(q) => Awaited(q)'
        BY <3>0, <4>1, NilAssumption DEF Awaited, Unseen, Replays, Ids, TypeInv, TypeOK
      <4> QED
        BY <3>0, <4>1, <4>2 DEF KeptInv, KeptOf, InHand, Sole, Absent
    <3> QED
      BY <3>0, <3>1 DEF KeptInv
  <2>18. ASSUME Leave PROVE KeptInv'
    BY <2>18, NotHere DEF Leave, stream, readers, names, history, Absent, Replays,
      TypeInv, TypeOK, KeptInv
  <2>19. ASSUME NEW i \in TaskIds, Fire(i) PROVE KeptInv'
    BY <2>19, NotHere DEF Fire, stream, readers, mains, names, history, Absent, Replays,
      TypeInv, TypeOK, KeptInv
  <2>20. ASSUME NEW r \in Runs, Closes(r) PROVE KeptInv'
    BY <2>20, NotHere DEF Closes, shared, stream, readers, mains, names, history, Absent,
      Replays, TypeInv, TypeOK, KeptInv
  <2>21. ASSUME NEW r \in Runs, NEW s \in Statuses, Dies(r, s) PROVE KeptInv'
    BY <2>21, NotHere DEF Dies, shared, stream, readers, mains, names, history, Absent,
      Replays, TypeInv, TypeOK, KeptInv
  <2>22. ASSUME NEW r \in Runs, ReadBytes(r) PROVE KeptInv'
    <3>1. /\ UNCHANGED <<attached, entries, idOf, exits, ending, raced, main, mrun, mtodo>>
          /\ reader[r] \in Telling
          /\ \E s \in Telling : s # "stash" /\ reader' = [reader EXCEPT ![r] = s]
      BY <2>22 DEF ReadBytes, At, DrainDue, shared, mains, names, history, Telling, Flushing
    <3> QED
      BY <3>1, GoesOn
  <2>23. ASSUME NEW r \in Runs, ReadIdle(r) PROVE KeptInv'
    <3>1. /\ UNCHANGED <<attached, entries, idOf, exits, ending, raced, main, mrun, mtodo>>
          /\ reader[r] \in Telling
          /\ \E s \in Telling : s # "stash" /\ reader' = [reader EXCEPT ![r] = s]
      BY <2>23 DEF ReadIdle, At, shared, mains, names, history, Telling, Flushing
    <3> QED
      BY <3>1, GoesOn
  <2>24. ASSUME NEW r \in Runs, ReadEnded(r) PROVE KeptInv'
    <3>1. /\ UNCHANGED <<attached, entries, idOf, exits, ending, raced, main, mrun, mtodo>>
          /\ reader[r] \in Telling
          /\ \E s \in Telling : s # "stash" /\ reader' = [reader EXCEPT ![r] = s]
      BY <2>24 DEF ReadEnded, At, shared, mains, names, history, Telling, Flushing
    <3> QED
      BY <3>1, GoesOn
  <2>25. ASSUME NEW r \in Runs, FlushLoad(r) PROVE KeptInv'
    <3>1. /\ UNCHANGED <<attached, entries, idOf, exits, ending, raced, main, mrun, mtodo>>
          /\ reader[r] \in Telling
          /\ \E s \in Telling : s # "stash" /\ reader' = [reader EXCEPT ![r] = s]
      BY <2>25 DEF FlushLoad, At, AfterChunk, shared, mains, names, history, Telling, Flushing
    <3> QED
      BY <3>1, GoesOn
  <2>26. ASSUME NEW r \in Runs, FlushPush(r) PROVE KeptInv'
    <3>1. /\ UNCHANGED <<attached, entries, idOf, exits, ending, raced, main, mrun, mtodo>>
          /\ reader[r] \in Telling
          /\ \E s \in Telling : s # "stash" /\ reader' = [reader EXCEPT ![r] = s]
      BY <2>26 DEF FlushPush, At, AfterChunk, shared, mains, names, history, Telling, Flushing
    <3> QED
      BY <3>1, GoesOn
  <2>27. ASSUME NEW r \in Runs, FlushEmit(r) PROVE KeptInv'
    <3>1. /\ UNCHANGED <<attached, entries, idOf, exits, ending, raced, main, mrun, mtodo>>
          /\ reader[r] \in Telling
          /\ \E s \in Telling : s # "stash" /\ reader' = [reader EXCEPT ![r] = s]
      BY <2>27 DEF FlushEmit, At, Emit, shared, mains, names, history, Telling, Flushing
    <3> QED
      BY <3>1, GoesOn
  <2>28. ASSUME NEW r \in Runs, FlushDrain(r) PROVE KeptInv'
    <3>1. /\ UNCHANGED <<attached, entries, idOf, exits, ending, raced, main, mrun, mtodo>>
          /\ reader[r] \in Telling
          /\ \E s \in Telling : s # "stash" /\ reader' = [reader EXCEPT ![r] = s]
      BY <2>28 DEF FlushDrain, At, AfterChunk, shared, mains, names, history, Telling, Flushing
    <3> QED
      BY <3>1, GoesOn
  <2>29. ASSUME NEW r \in Runs, Reap(r) PROVE KeptInv'
    <3>1. /\ UNCHANGED <<attached, entries, idOf, exits, ending, raced, main, mrun, mtodo>>
          /\ reader[r] \in Telling
          /\ \E s \in Telling : s # "stash" /\ reader' = [reader EXCEPT ![r] = s]
      BY <2>29 DEF Reap, At, shared, mains, names, history, Telling, Flushing
    <3> QED
      BY <3>1, GoesOn
  <2>30. ASSUME NEW r \in Runs, MarkEnded(r) PROVE KeptInv'
    <3>1. /\ UNCHANGED <<attached, entries, idOf, exits, ending, raced, main, mrun, mtodo>>
          /\ reader[r] \in Telling
          /\ \E s \in Telling : s # "stash" /\ reader' = [reader EXCEPT ![r] = s]
      BY <2>30 DEF MarkEnded, At, shared, mains, names, history, Telling, Flushing
    <3> QED
      BY <3>1, GoesOn
  <2>31. ASSUME NEW r \in Runs, Deliver(r) PROVE KeptInv'
    <3>1. /\ UNCHANGED <<attached, entries, idOf, exits, ending, raced, main, mrun, mtodo>>
          /\ reader[r] \in Telling
          /\ \E s \in Telling :
               (s = "stash" => ~attached) /\ reader' = [reader EXCEPT ![r] = s]
      BY <2>31 DEF Deliver, At, shared, mains, names, history, Telling, Flushing
    <3> QED
      BY <3>1, GoesOn
  <2>32. ASSUME NEW r \in Runs, Stash(r) PROVE KeptInv'
    <3>0. /\ UNCHANGED <<attached, entries, idOf, exits, raced, main, mrun, mtodo>>
          /\ reader[r] = "stash" /\ reader' = [reader EXCEPT ![r] = "done"]
          /\ ending' = [ending EXCEPT ![r] = status[r]] /\ status[r] # None
      BY <2>32 DEF Stash, At, shared, mains, names, history, TypeInv, StatusKnown, Statuses,
        None
    <3>1. KeptOf(r)'
      BY <3>0 DEF KeptInv, KeptOf, InHand, Awaited, Sole, Telling, Flushing, TypeInv, TypeOK
    <3>2. ASSUME NEW q \in Runs \ {r} PROVE KeptOf(q)'
      <4>1. reader'[q] = reader[q] /\ ending'[q] = ending[q]
        BY <3>0 DEF TypeInv, TypeOK
      <4> QED
        BY <3>0, <4>1 DEF KeptInv, KeptOf, InHand, Awaited, Sole, Unseen
    <3> QED
      BY <3>0, <3>1, <3>2 DEF KeptInv
  <2>33. ASSUME NEW r \in Runs, EmitExit(r) PROVE KeptInv'
    <3>0. /\ UNCHANGED <<attached, entries, idOf, ending, raced, main, mrun, mtodo>>
          /\ reader[r] = "exit" /\ reader' = [reader EXCEPT ![r] = "releaseEntry"]
          /\ exits' = [exits EXCEPT ![r] = exits[r] + 1] /\ exits[r] = 0
      BY <2>33 DEF EmitExit, At, Exit, shared, mains, names, ExitInv
    <3>1. KeptOf(r)'
      BY <3>0 DEF KeptOf, Telling, Flushing, TypeInv, TypeOK
    <3>2. ASSUME NEW q \in Runs \ {r} PROVE KeptOf(q)'
      <4>1. reader'[q] = reader[q] /\ exits'[q] = exits[q]
        BY <3>0 DEF TypeInv, TypeOK
      <4> QED
        BY <3>0, <4>1 DEF KeptInv, KeptOf, InHand, Awaited, Sole, Unseen
    <3> QED
      BY <3>0, <3>1, <3>2 DEF KeptInv
  <2>34. ASSUME NEW r \in Runs, ReleaseEntry(r) PROVE KeptInv'
    <3>0. /\ UNCHANGED <<attached, idOf, exits, ending, raced, main, mrun, mtodo>>
          /\ reader[r] = "releaseEntry" /\ reader' = [reader EXCEPT ![r] = "releaseSet"]
          /\ entries' = [entries EXCEPT ![idOf[r]] = Nil] /\ idOf[r] \in TaskIds
          /\ exits[r] = 1
      BY <2>34 DEF ReleaseEntry, At, mains, names, history, ExitInv, KeptInv, KeptOf, TypeInv,
        TypeOK
    <3>1. KeptOf(r)'
      BY <3>0 DEF KeptOf, Telling, Flushing, TypeInv, TypeOK
    <3>2. ASSUME NEW q \in Runs \ {r} PROVE KeptOf(q)'
      <4>1. reader'[q] = reader[q]
        BY <3>0 DEF TypeInv, TypeOK
      <4>2. Sole(q) /\ idOf[q] # Nil => entries'[idOf[q]] = entries[idOf[q]]
        BY <3>0 DEF Sole, TypeInv, TypeOK
      <4>3. idOf[q] = Nil => reader[q] = "none"
        BY DEF ExitInv
      <4> QED
        BY <3>0, <4>1, <4>2, <4>3 DEF KeptInv, KeptOf, InHand, Awaited, Sole, Unseen, Telling,
          Flushing
    <3> QED
      BY <3>0, <3>1, <3>2 DEF KeptInv
  <2>35. ASSUME NEW r \in Runs, ReleaseSet(r) PROVE KeptInv'
    <3>0. /\ UNCHANGED <<attached, entries, idOf, exits, ending, raced, main, mrun, mtodo>>
          /\ reader[r] = "releaseSet" /\ reader' = [reader EXCEPT ![r] = "done"]
          /\ exits[r] = 1
      BY <2>35 DEF ReleaseSet, At, mains, names, history, KeptInv, KeptOf
    <3>1. KeptOf(r)'
      BY <3>0 DEF KeptInv, KeptOf, Telling, Flushing, TypeInv, TypeOK
    <3>2. ASSUME NEW q \in Runs \ {r} PROVE KeptOf(q)'
      <4>1. reader'[q] = reader[q]
        BY <3>0 DEF TypeInv, TypeOK
      <4> QED
        BY <3>0, <4>1 DEF KeptInv, KeptOf, InHand, Awaited, Sole, Unseen
    <3> QED
      BY <3>0, <3>1, <3>2 DEF KeptInv
  <2>36. CASE UNCHANGED vars
    BY <2>36, NotHere DEF vars, shared, stream, readers, mains, names, history, KeptInv
  <2> QED
    BY <2>1, <2>2, <2>3, <2>4, <2>5, <2>6, <2>7, <2>8, <2>9, <2>10, <2>11, <2>12, <2>13,
      <2>14, <2>15, <2>16, <2>17, <2>18, <2>19, <2>20, <2>21, <2>22, <2>23, <2>24, <2>25,
      <2>26, <2>27, <2>28, <2>29, <2>30, <2>31, <2>32, <2>33, <2>34, <2>35, <2>36
    DEF Next, Request, Dispatch, Connection, Reader, Process
<1> QED
  BY <1>1, <1>2, TypeInvHolds, ExitInvHolds, ReachInvHolds, BoundInvHolds, PTL DEF Spec

\* No exit is forgotten: until it is told it is with the start, with the reader, or with
\* the entry the next replay finds, whoever came and went in between. (What ExitIsReported
\* rests on; that the threads run is left to TLC.)
THEOREM NoExitIsForgotten == Spec => []NoneForgotten
<1>1. KeptInv => NoneForgotten
  BY DEF KeptInv, KeptOf, NoneForgotten
<1> QED
  BY <1>1, KeptInvHolds, PTL
=============================================================================
