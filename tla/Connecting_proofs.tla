-------------------------- MODULE Connecting_proofs --------------------------
EXTENDS Transport, Deployment, TLAPS
-----------------------------------------------------------------------------
(* Transport: requests, ssh processes and the loop that reconnects.        *)

(* Types                                                                   *)

\* An entry is there for as long as nothing has been sent to its receiver.
SlotInv ==
  \A q \in Requests :
    /\ q \in pending => slot[q] = "none"
    /\ call[q] = "idle" => slot[q] = "none"

\* Children are started one after the other; nobody watches before the launch is through.
TypeInv ==
  /\ TypeOK
  /\ \E n \in 0 .. MaxChildren : Born = 1 .. n
  /\ ~subscribed => wakers = 0
  /\ SlotInv

\* What Newest chooses.
LEMMA NewestIs ==
  ASSUME NEW n \in 0 .. MaxChildren, Born = 1 .. n
  PROVE  Newest = n
<1>1. CASE n = 0
  BY <1>1 DEF Newest
<1>2. CASE n # 0
  <2>1. n \in Born /\ \A d \in Born : d <= n
    BY <1>2, BoundsAssumption
  <2>2. Newest \in Born /\ \A d \in Born : d <= Newest
    BY <2>1 DEF Newest
  <2> QED
    BY <2>1, <2>2, BoundsAssumption
<1> QED
  BY <1>1, <1>2

\* The newest child is the last one started.
LEMMA NewestLast ==
  ASSUME TypeInv
  PROVE  Newest \in 0 .. MaxChildren /\ Born = 1 .. Newest
  BY NewestIs DEF TypeInv

\* An entry is taken out with what is sent to its receiver, and nobody else's is touched.
LEMMA Resolves ==
  ASSUME ValuesOK, NEW q \in Requests, NEW o \in Results, Resolve(q, o)
  PROVE  /\ pending' = pending \ {q}
         /\ slot' \in [Requests -> {"none"} \union Results]
         /\ slot'[q] = IF q \in pending THEN o ELSE slot[q]
         /\ \A p \in Requests \ {q} : slot'[p] = slot[p]
<1>1. CASE q \in pending
  BY <1>1 DEF Resolve, ValuesOK
<1>2. CASE q \notin pending
  BY <1>2 DEF Resolve, registry, ValuesOK
<1> QED
  BY <1>1, <1>2

\* Every variable of the transport keeps its type, for any number of requests, children,
\* failures and wakers.
LEMMA TypeInvHolds == Spec => []TypeInv
<1>1. Init => TypeInv
  <2> SUFFICES ASSUME Init PROVE TypeInv
    OBVIOUS
  <2>1. Born = 1 .. 0 /\ 0 \in 0 .. MaxChildren
    BY BoundsAssumption DEF Init, Born
  <2>2. ValuesOK
    BY BoundsAssumption DEF Init, ValuesOK, States
  <2>3. FlagsOK
    BY DEF Init, FlagsOK
  <2> QED
    BY <2>1, <2>2, <2>3 DEF Init, TypeInv, TypeOK, SlotInv
<1>2. TypeInv /\ [Next]_vars => ValuesOK'
  <2> SUFFICES ASSUME TypeInv, [Next]_vars PROVE ValuesOK'
    OBVIOUS
  <2>a. ValuesOK
    BY DEF TypeInv, TypeOK
  <2>1. ASSUME NEW q \in Requests, Register(q) PROVE ValuesOK'
    BY <2>1, <2>a, BoundsAssumption DEF Register, process, pipes, connect, watchers,
      retry, history, ValuesOK, Results, States, Children, Conditions
  <2>2. ASSUME NEW q \in Requests, Refuse(q) PROVE ValuesOK'
    <3>1. PICK o \in Results : Resolve(q, o)
      BY <2>2 DEF Refuse, Ready, Results
    <3>2. /\ pending' = pending \ {q}
          /\ slot' \in [Requests -> {"none"} \union Results]
          /\ slot'[q] \in {slot[q], o} /\ \A p \in Requests \ {q} : slot'[p] = slot[p]
      BY <3>1, Resolves DEF TypeInv, TypeOK
    <3> QED
      BY <2>2, <3>1, <3>2, Resolves, <2>a DEF Refuse, Ready, process, pipes, connect,
        watchers, retry, history, ValuesOK, Results
  <2>3. ASSUME NEW q \in Requests, Push(q) PROVE ValuesOK'
    <3>0. CASE live # 0
      BY <2>3, <2>a, <3>0 DEF Push, Queued, registry, process, connect, watchers, retry,
        ValuesOK, Children
    <3>9. CASE live = 0
      <4>1. Resolve(q, "withdrawn") /\ "withdrawn" \in Results
        BY <2>3, <3>9 DEF Push, Queued, Ready, Results
      <4>2. pending' = pending \ {q} /\ slot' \in [Requests -> {"none"} \union Results]
        BY <2>a, <4>1, Resolves
      <4>3. /\ call' = [call EXCEPT ![q] = "done"] /\ result' = [result EXCEPT ![q] = "lost"]
            /\ UNCHANGED <<to, sent, late>>
        BY <2>3, <3>9 DEF Push, Queued, Ready
      <4> QED
        BY <2>3, <2>a, <4>2, <4>3 DEF Push, Queued, process, connect, watchers, retry,
          ValuesOK, Results
    <3> QED
      BY <3>0, <3>9
  <2>4. ASSUME NEW q \in Requests, Await(q) PROVE ValuesOK'
    <3>1. q \notin pending
      BY <2>4 DEF Await, TypeInv, SlotInv
    <3> QED
      BY <2>4, <2>a, <3>1 DEF Await, registry, process, pipes, connect, watchers, retry,
        history, ValuesOK, Results
  <2>5. ASSUME NEW q \in Requests, TimeOut(q) PROVE ValuesOK'
    BY <2>5, <2>a, BoundsAssumption DEF TimeOut, Resolve, process, pipes, connect,
      watchers, retry, history, registry, ValuesOK, Results, States, Children,
      Conditions
  <2>6. ASSUME NEW q \in Requests, Withdraw(q) PROVE ValuesOK'
    BY ZenonT(40), <2>6, <2>a, BoundsAssumption DEF Withdraw, Resolve, callers, process,
      pipes, connect, watchers, retry, history, registry, ValuesOK, Results, States,
      Children, Conditions
  <2>7. ASSUME NEW c \in Children, Deliver(c) PROVE ValuesOK'
    <3>1. PICK q \in replies[c] :
            replies' = [replies EXCEPT ![c] = replies[c] \ {q}] /\ Resolve(q, "answered")
      BY <2>7 DEF Deliver
    <3>2. q \in Requests /\ "answered" \in Results
      BY <2>a, <3>1 DEF ValuesOK, Results
    <3>3. pending' = pending \ {q} /\ slot' \in [Requests -> {"none"} \union Results]
      BY <2>a, <3>1, <3>2, Resolves
    <3> QED
      BY <2>7, <2>a, <3>1, <3>3 DEF Deliver, callers, process, connect, watchers, retry,
        history, ValuesOK
  <2>8. ASSUME NEW c \in Children, Eof(c) PROVE ValuesOK'
    BY <2>8, <2>a, BoundsAssumption DEF Eof, Shut, registry, callers, process, connect,
      watchers, retry, history, ValuesOK, Results, States, Children, Conditions
  <2>9. ASSUME NEW c \in Children, FailAll(c) PROVE ValuesOK'
    BY <2>9, <2>a, BoundsAssumption DEF FailAll, callers, process, pipes, connect,
      watchers, retry, history, ValuesOK, Results, States, Children, Conditions
  <2>10. ASSUME NEW c \in Children, Lost(c) PROVE ValuesOK'
    BY <2>10, <2>a, BoundsAssumption DEF Lost, Announce, registry, callers, process,
      pipes, connect, retry, history, ValuesOK, Results, States, Children, Conditions
  <2>11. ASSUME NEW c \in Children, Exited(c) PROVE ValuesOK'
    BY <2>11, <2>a, BoundsAssumption DEF Exited, registry, callers, process, pipes,
      connect, watchers, retry, history, ValuesOK, Results, States, Children, Conditions
  <2>12. ASSUME NEW c \in Children, Reply(c) PROVE ValuesOK'
    BY <2>12, <2>a, BoundsAssumption DEF Reply, registry, callers, process, connect,
      watchers, retry, history, ValuesOK, Results, States, Children, Conditions
  <2>13. ASSUME NEW c \in Children, NEW w \in Conditions, Ends(c, w) PROVE ValuesOK'
    BY <2>13, <2>a, BoundsAssumption DEF Ends, registry, callers, connect, watchers,
      retry, history, ValuesOK, Results, States, Children, Conditions
  <2>14. ASSUME ConnectStart PROVE ValuesOK'
    BY <2>14, <2>a, BoundsAssumption DEF ConnectStart, Announce, registry, callers,
      process, pipes, retry, history, ValuesOK, Results, States, Children, Conditions
  <2>15. ASSUME SpawnFails PROVE ValuesOK'
    BY <2>15, <2>a, BoundsAssumption DEF SpawnFails, Announce, registry, callers,
      process, pipes, history, ValuesOK, Results, States, Children, Conditions
  <2>16. ASSUME Spawn PROVE ValuesOK'
    BY <2>16, <2>a, BoundsAssumption DEF Spawn, registry, callers, pipes, watchers,
      retry, history, ValuesOK, Results, States, Children, Conditions
  <2>17. ASSUME MakeLive PROVE ValuesOK'
    <3>1. Newest \in {0} \union Children
      BY NewestLast, BoundsAssumption DEF Children
    <3> QED
      BY <2>17, <2>a, <3>1 DEF MakeLive, registry, callers, process, pipes, watchers, retry,
        history, ValuesOK
  <2>18. ASSUME Connected PROVE ValuesOK'
    BY <2>18, <2>a, BoundsAssumption DEF Connected, Announce, registry, callers,
      process, pipes, ValuesOK, Results, States, Children, Conditions
  <2>19. ASSUME Subscribe PROVE ValuesOK'
    <3>1. wakers = 0
      BY <2>19 DEF Subscribe, TypeInv
    <3>2. wakers' \in 0 .. MaxWakers
      BY <2>19, <3>1, BoundsAssumption DEF Subscribe, Wakers
    <3> QED
      BY <2>19, <2>a, <3>2 DEF Subscribe, registry, callers, process, pipes, connect,
        retry, history, ValuesOK
  <2>20. ASSUME Observe PROVE ValuesOK'
    BY <2>20, <2>a, BoundsAssumption DEF Observe, Wakers, registry, callers, process,
      pipes, connect, retry, history, ValuesOK, Results, States, Children, Conditions
  <2>21. ASSUME Run PROVE ValuesOK'
    BY <2>21, <2>a, BoundsAssumption DEF Run, registry, callers, process, pipes,
      connect, retry, ValuesOK, Results, States, Children, Conditions
  <2>22. ASSUME Delay PROVE ValuesOK'
    BY <2>22, <2>a, BoundsAssumption DEF Delay, Announce, registry, callers, process,
      pipes, connect, history, ValuesOK, Results, States, Children, Conditions
  <2>23. ASSUME Try PROVE ValuesOK'
    BY <2>23, <2>a, BoundsAssumption DEF Try, registry, callers, process, pipes,
      watchers, history, ValuesOK, Results, States, Children, Conditions
  <2>24. ASSUME Failed PROVE ValuesOK'
    BY <2>24, <2>a, BoundsAssumption DEF Failed, StopAndReport, registry, callers,
      process, pipes, connect, watchers, ValuesOK, Results, States, Children, Conditions
  <2>25. ASSUME Release PROVE ValuesOK'
    BY <2>25, <2>a, BoundsAssumption DEF Release, registry, callers, process, pipes,
      connect, watchers, history, ValuesOK, Results, States, Children, Conditions
  <2>26. CASE UNCHANGED vars
    BY <2>26, <2>a DEF vars, registry, callers, process, pipes, connect, watchers,
      retry, history, ValuesOK, Results, States, Children, Conditions
  <2> QED
    BY <2>1, <2>2, <2>3, <2>4, <2>5, <2>6, <2>7, <2>8, <2>9, <2>10, <2>11, <2>12, <2>13,
      <2>14, <2>15, <2>16, <2>17, <2>18, <2>19, <2>20, <2>21, <2>22, <2>23, <2>24,
      <2>25, <2>26
    DEF Next, Caller, Threads, Connect, Loop
<1>3. TypeInv /\ [Next]_vars => FlagsOK'
  <2> SUFFICES ASSUME TypeInv, [Next]_vars PROVE FlagsOK'
    OBVIOUS
  <2>a. FlagsOK
    BY DEF TypeInv, TypeOK
  <2>1. ASSUME NEW q \in Requests, Register(q) PROVE FlagsOK'
    BY <2>1, <2>a DEF Register, process, pipes, connect, watchers, retry, history,
      FlagsOK
  <2>2. ASSUME NEW q \in Requests, Refuse(q) PROVE FlagsOK'
    BY <2>2, <2>a DEF Refuse, Ready, Resolve, process, pipes, connect, watchers, retry,
      history, registry, FlagsOK
  <2>3. ASSUME NEW q \in Requests, Push(q) PROVE FlagsOK'
    BY <2>3, <2>a DEF Push, Queued, Ready, Resolve, registry, process, connect, watchers,
      retry, FlagsOK
  <2>4. ASSUME NEW q \in Requests, Await(q) PROVE FlagsOK'
    BY <2>4, <2>a DEF Await, registry, process, pipes, connect, watchers, retry,
      history, FlagsOK
  <2>5. ASSUME NEW q \in Requests, TimeOut(q) PROVE FlagsOK'
    BY <2>5, <2>a DEF TimeOut, Resolve, process, pipes, connect, watchers, retry,
      history, registry, FlagsOK
  <2>6. ASSUME NEW q \in Requests, Withdraw(q) PROVE FlagsOK'
    BY <2>6, <2>a DEF Withdraw, Resolve, callers, process, pipes, connect, watchers,
      retry, history, registry, FlagsOK
  <2>7. ASSUME NEW c \in Children, Deliver(c) PROVE FlagsOK'
    BY <2>7, <2>a DEF Deliver, Resolve, callers, process, connect, watchers, retry,
      history, registry, FlagsOK
  <2>8. ASSUME NEW c \in Children, Eof(c) PROVE FlagsOK'
    BY <2>8, <2>a DEF Eof, Shut, registry, callers, process, connect, watchers, retry,
      history, FlagsOK
  <2>9. ASSUME NEW c \in Children, FailAll(c) PROVE FlagsOK'
    BY <2>9, <2>a DEF FailAll, callers, process, pipes, connect, watchers, retry,
      history, FlagsOK
  <2>10. ASSUME NEW c \in Children, Lost(c) PROVE FlagsOK'
    BY <2>10, <2>a DEF Lost, Announce, registry, callers, process, pipes, connect,
      retry, history, FlagsOK
  <2>11. ASSUME NEW c \in Children, Exited(c) PROVE FlagsOK'
    BY <2>11, <2>a DEF Exited, registry, callers, process, pipes, connect, watchers,
      retry, history, FlagsOK
  <2>12. ASSUME NEW c \in Children, Reply(c) PROVE FlagsOK'
    BY <2>12, <2>a DEF Reply, registry, callers, process, connect, watchers, retry,
      history, FlagsOK
  <2>13. ASSUME NEW c \in Children, NEW w \in Conditions, Ends(c, w) PROVE FlagsOK'
    BY <2>13, <2>a DEF Ends, registry, callers, connect, watchers, retry, history,
      FlagsOK
  <2>14. ASSUME ConnectStart PROVE FlagsOK'
    BY <2>14, <2>a DEF ConnectStart, Announce, registry, callers, process, pipes, retry,
      history, FlagsOK
  <2>15. ASSUME SpawnFails PROVE FlagsOK'
    BY <2>15, <2>a DEF SpawnFails, Announce, registry, callers, process, pipes, history,
      FlagsOK
  <2>16. ASSUME Spawn PROVE FlagsOK'
    BY <2>16, <2>a DEF Spawn, registry, callers, pipes, watchers, retry, history,
      FlagsOK
  <2>17. ASSUME MakeLive PROVE FlagsOK'
    BY <2>17, <2>a DEF MakeLive, registry, callers, process, pipes, watchers, retry,
      history, FlagsOK
  <2>18. ASSUME Connected PROVE FlagsOK'
    BY <2>18, <2>a DEF Connected, Announce, registry, callers, process, pipes, FlagsOK
  <2>19. ASSUME Subscribe PROVE FlagsOK'
    BY <2>19, <2>a DEF Subscribe, Wakers, registry, callers, process, pipes, connect,
      retry, history, FlagsOK
  <2>20. ASSUME Observe PROVE FlagsOK'
    BY <2>20, <2>a DEF Observe, Wakers, registry, callers, process, pipes, connect,
      retry, history, FlagsOK
  <2>21. ASSUME Run PROVE FlagsOK'
    BY <2>21, <2>a DEF Run, registry, callers, process, pipes, connect, retry, FlagsOK
  <2>22. ASSUME Delay PROVE FlagsOK'
    BY <2>22, <2>a DEF Delay, Announce, registry, callers, process, pipes, connect,
      history, FlagsOK
  <2>23. ASSUME Try PROVE FlagsOK'
    BY <2>23, <2>a DEF Try, registry, callers, process, pipes, watchers, history,
      FlagsOK
  <2>24. ASSUME Failed PROVE FlagsOK'
    BY <2>24, <2>a DEF Failed, StopAndReport, registry, callers, process, pipes, connect,
      watchers, FlagsOK
  <2>25. ASSUME Release PROVE FlagsOK'
    BY <2>25, <2>a DEF Release, registry, callers, process, pipes, connect, watchers,
      history, FlagsOK
  <2>26. CASE UNCHANGED vars
    BY <2>26, <2>a DEF vars, registry, callers, process, pipes, connect, watchers,
      retry, history, FlagsOK
  <2> QED
    BY <2>1, <2>2, <2>3, <2>4, <2>5, <2>6, <2>7, <2>8, <2>9, <2>10, <2>11, <2>12, <2>13,
      <2>14, <2>15, <2>16, <2>17, <2>18, <2>19, <2>20, <2>21, <2>22, <2>23, <2>24,
      <2>25, <2>26
    DEF Next, Caller, Threads, Connect, Loop
<1>4. TypeInv /\ [Next]_vars => (\E n \in 0 .. MaxChildren : Born = 1 .. n)'
  <2> SUFFICES ASSUME TypeInv, [Next]_vars PROVE (\E n \in 0 .. MaxChildren : Born = 1 .. n)'
    OBVIOUS
  <2>1. CASE Spawn
    <3>1. Newest \in 0 .. MaxChildren /\ Born = 1 .. Newest /\ Newest < MaxChildren
      BY <2>1, NewestLast DEF Spawn
    <3>2. Born' = Born \union {Newest + 1} /\ Newest + 1 \in 0 .. MaxChildren
      BY <2>1, <3>1, BoundsAssumption DEF Spawn, Born, Children, TypeInv, TypeOK, ValuesOK
    <3>3. Born' = 1 .. (Newest + 1)
      BY <3>1, <3>2, BoundsAssumption
    <3> QED
      BY <3>2, <3>3
  <2>2. ASSUME NEW c \in Children, NEW w \in Conditions, Ends(c, w) PROVE Born' = Born
    BY <2>2 DEF Ends, Born, TypeInv, TypeOK, ValuesOK
  <2>3. CASE proc' = proc
    BY <2>3 DEF TypeInv, Born
  <2>4. \/ Spawn \/ proc' = proc
        \/ \E c \in Children, w \in Conditions : Ends(c, w)
    BY DEF Next, Caller, Threads, Connect, Loop, Register, Refuse, Push, Queued, Await,
      TimeOut, Withdraw, Deliver, Eof, Shut, FailAll, Lost, Exited, Reply, ConnectStart,
      SpawnFails, MakeLive, Connected, Subscribe, Observe, Run, Delay, Try, Failed,
      StopAndReport, Release, vars, process
  <2> QED
    BY <2>1, <2>2, <2>3, <2>4 DEF TypeInv
<1>5. TypeInv /\ [Next]_vars => (~subscribed => wakers = 0)'
  <2> SUFFICES ASSUME TypeInv, [Next]_vars PROVE (~subscribed => wakers = 0)'
    OBVIOUS
  <2>1. \/ UNCHANGED <<subscribed, wakers>> \/ subscribed'
        \/ subscribed' = subscribed /\ wakers > 0
    BY DEF Next, Caller, Threads, Connect, Loop, Register, Refuse, Push, Queued, Await,
      TimeOut, Withdraw, Deliver, Eof, Shut, FailAll, Lost, Exited, Reply, Ends,
      ConnectStart, SpawnFails, Spawn, MakeLive, Connected, Subscribe, Observe, Run, Delay,
      Try, Failed, StopAndReport, Release, vars, watchers
  <2> QED
    BY <2>1 DEF TypeInv
<1>6. TypeInv /\ [Next]_vars => SlotInv'
  <2> SUFFICES ASSUME TypeInv, [Next]_vars PROVE SlotInv'
    OBVIOUS
  <2>a. SlotInv /\ ValuesOK
    BY DEF TypeInv, TypeOK
  <2>1. ASSUME NEW q \in Requests, Register(q) PROVE SlotInv'
    BY <2>1, <2>a DEF Register, process, pipes, connect, watchers, retry, history,
      SlotInv, ValuesOK
  <2>2. ASSUME NEW q \in Requests, Refuse(q) PROVE SlotInv'
    BY <2>2, <2>a DEF Refuse, Ready, Resolve, process, pipes, connect, watchers, retry,
      history, registry, SlotInv, ValuesOK
  <2>3. ASSUME NEW q \in Requests, Push(q) PROVE SlotInv'
    BY <2>3, <2>a DEF Push, Queued, Ready, Resolve, registry, process, connect, watchers,
      retry, SlotInv, ValuesOK
  <2>4. ASSUME NEW q \in Requests, Await(q) PROVE SlotInv'
    BY <2>4, <2>a DEF Await, registry, process, pipes, connect, watchers, retry,
      history, SlotInv, ValuesOK
  <2>5. ASSUME NEW q \in Requests, TimeOut(q) PROVE SlotInv'
    BY <2>5, <2>a DEF TimeOut, Resolve, process, pipes, connect, watchers, retry,
      history, registry, SlotInv, ValuesOK
  <2>6. ASSUME NEW q \in Requests, Withdraw(q) PROVE SlotInv'
    BY <2>6, <2>a DEF Withdraw, Resolve, callers, process, pipes, connect, watchers,
      retry, history, registry, SlotInv, ValuesOK
  <2>7. ASSUME NEW c \in Children, Deliver(c) PROVE SlotInv'
    BY <2>7, <2>a DEF Deliver, Resolve, callers, process, connect, watchers, retry,
      history, registry, SlotInv, ValuesOK
  <2>8. ASSUME NEW c \in Children, Eof(c) PROVE SlotInv'
    BY <2>8, <2>a DEF Eof, Shut, registry, callers, process, connect, watchers, retry,
      history, SlotInv, ValuesOK
  <2>9. ASSUME NEW c \in Children, FailAll(c) PROVE SlotInv'
    BY <2>9, <2>a DEF FailAll, callers, process, pipes, connect, watchers, retry,
      history, SlotInv, ValuesOK
  <2>10. ASSUME NEW c \in Children, Lost(c) PROVE SlotInv'
    BY <2>10, <2>a DEF Lost, Announce, registry, callers, process, pipes, connect,
      retry, history, SlotInv, ValuesOK
  <2>11. ASSUME NEW c \in Children, Exited(c) PROVE SlotInv'
    BY <2>11, <2>a DEF Exited, registry, callers, process, pipes, connect, watchers,
      retry, history, SlotInv, ValuesOK
  <2>12. ASSUME NEW c \in Children, Reply(c) PROVE SlotInv'
    BY <2>12, <2>a DEF Reply, registry, callers, process, connect, watchers, retry,
      history, SlotInv, ValuesOK
  <2>13. ASSUME NEW c \in Children, NEW w \in Conditions, Ends(c, w) PROVE SlotInv'
    BY <2>13, <2>a DEF Ends, registry, callers, connect, watchers, retry, history,
      SlotInv, ValuesOK
  <2>14. ASSUME ConnectStart PROVE SlotInv'
    BY <2>14, <2>a DEF ConnectStart, Announce, registry, callers, process, pipes, retry,
      history, SlotInv, ValuesOK
  <2>15. ASSUME SpawnFails PROVE SlotInv'
    BY <2>15, <2>a DEF SpawnFails, Announce, registry, callers, process, pipes, history,
      SlotInv, ValuesOK
  <2>16. ASSUME Spawn PROVE SlotInv'
    BY <2>16, <2>a DEF Spawn, registry, callers, pipes, watchers, retry, history,
      SlotInv, ValuesOK
  <2>17. ASSUME MakeLive PROVE SlotInv'
    BY <2>17, <2>a DEF MakeLive, registry, callers, process, pipes, watchers, retry,
      history, SlotInv, ValuesOK
  <2>18. ASSUME Connected PROVE SlotInv'
    BY <2>18, <2>a DEF Connected, Announce, registry, callers, process, pipes, SlotInv,
      ValuesOK
  <2>19. ASSUME Subscribe PROVE SlotInv'
    BY <2>19, <2>a DEF Subscribe, Wakers, registry, callers, process, pipes, connect,
      retry, history, SlotInv, ValuesOK
  <2>20. ASSUME Observe PROVE SlotInv'
    BY <2>20, <2>a DEF Observe, Wakers, registry, callers, process, pipes, connect,
      retry, history, SlotInv, ValuesOK
  <2>21. ASSUME Run PROVE SlotInv'
    BY <2>21, <2>a DEF Run, registry, callers, process, pipes, connect, retry, SlotInv,
      ValuesOK
  <2>22. ASSUME Delay PROVE SlotInv'
    BY <2>22, <2>a DEF Delay, Announce, registry, callers, process, pipes, connect,
      history, SlotInv, ValuesOK
  <2>23. ASSUME Try PROVE SlotInv'
    BY <2>23, <2>a DEF Try, registry, callers, process, pipes, watchers, history,
      SlotInv, ValuesOK
  <2>24. ASSUME Failed PROVE SlotInv'
    BY <2>24, <2>a DEF Failed, StopAndReport, registry, callers, process, pipes, connect,
      watchers, SlotInv, ValuesOK
  <2>25. ASSUME Release PROVE SlotInv'
    BY <2>25, <2>a DEF Release, registry, callers, process, pipes, connect, watchers,
      history, SlotInv, ValuesOK
  <2>26. CASE UNCHANGED vars
    BY <2>26, <2>a DEF vars, registry, callers, process, pipes, connect, watchers,
      retry, history, SlotInv, ValuesOK
  <2> QED
    BY <2>1, <2>2, <2>3, <2>4, <2>5, <2>6, <2>7, <2>8, <2>9, <2>10, <2>11, <2>12, <2>13,
      <2>14, <2>15, <2>16, <2>17, <2>18, <2>19, <2>20, <2>21, <2>22, <2>23, <2>24,
      <2>25, <2>26
    DEF Next, Caller, Threads, Connect, Loop
<1> QED
  BY <1>1, <1>2, <1>3, <1>4, <1>5, <1>6, PTL DEF Spec, TypeInv, TypeOK

-----------------------------------------------------------------------------
(* Callers                                                                 *)

\* A request that waits with nothing sent to it has its entry; a queue is closed from
\* the end its reader saw on; and what was pushed went to a child.
CallInv ==
  /\ \A q \in Requests :
       /\ call[q] \in {"registered", "awaiting"} /\ slot[q] = "none" => q \in pending
       /\ call[q] = "awaiting" => to[q] \in Born
       /\ call[q] = "done" => result[q] \in Results
  /\ \A c \in Children :
       /\ closed[c] <=> reader[c] \in {"fail", "announce", "done"}
       /\ proc[c] = "unborn" <=> reader[c] = "none"
       /\ reader[c] \in {"fail", "announce", "done"} => proc[c] = "ended"
  /\ live # 0 => live \in Born


\* One action after the other, of callers and of the threads of a child.
LEMMA CallInvHolds == Spec => []CallInv
<1>1. Init => CallInv
  BY DEF Init, CallInv, Born
<1>2. TypeInv /\ CallInv /\ [Next]_vars => CallInv'
  <2> SUFFICES ASSUME TypeInv, CallInv, [Next]_vars PROVE CallInv'
    OBVIOUS
  <2>1. ASSUME NEW q \in Requests, Register(q) PROVE CallInv'
    BY <2>1 DEF Register, process, pipes, connect, watchers, retry, history, TypeInv,
      TypeOK, ValuesOK, CallInv, Born
  <2>2. ASSUME NEW q \in Requests, Refuse(q) PROVE CallInv'
    <3>1. PICK o \in Results : Resolve(q, o)
      BY <2>2 DEF Refuse, Ready, Results
    <3>2. /\ pending' = pending \ {q}
          /\ \A p \in Requests \ {q} : slot'[p] = slot[p]
      BY <3>1, Resolves DEF TypeInv, TypeOK
    <3>3. /\ call' = [call EXCEPT ![q] = "done"] /\ result'[q] \in Results
          /\ \A p \in Requests \ {q} : result'[p] = result[p]
      BY <2>2 DEF Refuse, Ready, Results, TypeInv, TypeOK, ValuesOK
    <3> QED
      BY <2>2, <3>2, <3>3 DEF Refuse, process, pipes, connect, CallInv, TypeInv, TypeOK,
        ValuesOK, Born
  <2>3. ASSUME NEW q \in Requests, Push(q) PROVE CallInv'
    <3>0. CASE live # 0
      <4>1. /\ call' = [call EXCEPT ![q] = "awaiting"] /\ to' = [to EXCEPT ![q] = live]
            /\ UNCHANGED <<pending, slot, result, proc, closed, reader, live>>
        BY <2>3, <3>0 DEF Push, Queued, registry, process
      <4> QED
        BY <2>3, <3>0, <4>1 DEF Push, Queued, CallInv, TypeInv, TypeOK, ValuesOK, Born
    <3>9. CASE live = 0
      <4>1. Resolve(q, "withdrawn") /\ "withdrawn" \in Results
        BY <2>3, <3>9 DEF Push, Queued, Ready, Results
      <4>2. pending' = pending \ {q} /\ \A p \in Requests \ {q} : slot'[p] = slot[p]
        BY <4>1, Resolves DEF TypeInv, TypeOK
      <4>3. /\ call' = [call EXCEPT ![q] = "done"] /\ result' = [result EXCEPT ![q] = "lost"]
            /\ UNCHANGED <<to, proc, closed, reader, live>>
        BY <2>3, <3>9 DEF Push, Queued, Ready, process
      <4> QED
        BY <4>2, <4>3 DEF CallInv, TypeInv, TypeOK, ValuesOK, Born, Results
    <3> QED
      BY <3>0, <3>9
  <2>4. ASSUME NEW q \in Requests, Await(q) PROVE CallInv'
    BY <2>4 DEF Await, registry, process, pipes, connect, watchers, retry, history,
      TypeInv, TypeOK, ValuesOK, CallInv, Born
  <2>5. ASSUME NEW q \in Requests, TimeOut(q) PROVE CallInv'
    <3>1. PICK o \in Results : Resolve(q, o)
      BY <2>5 DEF TimeOut, Results
    <3>2. /\ pending' = pending \ {q}
          /\ \A p \in Requests \ {q} : slot'[p] = slot[p]
      BY <3>1, Resolves DEF TypeInv, TypeOK
    <3>3. /\ call' = [call EXCEPT ![q] = "done"] /\ result'[q] \in Results
          /\ \A p \in Requests \ {q} : result'[p] = result[p]
      BY <2>5 DEF TimeOut, Results, TypeInv, TypeOK, ValuesOK
    <3> QED
      BY <2>5, <3>2, <3>3 DEF TimeOut, process, pipes, connect, CallInv, TypeInv,
        TypeOK, ValuesOK, Born
  <2>6. ASSUME NEW q \in Requests, Withdraw(q) PROVE CallInv'
    BY <2>6 DEF Withdraw, Resolve, callers, process, pipes, connect, watchers, retry,
      history, registry, TypeInv, TypeOK, ValuesOK, CallInv, Born
  <2>7. ASSUME NEW c \in Children, Deliver(c) PROVE CallInv'
    BY <2>7 DEF Deliver, Resolve, callers, process, connect, watchers, retry, history,
      registry, TypeInv, TypeOK, ValuesOK, CallInv, Born
  <2>8. ASSUME NEW c \in Children, Eof(c) PROVE CallInv'
    BY <2>8 DEF Eof, Shut, registry, callers, process, connect, watchers, retry, history,
      TypeInv, TypeOK, ValuesOK, CallInv, Born
  <2>9. ASSUME NEW c \in Children, FailAll(c) PROVE CallInv'
    BY <2>9 DEF FailAll, callers, process, pipes, connect, watchers, retry, history,
      TypeInv, TypeOK, ValuesOK, CallInv, Born
  <2>10. ASSUME NEW c \in Children, Lost(c) PROVE CallInv'
    BY <2>10 DEF Lost, Announce, registry, callers, process, pipes, connect, retry,
      history, TypeInv, TypeOK, ValuesOK, CallInv, Born
  <2>11. ASSUME NEW c \in Children, Exited(c) PROVE CallInv'
    BY <2>11 DEF Exited, registry, callers, process, pipes, connect, watchers, retry,
      history, TypeInv, TypeOK, ValuesOK, CallInv, Born
  <2>12. ASSUME NEW c \in Children, Reply(c) PROVE CallInv'
    BY <2>12 DEF Reply, registry, callers, process, connect, watchers, retry, history,
      TypeInv, TypeOK, ValuesOK, CallInv, Born
  <2>13. ASSUME NEW c \in Children, NEW w \in Conditions, Ends(c, w) PROVE CallInv'
    BY <2>13 DEF Ends, registry, callers, connect, watchers, retry, history, TypeInv,
      TypeOK, ValuesOK, CallInv, Born
  <2>14. ASSUME ConnectStart PROVE CallInv'
    BY <2>14 DEF ConnectStart, Announce, registry, callers, process, pipes, retry,
      history, TypeInv, TypeOK, ValuesOK, CallInv, Born
  <2>15. ASSUME SpawnFails PROVE CallInv'
    BY <2>15 DEF SpawnFails, Announce, registry, callers, process, pipes, history,
      TypeInv, TypeOK, ValuesOK, CallInv, Born
  <2>16. ASSUME Spawn PROVE CallInv'
    <3>1. /\ Newest + 1 \in Children /\ Newest + 1 \notin Born
          /\ proc' = [proc EXCEPT ![Newest + 1] = "alive"]
          /\ reader' = [reader EXCEPT ![Newest + 1] = "reading"]
      BY <2>16, NewestLast, BoundsAssumption DEF Spawn, Children
    <3>2. ~closed[Newest + 1] /\ Born \subseteq Born'
      BY <3>1 DEF CallInv, Born, TypeInv, TypeOK, ValuesOK
    <3> QED
      BY <2>16, <3>1, <3>2 DEF Spawn, registry, callers, pipes, CallInv, TypeInv, TypeOK,
        ValuesOK
  <2>17. ASSUME MakeLive PROVE CallInv'
    <3>1. Newest # 0 => Newest \in Born
      BY NewestLast
    <3> QED
      BY <2>17, <3>1 DEF MakeLive, registry, callers, process, pipes, CallInv, Born
  <2>18. ASSUME Connected PROVE CallInv'
    BY <2>18 DEF Connected, Announce, registry, callers, process, pipes, TypeInv,
      TypeOK, ValuesOK, CallInv, Born
  <2>19. ASSUME Subscribe PROVE CallInv'
    BY <2>19 DEF Subscribe, Wakers, registry, callers, process, pipes, connect, retry,
      history, TypeInv, TypeOK, ValuesOK, CallInv, Born
  <2>20. ASSUME Observe PROVE CallInv'
    BY <2>20 DEF Observe, Wakers, registry, callers, process, pipes, connect, retry,
      history, TypeInv, TypeOK, ValuesOK, CallInv, Born
  <2>21. ASSUME Run PROVE CallInv'
    BY <2>21 DEF Run, registry, callers, process, pipes, connect, retry, TypeInv,
      TypeOK, ValuesOK, CallInv, Born
  <2>22. ASSUME Delay PROVE CallInv'
    BY <2>22 DEF Delay, Announce, registry, callers, process, pipes, connect, history,
      TypeInv, TypeOK, ValuesOK, CallInv, Born
  <2>23. ASSUME Try PROVE CallInv'
    BY <2>23 DEF Try, registry, callers, process, pipes, watchers, history, TypeInv,
      TypeOK, ValuesOK, CallInv, Born
  <2>24. ASSUME Failed PROVE CallInv'
    BY <2>24 DEF Failed, StopAndReport, registry, callers, process, pipes, connect,
      watchers, TypeInv, TypeOK, ValuesOK, CallInv, Born
  <2>25. ASSUME Release PROVE CallInv'
    BY <2>25 DEF Release, registry, callers, process, pipes, connect, watchers, history,
      TypeInv, TypeOK, ValuesOK, CallInv, Born
  <2>26. CASE UNCHANGED vars
    BY <2>26 DEF vars, registry, callers, process, pipes, connect, watchers, retry,
      history, TypeInv, TypeOK, ValuesOK, CallInv, Born
  <2> QED
    BY <2>1, <2>2, <2>3, <2>4, <2>5, <2>6, <2>7, <2>8, <2>9, <2>10, <2>11, <2>12, <2>13,
      <2>14, <2>15, <2>16, <2>17, <2>18, <2>19, <2>20, <2>21, <2>22, <2>23, <2>24,
      <2>25, <2>26
    DEF Next, Caller, Threads, Connect, Loop
<1> QED
  BY <1>1, <1>2, TypeInvHolds, PTL DEF Spec

\* No request waits for a child whose end has been announced, unless it was pushed to a
\* closed queue: the reader closes the queue, fails what waits, and only then says so.
THEOREM NoneIsLeftWaiting == Spec => []NoneWaitsForTheDead
<1> DEFINE Waits == \A q \in Requests \ late :
              call[q] = "awaiting" /\ slot[q] = "none"
                => reader[to[q]] \notin {"announce", "done"}
<1>1. Init => Waits
  BY DEF Init
<1>2. TypeInv /\ CallInv /\ Waits /\ [Next]_vars => Waits'
  <2> SUFFICES ASSUME TypeInv, CallInv, Waits, [Next]_vars PROVE Waits'
    OBVIOUS
  <2>1. ASSUME NEW q \in Requests, Register(q) PROVE Waits'
    BY <2>1 DEF Register, process, pipes, connect, watchers, retry, history, TypeInv,
      TypeOK, ValuesOK, CallInv, Born
  <2>2. ASSUME NEW q \in Requests, Refuse(q) PROVE Waits'
    BY <2>2 DEF Refuse, Ready, Resolve, process, pipes, connect, watchers, retry,
      history, registry, TypeInv, TypeOK, ValuesOK, CallInv, Born
  <2>3. ASSUME NEW q \in Requests, Push(q) PROVE Waits'
    BY <2>3 DEF Push, Queued, Ready, Resolve, registry, process, connect, watchers, retry,
      TypeInv, TypeOK, ValuesOK, CallInv, Born
  <2>4. ASSUME NEW q \in Requests, Await(q) PROVE Waits'
    BY <2>4 DEF Await, registry, process, pipes, connect, watchers, retry, history,
      TypeInv, TypeOK, ValuesOK, CallInv, Born
  <2>5. ASSUME NEW q \in Requests, TimeOut(q) PROVE Waits'
    BY <2>5 DEF TimeOut, Resolve, process, pipes, connect, watchers, retry, history,
      registry, TypeInv, TypeOK, ValuesOK, CallInv, Born
  <2>6. ASSUME NEW q \in Requests, Withdraw(q) PROVE Waits'
    BY <2>6 DEF Withdraw, Resolve, callers, process, pipes, connect, watchers, retry,
      history, registry, TypeInv, TypeOK, ValuesOK, CallInv, Born
  <2>7. ASSUME NEW c \in Children, Deliver(c) PROVE Waits'
    BY <2>7 DEF Deliver, Resolve, callers, process, connect, watchers, retry, history,
      registry, TypeInv, TypeOK, ValuesOK, CallInv, Born
  <2>8. ASSUME NEW c \in Children, Eof(c) PROVE Waits'
    BY <2>8 DEF Eof, Shut, registry, callers, process, connect, watchers, retry, history,
      TypeInv, TypeOK, ValuesOK, CallInv, Born
  <2>9. ASSUME NEW c \in Children, FailAll(c) PROVE Waits'
    BY <2>9 DEF FailAll, callers, process, pipes, connect, watchers, retry, history,
      TypeInv, TypeOK, ValuesOK, CallInv, Born
  <2>10. ASSUME NEW c \in Children, Lost(c) PROVE Waits'
    BY <2>10 DEF Lost, Announce, registry, callers, process, pipes, connect, retry,
      history, TypeInv, TypeOK, ValuesOK, CallInv, Born
  <2>11. ASSUME NEW c \in Children, Exited(c) PROVE Waits'
    BY <2>11 DEF Exited, registry, callers, process, pipes, connect, watchers, retry,
      history, TypeInv, TypeOK, ValuesOK, CallInv, Born
  <2>12. ASSUME NEW c \in Children, Reply(c) PROVE Waits'
    BY <2>12 DEF Reply, registry, callers, process, connect, watchers, retry, history,
      TypeInv, TypeOK, ValuesOK, CallInv, Born
  <2>13. ASSUME NEW c \in Children, NEW w \in Conditions, Ends(c, w) PROVE Waits'
    BY <2>13 DEF Ends, registry, callers, connect, watchers, retry, history, TypeInv,
      TypeOK, ValuesOK, CallInv, Born
  <2>14. ASSUME ConnectStart PROVE Waits'
    BY <2>14 DEF ConnectStart, Announce, registry, callers, process, pipes, retry,
      history, TypeInv, TypeOK, ValuesOK, CallInv, Born
  <2>15. ASSUME SpawnFails PROVE Waits'
    BY <2>15 DEF SpawnFails, Announce, registry, callers, process, pipes, history,
      TypeInv, TypeOK, ValuesOK, CallInv, Born
  <2>16. ASSUME Spawn PROVE Waits'
    BY <2>16 DEF Spawn, registry, callers, pipes, watchers, retry, history, TypeInv,
      TypeOK, ValuesOK, CallInv, Born
  <2>17. ASSUME MakeLive PROVE Waits'
    BY <2>17 DEF MakeLive, registry, callers, process, pipes, watchers, retry, history,
      TypeInv, TypeOK, ValuesOK, CallInv, Born
  <2>18. ASSUME Connected PROVE Waits'
    BY <2>18 DEF Connected, Announce, registry, callers, process, pipes, TypeInv,
      TypeOK, ValuesOK, CallInv, Born
  <2>19. ASSUME Subscribe PROVE Waits'
    BY <2>19 DEF Subscribe, Wakers, registry, callers, process, pipes, connect, retry,
      history, TypeInv, TypeOK, ValuesOK, CallInv, Born
  <2>20. ASSUME Observe PROVE Waits'
    BY <2>20 DEF Observe, Wakers, registry, callers, process, pipes, connect, retry,
      history, TypeInv, TypeOK, ValuesOK, CallInv, Born
  <2>21. ASSUME Run PROVE Waits'
    BY <2>21 DEF Run, registry, callers, process, pipes, connect, retry, TypeInv,
      TypeOK, ValuesOK, CallInv, Born
  <2>22. ASSUME Delay PROVE Waits'
    BY <2>22 DEF Delay, Announce, registry, callers, process, pipes, connect, history,
      TypeInv, TypeOK, ValuesOK, CallInv, Born
  <2>23. ASSUME Try PROVE Waits'
    BY <2>23 DEF Try, registry, callers, process, pipes, watchers, history, TypeInv,
      TypeOK, ValuesOK, CallInv, Born
  <2>24. ASSUME Failed PROVE Waits'
    BY <2>24 DEF Failed, StopAndReport, registry, callers, process, pipes, connect,
      watchers, TypeInv, TypeOK, ValuesOK, CallInv, Born
  <2>25. ASSUME Release PROVE Waits'
    BY <2>25 DEF Release, registry, callers, process, pipes, connect, watchers, history,
      TypeInv, TypeOK, ValuesOK, CallInv, Born
  <2>26. CASE UNCHANGED vars
    BY <2>26 DEF vars, registry, callers, process, pipes, connect, watchers, retry,
      history, TypeInv, TypeOK, ValuesOK, CallInv, Born
  <2> QED
    BY <2>1, <2>2, <2>3, <2>4, <2>5, <2>6, <2>7, <2>8, <2>9, <2>10, <2>11, <2>12, <2>13,
      <2>14, <2>15, <2>16, <2>17, <2>18, <2>19, <2>20, <2>21, <2>22, <2>23, <2>24,
      <2>25, <2>26
    DEF Next, Caller, Threads, Connect, Loop
<1>3. TypeInv /\ Waits => NoneWaitsForTheDead
  BY DEF TypeInv, NoneWaitsForTheDead
<1> QED
  BY <1>1, <1>2, <1>3, TypeInvHolds, CallInvHolds, PTL DEF Spec

\* The transport implements Exchange: it begins as Exchange does, and every step is one of
\* its steps or changes no outcome (that a request is settled at last is left to TLC).
THEOREM ImplementsExchange == Spec => Promised!Init /\ [][Promised!Next]_Outcome
<1>1. Init => Promised!Init
  BY DEF Init, Promised!Init, Outcome
<1>2. TypeInv /\ CallInv /\ [Next]_vars => [Promised!Next]_Outcome
  <2> SUFFICES ASSUME TypeInv, CallInv, [Next]_vars PROVE [Promised!Next]_Outcome
    OBVIOUS
  <2>1. ASSUME NEW q \in Requests, Register(q) PROVE Promised!Begin(q)
    BY <2>1 DEF Register, callers, TypeInv, TypeOK, ValuesOK, Outcome, Promised!Begin
  <2>2. ASSUME NEW q \in Requests, NEW o \in Results,
               call[q] \in {"registered", "awaiting"},
               call' = [call EXCEPT ![q] = "done"], result' = [result EXCEPT ![q] = o]
        PROVE  Promised!Settle(q)
    <3>1. Outcome[q] = "waiting" /\ Outcome' = [Outcome EXCEPT ![q] = o]
      BY <2>2 DEF TypeInv, TypeOK, ValuesOK, Outcome
    <3> QED
      BY <3>1 DEF Results, Promised!Settle, Promised!Outcomes
  <2>3. ASSUME NEW q \in Requests, Refuse(q) PROVE Promised!Settle(q)
    BY <2>2, <2>3 DEF Refuse, Ready, Results
  <2>4. ASSUME NEW q \in Requests, Push(q) PROVE Promised!Settle(q) \/ UNCHANGED Outcome
    <3>1. CASE live = 0
      BY <2>2, <2>4, <3>1 DEF Push, Queued, Ready, Results
    <3>2. CASE live # 0
      BY <2>4, <3>2 DEF Push, Queued, Outcome, TypeInv, TypeOK, ValuesOK
    <3> QED
      BY <3>1, <3>2
  <2>5. ASSUME NEW q \in Requests, Await(q) PROVE Promised!Settle(q)
    <3>1. slot[q] \in Results
      BY <2>5 DEF Await, TypeInv, TypeOK, ValuesOK
    <3> QED
      BY <2>2, <2>5, <3>1 DEF Await
  <2>6. ASSUME NEW q \in Requests, TimeOut(q) PROVE Promised!Settle(q)
    BY <2>2, <2>6 DEF TimeOut, Results
  <2>7. ASSUME UNCHANGED <<call, result>> PROVE UNCHANGED Outcome
    BY <2>7 DEF Outcome
  <2>8. \/ \E q \in Requests : Register(q) \/ Refuse(q) \/ Push(q) \/ Await(q) \/ TimeOut(q)
        \/ UNCHANGED <<call, result>>
    BY DEF Next, Caller, Threads, Connect, Loop, Withdraw, Deliver, Eof, Shut, FailAll,
      Lost, Exited, Reply, Ends, ConnectStart, SpawnFails, Spawn, MakeLive, Connected,
      Subscribe, Observe, Run, Delay, Try, Failed, StopAndReport, Release, vars, callers
  <2> QED
    BY <2>1, <2>3, <2>4, <2>5, <2>6, <2>7, <2>8 DEF Promised!Next
<1> QED
  BY <1>1, <1>2, TypeInvHolds, CallInvHolds, PTL DEF Spec

-----------------------------------------------------------------------------
(* One connection                                                          *)

\* Whose turn it is to connect: the launch's, then one loop's at a time.
TurnInv ==
  /\ running <=> loop # "none"
  /\ ~subscribed => loop = "none" /\ ~byLoop
  /\ conn # "idle" => IF byLoop THEN loop = "connect" ELSE ~subscribed
  /\ loop = "connect" => conn # "idle" /\ byLoop
  /\ conn \in {"start", "spawn"} /\ ~byLoop => Born = {}

\* While no loop began for a loss that was over, only the newest child is not done, and
\* none is while the next is to be started.
LineInv ==
  /\ conn # "live" => live = Newest
  /\ conn \in {"live", "announce"} => Newest # 0
  /\ conn \in {"spawn", "live", "announce"} => state # "connected"
  /\ state = "connected" => live # 0 /\ (reader[live] = "done" => masked)
  /\ ~stale =>
       /\ \A c \in Born : c # Newest => reader[c] = "done"
       /\ conn \in {"start", "spawn"} \/ loop \in {"delay", "sleep", "failed"}
            => \A c \in Born : reader[c] = "done"

ConnInv == TurnInv /\ LineInv

\* One action after the other, of whoever connects and of the readers.
LEMMA ConnInvHolds == Spec => []ConnInv
<1>1. Init => ConnInv
  <2> SUFFICES ASSUME Init PROVE ConnInv
    OBVIOUS
  <2>1. Born = {} /\ Newest = 0
    BY DEF Init, Born, Newest
  <2> QED
    BY <2>1 DEF Init, ConnInv, TurnInv, LineInv
<1>2. TypeInv /\ TypeInv' /\ CallInv /\ ConnInv /\ [Next]_vars => ConnInv'
  <2> SUFFICES ASSUME TypeInv, TypeInv', CallInv, ConnInv, [Next]_vars PROVE ConnInv'
    OBVIOUS
  <2>1. ASSUME NEW q \in Requests, Register(q) PROVE ConnInv'
    BY <2>1 DEF Register, process, pipes, connect, watchers, retry, history, TypeInv,
      TypeOK, ValuesOK, CallInv, ConnInv, TurnInv, LineInv, Newest, Born
  <2>2. ASSUME NEW q \in Requests, Refuse(q) PROVE ConnInv'
    BY <2>2 DEF Refuse, Ready, Resolve, process, pipes, connect, watchers, retry,
      history, registry, TypeInv, TypeOK, ValuesOK, CallInv, ConnInv, TurnInv, LineInv,
      Newest, Born
  <2>3. ASSUME NEW q \in Requests, Push(q) PROVE ConnInv'
    BY <2>3 DEF Push, Queued, Ready, Resolve, registry, process, connect, watchers, retry,
      TypeInv, TypeOK, ValuesOK, CallInv, ConnInv, TurnInv, LineInv, Newest, Born
  <2>4. ASSUME NEW q \in Requests, Await(q) PROVE ConnInv'
    BY <2>4 DEF Await, registry, process, pipes, connect, watchers, retry, history,
      TypeInv, TypeOK, ValuesOK, CallInv, ConnInv, TurnInv, LineInv, Newest, Born
  <2>5. ASSUME NEW q \in Requests, TimeOut(q) PROVE ConnInv'
    BY <2>5 DEF TimeOut, Resolve, process, pipes, connect, watchers, retry, history,
      registry, TypeInv, TypeOK, ValuesOK, CallInv, ConnInv, TurnInv, LineInv, Newest,
      Born
  <2>6. ASSUME NEW q \in Requests, Withdraw(q) PROVE ConnInv'
    BY <2>6 DEF Withdraw, Resolve, callers, process, pipes, connect, watchers, retry,
      history, registry, TypeInv, TypeOK, ValuesOK, CallInv, ConnInv, TurnInv, LineInv,
      Newest, Born
  <2>7. ASSUME NEW c \in Children, Deliver(c) PROVE ConnInv'
    BY <2>7 DEF Deliver, Resolve, callers, process, connect, watchers, retry, history,
      registry, TypeInv, TypeOK, ValuesOK, CallInv, ConnInv, TurnInv, LineInv, Newest,
      Born
  <2>8. ASSUME NEW c \in Children, Eof(c) PROVE ConnInv'
    BY <2>8 DEF Eof, Shut, registry, callers, process, connect, watchers, retry, history,
      TypeInv, TypeOK, ValuesOK, CallInv, ConnInv, TurnInv, LineInv, Newest, Born
  <2>9. ASSUME NEW c \in Children, FailAll(c) PROVE ConnInv'
    BY <2>9 DEF FailAll, callers, process, pipes, connect, watchers, retry, history,
      TypeInv, TypeOK, ValuesOK, CallInv, ConnInv, TurnInv, LineInv, Newest, Born
  <2>10. ASSUME NEW c \in Children, Lost(c) PROVE ConnInv'
    BY <2>10 DEF Lost, Announce, registry, callers, process, pipes, connect, retry,
      history, TypeInv, TypeOK, ValuesOK, CallInv, ConnInv, TurnInv, LineInv, Newest,
      Born
  <2>11. ASSUME NEW c \in Children, Exited(c) PROVE ConnInv'
    BY <2>11 DEF Exited, registry, callers, process, pipes, connect, watchers, retry,
      history, TypeInv, TypeOK, ValuesOK, CallInv, ConnInv, TurnInv, LineInv, Newest,
      Born
  <2>12. ASSUME NEW c \in Children, Reply(c) PROVE ConnInv'
    BY <2>12 DEF Reply, registry, callers, process, connect, watchers, retry, history,
      TypeInv, TypeOK, ValuesOK, CallInv, ConnInv, TurnInv, LineInv, Newest, Born
  <2>13. ASSUME NEW c \in Children, NEW w \in Conditions, Ends(c, w) PROVE ConnInv'
    BY <2>13 DEF Ends, registry, callers, connect, watchers, retry, history, TypeInv,
      TypeOK, ValuesOK, CallInv, ConnInv, TurnInv, LineInv, Newest, Born
  <2>14. ASSUME ConnectStart PROVE ConnInv'
    BY <2>14 DEF ConnectStart, Announce, registry, callers, process, pipes, retry,
      history, TypeInv, TypeOK, ValuesOK, CallInv, ConnInv, TurnInv, LineInv, Newest,
      Born
  <2>15. ASSUME SpawnFails PROVE ConnInv'
    BY <2>15 DEF SpawnFails, Announce, registry, callers, process, pipes, history,
      TypeInv, TypeOK, ValuesOK, CallInv, ConnInv, TurnInv, LineInv, Newest, Born
  <2>16. ASSUME Spawn PROVE ConnInv'
    <3>0. /\ conn = "spawn" /\ conn' = "live"
          /\ Newest \in 0 .. MaxChildren /\ Newest + 1 \in Children /\ Born = 1 .. Newest
          /\ proc' = [proc EXCEPT ![Newest + 1] = "alive"]
          /\ reader' = [reader EXCEPT ![Newest + 1] = "reading"]
          /\ UNCHANGED <<byLoop, subscribed, wakers, running, loop, live, state, masked, stale>>
      BY <2>16, NewestLast, BoundsAssumption DEF Spawn, watchers, retry, history, Children
    <3>1. Born' = 1 .. (Newest + 1)
      BY <3>0, BoundsAssumption DEF Born, Children, TypeInv, TypeOK, ValuesOK
    <3>2. Newest' = Newest + 1
      <4>1. PICK n \in 0 .. MaxChildren : n = Newest
        BY <3>0
      <4>2. n + 1 \in Born' /\ \A d \in Born' : d <= n + 1
        BY <3>1, <4>1, BoundsAssumption
      <4>3. Newest' \in Born' /\ \A d \in Born' : d <= Newest'
        BY <4>2 DEF Newest
      <4>4. Newest' = n + 1
        BY <3>1, <4>1, <4>2, <4>3, BoundsAssumption
      <4> QED
        BY <4>1, <4>4
    <3>3. TurnInv'
      BY <3>0 DEF ConnInv, TurnInv
    <3>4. LineInv'
      BY <3>0, <3>1, <3>2, BoundsAssumption DEF ConnInv, LineInv, TurnInv, CallInv, TypeInv,
        TypeOK, ValuesOK, Children
    <3> QED
      BY <3>3, <3>4 DEF ConnInv
  <2>17. ASSUME MakeLive PROVE ConnInv'
    BY <2>17 DEF MakeLive, registry, callers, process, pipes, watchers, retry, history,
      TypeInv, TypeOK, ValuesOK, CallInv, ConnInv, TurnInv, LineInv, Newest, Born
  <2>18. ASSUME Connected PROVE ConnInv'
    BY <2>18 DEF Connected, Announce, registry, callers, process, pipes, TypeInv,
      TypeOK, ValuesOK, CallInv, ConnInv, TurnInv, LineInv, Newest, Born
  <2>19. ASSUME Subscribe PROVE ConnInv'
    BY <2>19 DEF Subscribe, Wakers, registry, callers, process, pipes, connect, retry,
      history, TypeInv, TypeOK, ValuesOK, CallInv, ConnInv, TurnInv, LineInv, Newest,
      Born
  <2>20. ASSUME Observe PROVE ConnInv'
    BY <2>20 DEF Observe, Wakers, registry, callers, process, pipes, connect, retry,
      history, TypeInv, TypeOK, ValuesOK, CallInv, ConnInv, TurnInv, LineInv, Newest,
      Born
  <2>21. ASSUME Run PROVE ConnInv'
    <3>0. /\ UNCHANGED <<conn, byLoop, subscribed, live, state, masked, reader, Born, Newest>>
          /\ wakers > 0 /\ subscribed
      BY <2>21 DEF Run, process, connect, Born, Newest, TypeInv
    <3>1. CASE running
      BY <2>21, <3>0, <3>1 DEF Run, retry, ConnInv, TurnInv, LineInv
    <3>2. CASE ~running
      <4>1. /\ running' /\ loop' = "delay" /\ loop = "none" /\ conn = "idle"
            /\ live = Newest
            /\ ~stale' => ~stale /\ (live # 0 => reader[live] = "done")
        BY <2>21, <3>0, <3>2 DEF Run, ConnInv, TurnInv, LineInv
      <4>2. \A c \in Born : c # Newest \/ live # 0
        BY <4>1, NewestLast, BoundsAssumption
      <4>3. TurnInv'
        BY <3>0, <4>1 DEF ConnInv, TurnInv
      <4>4. LineInv'
        BY <3>0, <4>1, <4>2 DEF ConnInv, LineInv
      <4> QED
        BY <4>3, <4>4 DEF ConnInv
    <3> QED
      BY <3>1, <3>2
  <2>22. ASSUME Delay PROVE ConnInv'
    BY <2>22 DEF Delay, Announce, registry, callers, process, pipes, connect, history,
      TypeInv, TypeOK, ValuesOK, CallInv, ConnInv, TurnInv, LineInv, Newest, Born
  <2>23. ASSUME Try PROVE ConnInv'
    BY <2>23 DEF Try, registry, callers, process, pipes, watchers, history, TypeInv,
      TypeOK, ValuesOK, CallInv, ConnInv, TurnInv, LineInv, Newest, Born
  <2>24. ASSUME Failed PROVE ConnInv'
    BY <2>24 DEF Failed, StopAndReport, registry, callers, process, pipes, connect,
      watchers, TypeInv, TypeOK, ValuesOK, CallInv, ConnInv, TurnInv, LineInv, Newest, Born
  <2>25. ASSUME Release PROVE ConnInv'
    BY <2>25 DEF Release, registry, callers, process, pipes, connect, watchers, history,
      TypeInv, TypeOK, ValuesOK, CallInv, ConnInv, TurnInv, LineInv, Newest, Born
  <2>26. CASE UNCHANGED vars
    BY <2>26 DEF vars, registry, callers, process, pipes, connect, watchers, retry,
      history, TypeInv, TypeOK, ValuesOK, CallInv, ConnInv, TurnInv, LineInv, Newest,
      Born
  <2> QED
    BY <2>1, <2>2, <2>3, <2>4, <2>5, <2>6, <2>7, <2>8, <2>9, <2>10, <2>11, <2>12, <2>13,
      <2>14, <2>15, <2>16, <2>17, <2>18, <2>19, <2>20, <2>21, <2>22, <2>23, <2>24,
      <2>25, <2>26
    DEF Next, Caller, Threads, Connect, Loop
<1> QED
  BY <1>1, <1>2, TypeInvHolds, CallInvHolds, PTL DEF Spec

\* There is one connection, and what is said of it is what its reader said, unless a loop
\* began for a loss that was over.
THEOREM OneConnectionItsState == Spec => []StateIsTheChilds
<1>1. TypeInv /\ CallInv /\ ConnInv => StateIsTheChilds
  BY DEF TypeInv, TypeOK, ValuesOK, CallInv, ConnInv, LineInv, StateIsTheChilds,
    OneConnection, Born
<1> QED
  BY <1>1, TypeInvHolds, CallInvHolds, ConnInvHolds, PTL

\* A loss fails the requests of the connection it ended, with the same proviso.
THEOREM LossFailsItsOwn == Spec => FailedWithItsOwn
<1>1. /\ TypeInv /\ CallInv /\ ConnInv /\ [Next]_vars
      => [\A q \in Requests :
            call[q] = "awaiting" /\ slot[q] = "none" /\ slot'[q] = "lost"
              => proc[to[q]] = "ended" \/ stale]_vars
  <2> SUFFICES ASSUME TypeInv, CallInv, ConnInv, Next, NEW q \in Requests, ~stale,
                      call[q] = "awaiting", slot[q] = "none", slot'[q] = "lost"
               PROVE  proc[to[q]] = "ended"
    OBVIOUS
  <2>1. PICK c \in Children : FailAll(c)
    BY DEF Next, Caller, Threads, Connect, Loop, Register, Refuse, Push, Queued, Await,
      TimeOut, Withdraw, Ready, Resolve, Deliver, Eof, Shut, Lost, Exited, Reply, Ends,
      ConnectStart, SpawnFails, Spawn, MakeLive, Connected, Subscribe, Observe, Run, Delay,
      Try, Failed, StopAndReport, Release, registry, TypeInv, TypeOK, ValuesOK
  <2>2. reader[c] = "fail" /\ c \in Born /\ to[q] \in Born
    BY <2>1 DEF FailAll, CallInv, Born
  <2>3. c = Newest
    BY <2>2 DEF ConnInv, LineInv
  <2>4. CASE to[q] = Newest
    BY <2>2, <2>3, <2>4 DEF CallInv
  <2>5. CASE to[q] # Newest
    BY <2>2, <2>5 DEF ConnInv, LineInv, CallInv, Born
  <2> QED
    BY <2>4, <2>5
<1> QED
  BY <1>1, TypeInvHolds, CallInvHolds, ConnInvHolds, PTL DEF Spec, FailedWithItsOwn

\* While there is no connection and the launch is over, somebody is to try again, and until
\* it is observed the state says how the launch came out.
LossIsTaken ==
  /\ ~subscribed /\ conn = "idle" => state \in {"connected", "disconnected"}
  /\ Down => \/ gaveUp \/ missed \/ masked
             \/ wakers > 0
             \/ fresh /\ state = "disconnected"
             \/ loop \notin {"none", "release"}

\* No loss is overlooked: while there is no connection, the loss is still to be observed,
\* a thread was started for it, or a loop is at it that will look again -- unless a loop
\* gave up, or the loss was dropped or masked. (KeepsTrying rests on this; that the
\* threads then run is left to TLC.)
THEOREM NoLossIsOverlooked == Spec => []LossIsTaken
<1>1. Init => LossIsTaken
  BY DEF Init, LossIsTaken, Down
<1>2. TypeInv /\ TypeInv' /\ CallInv /\ ConnInv /\ LossIsTaken /\ [Next]_vars => LossIsTaken'
  <2> SUFFICES ASSUME TypeInv, TypeInv', CallInv, ConnInv, LossIsTaken, [Next]_vars
               PROVE  LossIsTaken'
    OBVIOUS
  <2>1. ASSUME NEW q \in Requests, Register(q) PROVE LossIsTaken'
    BY <2>1 DEF Register, process, pipes, connect, watchers, retry, history, TypeInv,
      TypeOK, ValuesOK, CallInv, ConnInv, TurnInv, LineInv, LossIsTaken, Down, Born
  <2>2. ASSUME NEW q \in Requests, Refuse(q) PROVE LossIsTaken'
    BY <2>2 DEF Refuse, Ready, Resolve, process, pipes, connect, watchers, retry, history,
      registry, TypeInv, TypeOK, ValuesOK, CallInv, ConnInv, TurnInv, LineInv, LossIsTaken,
      Down, Born
  <2>3. ASSUME NEW q \in Requests, Push(q) PROVE LossIsTaken'
    BY <2>3 DEF Push, Queued, Ready, Resolve, registry, process, connect, watchers, retry,
      TypeInv, TypeOK, ValuesOK, CallInv, ConnInv, TurnInv, LineInv, LossIsTaken, Down, Born
  <2>4. ASSUME NEW q \in Requests, Await(q) PROVE LossIsTaken'
    BY <2>4 DEF Await, registry, process, pipes, connect, watchers, retry, history,
      TypeInv, TypeOK, ValuesOK, CallInv, ConnInv, TurnInv, LineInv, LossIsTaken, Down, Born
  <2>5. ASSUME NEW q \in Requests, TimeOut(q) PROVE LossIsTaken'
    BY <2>5 DEF TimeOut, Resolve, process, pipes, connect, watchers, retry, history,
      registry, TypeInv, TypeOK, ValuesOK, CallInv, ConnInv, TurnInv, LineInv, LossIsTaken,
      Down, Born
  <2>6. ASSUME NEW q \in Requests, Withdraw(q) PROVE LossIsTaken'
    BY <2>6 DEF Withdraw, Resolve, callers, process, pipes, connect, watchers, retry,
      history, registry, TypeInv, TypeOK, ValuesOK, CallInv, ConnInv, TurnInv, LineInv,
      LossIsTaken, Down, Born
  <2>7. ASSUME NEW c \in Children, Deliver(c) PROVE LossIsTaken'
    BY <2>7 DEF Deliver, Resolve, callers, process, connect, watchers, retry, history,
      registry, TypeInv, TypeOK, ValuesOK, CallInv, ConnInv, TurnInv, LineInv, LossIsTaken,
      Down, Born
  <2>8. ASSUME NEW c \in Children, Eof(c) PROVE LossIsTaken'
    BY <2>8 DEF Eof, Shut, registry, callers, process, connect, watchers, retry, history,
      TypeInv, TypeOK, ValuesOK, CallInv, ConnInv, TurnInv, LineInv, LossIsTaken, Down, Born
  <2>9. ASSUME NEW c \in Children, FailAll(c) PROVE LossIsTaken'
    BY <2>9 DEF FailAll, callers, process, pipes, connect, watchers, retry, history,
      TypeInv, TypeOK, ValuesOK, CallInv, ConnInv, TurnInv, LineInv, LossIsTaken, Down, Born
  <2>10. ASSUME NEW c \in Children, Lost(c) PROVE LossIsTaken'
    BY <2>10 DEF Lost, Announce, registry, callers, process, pipes, connect, retry,
      history, TypeInv, TypeOK, ValuesOK, CallInv, ConnInv, TurnInv, LineInv, LossIsTaken,
      Down, Born
  <2>11. ASSUME NEW c \in Children, Exited(c) PROVE LossIsTaken'
    BY <2>11 DEF Exited, registry, callers, process, pipes, connect, watchers, retry,
      history, TypeInv, TypeOK, ValuesOK, CallInv, ConnInv, TurnInv, LineInv, LossIsTaken,
      Down, Born
  <2>12. ASSUME NEW c \in Children, Reply(c) PROVE LossIsTaken'
    BY <2>12 DEF Reply, registry, callers, process, connect, watchers, retry, history,
      TypeInv, TypeOK, ValuesOK, CallInv, ConnInv, TurnInv, LineInv, LossIsTaken, Down, Born
  <2>13. ASSUME NEW c \in Children, NEW w \in Conditions, Ends(c, w) PROVE LossIsTaken'
    BY <2>13 DEF Ends, registry, callers, connect, watchers, retry, history, TypeInv,
      TypeOK, ValuesOK, CallInv, ConnInv, TurnInv, LineInv, LossIsTaken, Down, Born
  <2>14. ASSUME ConnectStart PROVE LossIsTaken'
    BY <2>14 DEF ConnectStart, Announce, registry, callers, process, pipes, retry,
      history, TypeInv, TypeOK, ValuesOK, CallInv, ConnInv, TurnInv, LineInv, LossIsTaken,
      Down, Born
  <2>15. ASSUME SpawnFails PROVE LossIsTaken'
    BY <2>15 DEF SpawnFails, Announce, registry, callers, process, pipes, history,
      TypeInv, TypeOK, ValuesOK, CallInv, ConnInv, TurnInv, LineInv, LossIsTaken, Down, Born
  <2>16. ASSUME Spawn PROVE LossIsTaken'
    BY <2>16 DEF Spawn, registry, callers, pipes, watchers, retry, history, TypeInv,
      TypeOK, ValuesOK, CallInv, ConnInv, TurnInv, LineInv, LossIsTaken, Down, Born
  <2>17. ASSUME MakeLive PROVE LossIsTaken'
    BY <2>17 DEF MakeLive, registry, callers, process, pipes, watchers, retry, history,
      TypeInv, TypeOK, ValuesOK, CallInv, ConnInv, TurnInv, LineInv, LossIsTaken, Down, Born
  <2>18. ASSUME Connected PROVE LossIsTaken'
    BY <2>18 DEF Connected, Announce, registry, callers, process, pipes, TypeInv, TypeOK,
      ValuesOK, CallInv, ConnInv, TurnInv, LineInv, LossIsTaken, Down, Born
  <2>19. ASSUME Subscribe PROVE LossIsTaken'
    BY <2>19 DEF Subscribe, Wakers, registry, callers, process, pipes, connect, retry,
      history, TypeInv, TypeOK, ValuesOK, CallInv, ConnInv, TurnInv, LineInv, LossIsTaken,
      Down, Born
  <2>20. ASSUME Observe PROVE LossIsTaken'
    BY <2>20 DEF Observe, Wakers, registry, callers, process, pipes, connect, retry,
      history, TypeInv, TypeOK, ValuesOK, CallInv, ConnInv, TurnInv, LineInv, LossIsTaken,
      Down, Born
  <2>21. ASSUME Run PROVE LossIsTaken'
    BY <2>21 DEF Run, registry, callers, process, pipes, connect, retry, TypeInv, TypeOK,
      ValuesOK, CallInv, ConnInv, TurnInv, LineInv, LossIsTaken, Down, Born
  <2>22. ASSUME Delay PROVE LossIsTaken'
    BY <2>22 DEF Delay, Announce, registry, callers, process, pipes, connect, history,
      TypeInv, TypeOK, ValuesOK, CallInv, ConnInv, TurnInv, LineInv, LossIsTaken, Down, Born
  <2>23. ASSUME Try PROVE LossIsTaken'
    BY <2>23 DEF Try, registry, callers, process, pipes, watchers, history, TypeInv,
      TypeOK, ValuesOK, CallInv, ConnInv, TurnInv, LineInv, LossIsTaken, Down, Born
  <2>24. ASSUME Failed PROVE LossIsTaken'
    BY <2>24 DEF Failed, StopAndReport, registry, callers, process, pipes, connect,
      watchers, TypeInv, TypeOK, ValuesOK, CallInv, ConnInv, TurnInv, LineInv, LossIsTaken,
      Down, Born
  <2>25. ASSUME Release PROVE LossIsTaken'
    BY <2>25 DEF Release, registry, callers, process, pipes, connect, watchers, history,
      TypeInv, TypeOK, ValuesOK, CallInv, ConnInv, TurnInv, LineInv, LossIsTaken, Down, Born
  <2>26. CASE UNCHANGED vars
    BY <2>26 DEF vars, registry, callers, process, pipes, connect, watchers, retry,
      history, TypeInv, TypeOK, ValuesOK, CallInv, ConnInv, TurnInv, LineInv, LossIsTaken,
      Down, Born
  <2> QED
    BY <2>1, <2>2, <2>3, <2>4, <2>5, <2>6, <2>7, <2>8, <2>9, <2>10, <2>11, <2>12, <2>13,
      <2>14, <2>15, <2>16, <2>17, <2>18, <2>19, <2>20, <2>21, <2>22, <2>23, <2>24,
      <2>25, <2>26
    DEF Next, Caller, Threads, Connect, Loop
<1> QED
  BY <1>1, <1>2, TypeInvHolds, CallInvHolds, ConnInvHolds, PTL DEF Spec

-----------------------------------------------------------------------------
(* Deployment: an engine for each client, whatever releases they carry.     *)

Stages == Outcomes \cup {"idle", "silent", "prompting", "assisted", "greeting",
                     "looking", "checking", "opening", "sending", "verifying",
                     "discarding", "promoting", "starting", "retiring"}
Image == [of : Releases \cup {0}, has : SUBSET Whole, shared : BOOLEAN]

\* Handshakes are left until the last one has failed.
Tries ==
  /\ pc \in [Clients -> Stages]
  /\ tries \in [Clients -> 0..MaxStart] /\ previous \in [Clients -> Releases \cup {0}]
  /\ \A c \in Clients : /\ pc[c] \notin Outcomes \cup {"idle"} => tries[c] < MaxStart
                        /\ pc[c] = "retiring" => previous[c] # 0

\* What is armed has not been given to ssh.
Secrets ==
  /\ armed \in [Clients -> {0, 1}] /\ given \in [Clients -> {0, 1}] /\ asked \in [Clients -> 0..3]
  /\ \A c \in Clients : /\ armed[c] = 1 => given[c] = 0
                        /\ pc[c] # "assisted" => given[c] = 0 /\ asked[c] = 0

\* The files by their names: what is staged is the release it is named after, what is final
\* the one that was last given the name.
Shapes ==
  /\ world \in Worlds /\ staged \in [Releases -> Image] /\ final \in [Releases -> Image]
  /\ holder \in [Releases -> Releases \cup {0}] /\ mixed \subseteq Releases
  /\ lingering \subseteq [at : Changing, what : Releases]
  /\ output \in [Clients -> [to : {"none", "staged", "final", "nowhere"}, at : 0..Chunks]]
  /\ \A r \in Releases : /\ staged[r].of = r \/ staged[r] = NoFile
                         /\ final[r] # NoFile => /\ final[r].of # 0 /\ final[r].of = holder[r]
                                                 /\ version[holder[r]] = r

\* Who sends has a file open, and the file has its name while it is that one.
Writers ==
  \A c \in Clients :
    /\ pc[c] = "sending" <=> output[c].to # "none"
    /\ output[c].to = "staged" => staged[carries[c]] # NoFile
    /\ output[c].to = "final" => final[Mine(c)] # NoFile /\ final[Mine(c)].shared

Renaming(r) == \/ \E c \in Clients : carries[c] = r /\ pc[c] = "promoting"
               \/ [at |-> "promoting", what |-> r] \in lingering
Removing(v) == \/ \E c \in Clients : previous[c] = v /\ pc[c] = "retiring"
               \/ [at |-> "retiring", what |-> v] \in lingering

\* Who writes what nobody emptied is the only one at work on it.
Alone ==
  \A c \in Clients : output[c].to = "staged" /\ ~staged[carries[c]].shared =>
    /\ [at |-> "promoting", what |-> carries[c]] \notin lingering
    /\ \A d \in Clients : carries[d] = carries[c] /\ d # c =>
         pc[d] \notin {"sending", "verifying", "promoting"}

\* What is to be renamed, and what was, is whole unless it was emptied.
Verified ==
  \A r \in Releases :
    /\ Renaming(r) /\ staged[r] # NoFile /\ ~staged[r].shared => staged[r].has = Whole
    /\ final[r] # NoFile /\ ~final[r].shared => final[r].has = Whole

\* While every name is that of one release: what a client replaces is older than what it
\* carries, and what is to be removed older than another that runs.
Newer ==
  mixed = {} =>
    /\ \A v \in Releases :
         /\ ~final[v].shared
         /\ Removing(v) => /\ holder[v] # 0
                           /\ \E w \in Releases : /\ Starts(w) /\ holder[w] # 0
                                                  /\ protocol[holder[v]] < protocol[holder[w]]
    /\ \A c \in Clients :
         /\ pc[c] = "starting" => holder[Mine(c)] = carries[c]
         /\ previous[c] # 0 => /\ holder[previous[c]] # 0
                               /\ protocol[holder[previous[c]]] < protocol[carries[c]]

Host == Shapes /\ Writers /\ Alone /\ Verified /\ Newer
DeployInv == Tries /\ Secrets /\ Host
-----------------------------------------------------------------------------
(* What the actions have in common                                         *)

LEMMA WorldIs ==
  ASSUME world \in Worlds
  PROVE  /\ carries \in [Clients -> Releases] /\ protocol \in [Releases -> Nat]
         /\ version \in [Releases -> Releases] /\ runnable \subseteq Releases
         /\ 0 \notin Releases /\ \A c \in Clients : Mine(c) \in Releases
BY WorldsAssumption, ReleasesAssumption DEF carries, protocol, version, runnable, Mine

LEMMA WorldStays ==
  ASSUME UNCHANGED world
  PROVE  /\ carries' = carries /\ protocol' = protocol /\ version' = version
         /\ runnable' = runnable /\ \A c \in Clients : Mine(c)' = Mine(c)
BY DEF carries, protocol, version, runnable, Mine

\* Of what is in place something is newer than what is to be removed, after a step too that
\* takes an engine away only for a newer one.
LEMMA NewerStays ==
  ASSUME Newer, Tries, Shapes, Shapes', UNCHANGED <<world, previous>>,
         mixed' = {} =>
           /\ mixed = {} /\ \A v \in Releases : ~final'[v].shared
           /\ \A v \in Releases :
                /\ holder[v] # 0 => holder'[v] = holder[v]
                /\ Removing(v)' => Removing(v)
                /\ Starts(v) /\ holder[v] # 0 =>
                     \E w \in Releases : /\ Starts(w)' /\ holder'[w] # 0
                                         /\ protocol[holder[v]] <= protocol[holder'[w]]
           /\ \A c \in Clients :
                pc'[c] = "starting" => pc[c] = "starting" \/ holder'[Mine(c)] = carries[c]
  PROVE  Newer'
<1> USE WorldIs, WorldStays DEF Shapes
<1> SUFFICES ASSUME mixed' = {} PROVE Newer'
  BY DEF Newer
<1>1. ASSUME NEW v \in Releases, Removing(v)'
      PROVE  /\ holder'[v] # 0
             /\ \E w \in Releases : /\ Starts(w)' /\ holder'[w] # 0
                                    /\ protocol[holder'[v]] < protocol[holder'[w]]
  <2>1. holder[v] # 0 /\ holder'[v] = holder[v]
    BY <1>1 DEF Newer
  <2>2. PICK w \in Releases : /\ Starts(w) /\ holder[w] # 0
                              /\ protocol[holder[v]] < protocol[holder[w]]
    BY <1>1 DEF Newer
  <2>3. PICK u \in Releases : /\ Starts(u)' /\ holder'[u] # 0
                              /\ protocol[holder[w]] <= protocol[holder'[u]]
    BY <2>2
  <2>4. /\ protocol[holder[v]] \in Nat /\ protocol[holder[w]] \in Nat
        /\ protocol[holder'[u]] \in Nat
    BY <2>1, <2>2, <2>3
  <2> QED
    BY <2>1, <2>2, <2>3, <2>4
<1>2. ASSUME NEW c \in Clients, pc'[c] = "starting" PROVE holder'[Mine(c)] = carries[c]
  BY <1>2 DEF Newer
<1>3. ASSUME NEW c \in Clients, previous[c] # 0
      PROVE  /\ holder'[previous[c]] # 0
             /\ protocol[holder'[previous[c]]] < protocol[carries[c]]
  BY <1>3 DEF Newer, Tries
<1> QED
  BY <1>1, <1>2, <1>3 DEF Newer

\* A step that leaves the files alone.
LEMMA FilesRest ==
  ASSUME Tries, Host, UNCHANGED <<world, files>>,
         NEW c \in Clients, NEW at \in Stages, Goes(c, at), at # "sending", Leaves(c),
         \/ pc[c] # "sending" /\ UNCHANGED output
         \/ output' = [output EXCEPT ![c] = Closed],
         at = "verifying" => pc[c] = "sending",
         at = "promoting" => pc[c] = "verifying" /\ Intact(c),
         at = "starting" /\ mixed = {} => holder[Mine(c)] = carries[c],
         at = "retiring" => pc[c] = "starting" /\ Starts(Mine(c)) /\ previous[c] # 0,
         NEW p \in Releases \cup {0}, previous' = [previous EXCEPT ![c] = p],
         \/ p = previous[c]
         \/ at # "retiring" /\ pc[c] # "retiring"
            /\ (p # 0 => holder[p] # 0 /\ protocol[holder[p]] < protocol[carries[c]])
  PROVE  Host'
<1> USE WorldIs, WorldStays DEF Shapes, Host
<1>1. /\ UNCHANGED <<staged, final, holder, mixed>>
      /\ pc' \in [Clients -> Stages] /\ pc'[c] = at
      /\ \A d \in Clients : d # c => pc'[d] = pc[d] /\ previous'[d] = previous[d]
      /\ previous'[c] = p
  BY DEF files, Goes, Tries
<1>2. /\ \A d \in Clients : d # c => output'[d] = output[d]
      /\ output'[c] = output[c] \/ output'[c] = Closed
      /\ output' \in [Clients -> [to : {"none", "staged", "final", "nowhere"}, at : 0..Chunks]]
  BY BoundAssumption DEF Closed
<1>3. /\ lingering' \subseteq [at : Changing, what : Releases]
      /\ \A r \in Releases : /\ Renaming(r)' => Renaming(r)
                                              \/ (at = "promoting" /\ carries[c] = r)
                             /\ [at |-> "promoting", what |-> r] \in lingering' =>
                                  \/ [at |-> "promoting", what |-> r] \in lingering
                                  \/ pc[c] = "promoting" /\ carries[c] = r
                             /\ Removing(r)' => Removing(r)
                                              \/ (at = "retiring" /\ previous[c] = r)
  <2>1. CASE UNCHANGED lingering
    <3>1. \A r \in Releases : Renaming(r)' => Renaming(r) \/ (at = "promoting" /\ carries[c] = r)
      BY <1>1, <2>1 DEF Renaming
    <3>2. \A r \in Releases : Removing(r)' => Removing(r) \/ (at = "retiring" /\ previous[c] = r)
      BY <1>1, <2>1 DEF Removing
    <3> QED
      BY <2>1, <3>1, <3>2
  <2>2. CASE pc[c] \in Changing /\ lingering' = lingering \cup {Command(c)}
    <3>1. Command(c) \in [at : Changing, what : Releases]
      BY <2>2 DEF Command, Tries
    <3>2. /\ Command(c).at = pc[c]
          /\ pc[c] = "promoting" => Command(c).what = carries[c]
          /\ pc[c] = "retiring" => Command(c).what = previous[c]
      BY DEF Command
    <3>3. \A r \in Releases :
            /\ [at |-> "promoting", what |-> r] = Command(c) => pc[c] = "promoting" /\ carries[c] = r
            /\ [at |-> "retiring", what |-> r] = Command(c) => pc[c] = "retiring" /\ previous[c] = r
      BY <3>2
    <3> QED
      BY <1>1, <2>2, <3>1, <3>3 DEF Renaming, Removing
  <2> QED
    BY <2>1, <2>2 DEF Leaves
<1>4. Shapes'
  BY <1>1, <1>2, <1>3
<1>5. Writers'
  BY <1>1, <1>2 DEF Writers, Closed, Goes
<1>6. Alone'
  <2> SUFFICES ASSUME NEW d \in Clients, output'[d].to = "staged", ~staged[carries[d]].shared
               PROVE  /\ [at |-> "promoting", what |-> carries[d]] \notin lingering'
                      /\ \A e \in Clients : carries[e] = carries[d] /\ e # d =>
                           pc'[e] \notin {"sending", "verifying", "promoting"}
    BY <1>1 DEF Alone
  <2>1. output[d].to = "staged" /\ d # c
    BY <1>2, <1>5, <1>1 DEF Closed, Writers
  <2> QED
    BY <1>1, <1>3, <2>1 DEF Alone
<1>7. Verified'
  BY <1>1, <1>3 DEF Verified, Intact
<1>8. Newer'
  <2> SUFFICES ASSUME mixed = {} PROVE Newer'
    BY <1>1 DEF Newer
  <2>1. \A w \in Releases : Starts(w)' <=> Starts(w)
    BY <1>1 DEF Starts
  <2>2. \A v \in Releases : Removing(v)' =>
          /\ holder[v] # 0
          /\ \E w \in Releases : /\ Starts(w) /\ holder[w] # 0
                                 /\ protocol[holder[v]] < protocol[holder[w]]
    <3> SUFFICES ASSUME NEW v \in Releases, Removing(v)'
                 PROVE  /\ holder[v] # 0
                        /\ \E w \in Releases : /\ Starts(w) /\ holder[w] # 0
                                               /\ protocol[holder[v]] < protocol[holder[w]]
      OBVIOUS
    <3>1. CASE Removing(v)
      BY <3>1 DEF Newer
    <3>2. CASE at = "retiring" /\ previous[c] = v
      BY <3>2, <1>1 DEF Newer
    <3> QED
      BY <1>3, <3>1, <3>2
  <2>3. \A d \in Clients : pc'[d] = "starting" => holder[Mine(d)] = carries[d]
    BY <1>1 DEF Newer
  <2>4. \A d \in Clients : previous'[d] # 0 =>
          holder[previous'[d]] # 0 /\ protocol[holder[previous'[d]]] < protocol[carries[d]]
    BY <1>1 DEF Newer
  <2> QED
    BY <1>1, <2>1, <2>2, <2>3, <2>4 DEF Newer
<1> QED
  BY <1>4, <1>5, <1>6, <1>7, <1>8

\* A client is done with its file, or none of them moves; a command is run, or none.
Settled == /\ UNCHANGED <<world, previous>> /\ lingering' \subseteq lingering
           /\ \/ UNCHANGED pc
              \/ \E c \in Clients, at \in {"starting", "failed", "ready"} :
                   pc[c] # "sending" /\ Goes(c, at)

LEMMA Settles ==
  ASSUME Tries, Host, Settled
  PROVE  /\ \A r \in Releases : Renaming(r)' => Renaming(r)
         /\ \A v \in Releases : Removing(v)' => Removing(v)
         /\ \A d \in Clients :
              pc'[d] = pc[d] \/ (pc[d] # "sending" /\ pc'[d] \in {"starting", "failed", "ready"})
<1> USE WorldIs, WorldStays DEF Shapes, Host
<1>1. \A d \in Clients :
         pc'[d] = pc[d] \/ (pc[d] # "sending" /\ pc'[d] \in {"starting", "failed", "ready"})
  BY DEF Settled, Goes, Tries
<1>2. \A r \in Releases : Renaming(r)' => Renaming(r)
  BY <1>1 DEF Renaming, Settled
<1>3. \A v \in Releases : Removing(v)' => Removing(v)
  BY <1>1 DEF Removing, Settled
<1> QED
  BY <1>1, <1>2, <1>3

\* mv staged final
LEMMA RenameHolds ==
  ASSUME Tries, Host, NEW r \in Releases, Renaming(r), staged[r] # NoFile, Rename(r), Settled,
         \A c \in Clients : pc'[c] = "starting" => pc[c] = "starting" \/ carries[c] = r
  PROVE  Host'
<1> USE WorldIs, WorldStays, Settles DEF Shapes, Host
<1> DEFINE v == version[r]
<1>1. /\ world' = world /\ previous' = previous /\ lingering' \subseteq lingering
      /\ v \in Releases /\ staged[r] \in Image /\ staged[r].of = r /\ r # 0
  BY DEF Settled
<1>2. /\ staged' = [staged EXCEPT ![r] = NoFile] /\ final' = [final EXCEPT ![v] = staged[r]]
      /\ holder' = [holder EXCEPT ![v] = r]
      /\ mixed' = IF staged[r].shared \/ holder[v] \notin {0, r} THEN mixed \cup {v} ELSE mixed
  BY DEF Rename
<1>3. \A d \in Clients :
        /\ output'[d].at = output[d].at
        /\ output'[d].to = IF carries[d] = r /\ output[d].to = "staged" THEN "final"
                           ELSE IF Mine(d) = v /\ output[d].to = "final" THEN "nowhere"
                           ELSE output[d].to
  BY DEF Rename, Stagers, Named
<1>4. output' \in [Clients -> [to : {"none", "staged", "final", "nowhere"}, at : 0..Chunks]]
  BY DEF Rename, Stagers, Named
<1>5. NoFile \in Image /\ NoFile.of = 0
  BY DEF NoFile, Image
<1>6. Shapes'
  BY <1>1, <1>2, <1>4, <1>5
<1>7. \A d \in Clients : carries[d] = r => Mine(d) = v
  BY DEF Mine
<1>8. ASSUME NEW d \in Clients, carries[d] = r, output[d].to = "staged" PROVE staged[r].shared
  <2> SUFFICES ASSUME ~staged[r].shared PROVE FALSE
    BY <1>1 DEF Image
  <2>1. pc[d] = "sending"
    BY <1>8 DEF Writers
  <2>2. /\ [at |-> "promoting", what |-> r] \notin lingering
        /\ \A e \in Clients : carries[e] = r /\ e # d => pc[e] # "promoting"
    BY <1>8 DEF Alone
  <2> QED
    BY <2>1, <2>2 DEF Renaming
<1>9. Writers'
  <2> SUFFICES ASSUME NEW d \in Clients
               PROVE  /\ pc'[d] = "sending" <=> output'[d].to # "none"
                      /\ output'[d].to = "staged" => staged'[carries[d]] # NoFile
                      /\ output'[d].to = "final" => final'[Mine(d)] # NoFile
                                                    /\ final'[Mine(d)].shared
    BY <1>1 DEF Writers
  <2>1. pc'[d] = "sending" <=> output'[d].to # "none"
    BY <1>3 DEF Writers
  <2>2. output'[d].to = "staged" => staged'[carries[d]] # NoFile
    BY <1>1, <1>2, <1>3 DEF Writers
  <2>3. output'[d].to = "final" => final'[Mine(d)] # NoFile /\ final'[Mine(d)].shared
    BY <1>1, <1>2, <1>3, <1>7, <1>8 DEF Writers
  <2> QED
    BY <2>1, <2>2, <2>3
<1>10. Alone'
  <2> SUFFICES ASSUME NEW d \in Clients, output'[d].to = "staged", ~staged'[carries[d]].shared
               PROVE  /\ [at |-> "promoting", what |-> carries[d]] \notin lingering'
                      /\ \A e \in Clients : carries[e] = carries[d] /\ e # d =>
                           pc'[e] \notin {"sending", "verifying", "promoting"}
    BY <1>1 DEF Alone
  <2>1. carries[d] # r /\ output[d].to = "staged" /\ ~staged[carries[d]].shared
    BY <1>1, <1>2, <1>3
  <2> QED
    BY <1>1, <2>1 DEF Alone
<1>11. Verified'
  BY <1>1, <1>2 DEF Verified
<1>12. Newer'
  <2>1. ASSUME mixed' = {}
        PROVE  /\ mixed = {} /\ ~staged[r].shared /\ holder[v] \in {0, r}
               /\ \A w \in Releases : holder[w] # 0 => holder'[w] = holder[w]
    BY <2>1, <1>1, <1>2
  <2>2. ASSUME mixed' = {}, NEW w \in Releases, Starts(w), holder[w] # 0
        PROVE  Starts(w)' /\ holder'[w] = holder[w]
    <3>1. CASE w # v
      BY <1>1, <1>2, <2>1, <2>2, <3>1 DEF Starts
    <3>2. CASE w = v
      <4>1. final[v] # NoFile /\ final[v].of = r
        BY <1>5, <2>1, <2>2, <3>2 DEF Starts
      <4>2. staged[r].has = Whole
        BY <2>1, <2>2 DEF Verified
      <4> QED
        BY <1>1, <1>2, <2>1, <2>2, <3>2, <4>1, <4>2 DEF Starts
    <3> QED
      BY <3>1, <3>2
  <2>3. mixed' = {} => \A w \in Releases : ~final'[w].shared
    BY <1>2, <2>1 DEF Newer
  <2>4. \A w \in Releases : holder[w] # 0 => protocol[holder[w]] <= protocol[holder[w]]
    <3>1. \A w \in Releases : holder[w] # 0 => protocol[holder[w]] \in Nat
      OBVIOUS
    <3> QED
      BY <3>1
  <2>5. \A c \in Clients : pc'[c] = "starting" => pc[c] = "starting" \/ holder'[Mine(c)] = carries[c]
    BY <1>1, <1>2, <1>7
  <2> QED
    BY <1>1, <1>6, <2>1, <2>2, <2>3, <2>4, <2>5, NewerStays
<1> QED
  BY <1>6, <1>9, <1>10, <1>11, <1>12

\* rm -f of what is staged
LEMMA UnstageHolds ==
  ASSUME Tries, Host, NEW r \in Releases, Unstage(r), Settled,
         \A c \in Clients : pc'[c] = "starting" => pc[c] = "starting"
  PROVE  Host'
<1> USE WorldIs, WorldStays, Settles DEF Shapes, Host
<1>1. /\ world' = world /\ previous' = previous /\ lingering' \subseteq lingering
      /\ staged' = [staged EXCEPT ![r] = NoFile] /\ UNCHANGED <<final, holder, mixed>>
  BY DEF Settled, Unstage
<1>2. \A d \in Clients :
        /\ output'[d].at = output[d].at
        /\ output'[d].to = IF carries[d] = r /\ output[d].to = "staged" THEN "nowhere"
                           ELSE output[d].to
  BY DEF Unstage, Follow, Stagers
<1>3. output' \in [Clients -> [to : {"none", "staged", "final", "nowhere"}, at : 0..Chunks]]
  BY DEF Unstage, Follow, Stagers
<1>4. NoFile \in Image
  BY DEF NoFile, Image
<1>5. Shapes'
  BY <1>1, <1>3, <1>4
<1>6. Writers'
  BY <1>1, <1>2 DEF Writers
<1>7. Alone'
  <2> SUFFICES ASSUME NEW d \in Clients, output'[d].to = "staged", ~staged'[carries[d]].shared
               PROVE  /\ [at |-> "promoting", what |-> carries[d]] \notin lingering'
                      /\ \A e \in Clients : carries[e] = carries[d] /\ e # d =>
                           pc'[e] \notin {"sending", "verifying", "promoting"}
    BY <1>1 DEF Alone
  <2>1. carries[d] # r /\ output[d].to = "staged" /\ ~staged[carries[d]].shared
    BY <1>1, <1>2
  <2> QED
    BY <1>1, <2>1 DEF Alone
<1>8. Verified'
  BY <1>1 DEF Verified
<1>9. Newer'
  <2>1. \A w \in Releases : Starts(w)' <=> Starts(w)
    BY <1>1 DEF Starts
  <2>2. \A w \in Releases : holder[w] # 0 => protocol[holder[w]] <= protocol[holder[w]]
    <3>1. \A w \in Releases : holder[w] # 0 => protocol[holder[w]] \in Nat
      OBVIOUS
    <3> QED
      BY <3>1
  <2>3. mixed = {} => \A w \in Releases : ~final[w].shared
    BY DEF Newer
  <2> QED
    BY <1>1, <1>5, <2>1, <2>2, <2>3, NewerStays
<1> QED
  BY <1>5, <1>6, <1>7, <1>8, <1>9

\* rm -f of what was superseded: while every name is that of one release, another runs.
LEMMA RemoveHolds ==
  ASSUME Tries, Host, NEW v \in Releases, Removing(v), Remove(v), Settled,
         \A c \in Clients : pc'[c] = "starting" => pc[c] = "starting"
  PROVE  /\ Host'
         /\ mixed = {} => \E w \in Releases : Starts(w)'
<1> USE WorldIs, WorldStays, Settles DEF Shapes, Host
<1>1. /\ world' = world /\ previous' = previous /\ lingering' \subseteq lingering
      /\ final' = [final EXCEPT ![v] = NoFile] /\ UNCHANGED <<staged, holder, mixed>>
  BY DEF Settled, Remove
<1>2. \A d \in Clients :
        /\ output'[d].at = output[d].at
        /\ output'[d].to = IF Mine(d) = v /\ output[d].to = "final" THEN "nowhere"
                           ELSE output[d].to
  BY DEF Remove, Follow, Named
<1>3. output' \in [Clients -> [to : {"none", "staged", "final", "nowhere"}, at : 0..Chunks]]
  BY DEF Remove, Follow, Named
<1>4. NoFile \in Image /\ ~NoFile.shared
  BY DEF NoFile, Image
<1>5. Shapes'
  BY <1>1, <1>3, <1>4
<1>6. Writers'
  BY <1>1, <1>2 DEF Writers
<1>7. Alone'
  <2> SUFFICES ASSUME NEW d \in Clients, output'[d].to = "staged", ~staged'[carries[d]].shared
               PROVE  /\ [at |-> "promoting", what |-> carries[d]] \notin lingering'
                      /\ \A e \in Clients : carries[e] = carries[d] /\ e # d =>
                           pc'[e] \notin {"sending", "verifying", "promoting"}
    BY <1>1 DEF Alone
  <2>1. output[d].to = "staged" /\ ~staged[carries[d]].shared
    BY <1>1, <1>2
  <2> QED
    BY <1>1, <2>1 DEF Alone
<1>8. Verified'
  BY <1>1 DEF Verified
<1>9. \A w \in Releases : w # v /\ Starts(w) => Starts(w)'
  BY <1>1 DEF Starts
<1>10. ASSUME mixed = {}
       PROVE  \E u \in Releases : /\ u # v /\ Starts(u) /\ holder[u] # 0 /\ holder[v] # 0
                                  /\ protocol[holder[v]] <= protocol[holder[u]]
  <2>1. PICK u \in Releases : /\ holder[v] # 0 /\ Starts(u) /\ holder[u] # 0
                              /\ protocol[holder[v]] < protocol[holder[u]]
    BY <1>10 DEF Newer
  <2>2. protocol[holder[v]] \in Nat /\ protocol[holder[u]] \in Nat
    BY <2>1
  <2> QED
    BY <2>1, <2>2
<1>11. Newer'
  <2>1. \A w \in Releases : holder[w] # 0 => protocol[holder[w]] <= protocol[holder[w]]
    <3>1. \A w \in Releases : holder[w] # 0 => protocol[holder[w]] \in Nat
      OBVIOUS
    <3> QED
      BY <3>1
  <2>2. ASSUME mixed' = {}, NEW w \in Releases, Starts(w), holder[w] # 0
        PROVE  \E u \in Releases : /\ Starts(u)' /\ holder'[u] # 0
                                   /\ protocol[holder[w]] <= protocol[holder'[u]]
    <3>1. CASE w # v
      BY <1>1, <1>9, <2>1, <2>2, <3>1
    <3>2. CASE w = v
      BY <1>1, <1>9, <1>10, <2>2, <3>2
    <3> QED
      BY <3>1, <3>2
  <2>3. mixed' = {} => \A w \in Releases : ~final'[w].shared
    BY <1>1, <1>4 DEF Newer
  <2> QED
    BY <1>1, <1>5, <2>2, <2>3, NewerStays
<1>12. mixed = {} => \E w \in Releases : Starts(w)'
  BY <1>9, <1>10
<1> QED
  BY <1>5, <1>6, <1>7, <1>8, <1>11, <1>12

\* cat > staged: by a client, who has it open then, or by a command that is run late.
LEMMA EmptyHolds ==
  ASSUME Tries, Host, NEW r \in Releases, Empty(r), UNCHANGED <<world, previous>>,
         lingering' \subseteq lingering,
         \/ UNCHANGED <<pc, output>>
         \/ \E c \in Clients :
              /\ carries[c] = r /\ pc[c] = "opening" /\ Goes(c, "sending")
              /\ output' = [output EXCEPT ![c] = [to |-> "staged", at |-> 0]]
  PROVE  Host'
<1> USE WorldIs, WorldStays DEF Shapes, Host
<1>1. /\ staged' = [staged EXCEPT ![r] = [of |-> r, has |-> {}, shared |-> AtWork(r)]]
      /\ UNCHANGED <<final, holder, mixed>>
  BY DEF Empty
<1>2. AtWork(r) \in BOOLEAN
  BY DEF AtWork
<1>3. [of |-> r, has |-> {}, shared |-> AtWork(r)] \in Image
  BY <1>2 DEF Image
<1>4. \A d \in Clients :
        \/ pc'[d] = pc[d] /\ output'[d] = output[d]
        \/ /\ carries[d] = r /\ pc[d] = "opening" /\ pc'[d] = "sending" /\ output'[d].to = "staged"
           /\ \A e \in Clients : e # d => pc'[e] = pc[e] /\ output'[e] = output[e]
  BY DEF Goes, Tries
<1>5. output' \in [Clients -> [to : {"none", "staged", "final", "nowhere"}, at : 0..Chunks]]
  BY BoundAssumption
<1>6. /\ \A q \in Releases : Renaming(q)' => Renaming(q)
      /\ \A v \in Releases : Removing(v)' => Removing(v)
  BY <1>4 DEF Renaming, Removing
<1>7. staged'[r] # NoFile /\ staged'[r].of = r
  BY <1>1 DEF NoFile
<1>8. Shapes'
  BY <1>1, <1>3, <1>5, <1>7
<1>9. Writers'
  BY <1>1, <1>4, <1>7 DEF Writers
<1>10. Alone'
  <2> SUFFICES ASSUME NEW d \in Clients, output'[d].to = "staged", ~staged'[carries[d]].shared
               PROVE  /\ [at |-> "promoting", what |-> carries[d]] \notin lingering'
                      /\ \A e \in Clients : carries[e] = carries[d] /\ e # d =>
                           pc'[e] \notin {"sending", "verifying", "promoting"}
    BY <1>1 DEF Alone
  <2>1. CASE carries[d] = r
    <3>1. ~AtWork(r)
      BY <1>1, <2>1
    <3>2. \A e \in Clients : carries[e] = r => pc[e] \notin {"sending", "verifying", "promoting"}
      BY <3>1 DEF AtWork, Stagers
    <3>3. [at |-> "promoting", what |-> r] \notin lingering
      BY <3>1 DEF AtWork
    <3>4. output'[d] # output[d]
      BY <2>1, <3>2 DEF Writers
    <3> QED
      BY <1>4, <2>1, <3>2, <3>3, <3>4
  <2>2. CASE carries[d] # r
    <3>1. output[d].to = "staged" /\ ~staged[carries[d]].shared
      BY <1>1, <1>4, <2>2
    <3> QED
      BY <1>4, <2>2, <3>1 DEF Alone
  <2> QED
    BY <2>1, <2>2
<1>11. Verified'
  <2>1. Renaming(r) => AtWork(r)
    BY DEF Renaming, AtWork, Stagers
  <2>2. AtWork(r) => staged'[r].shared
    BY <1>1
  <2> QED
    BY <1>1, <1>6, <2>1, <2>2 DEF Verified
<1>12. Newer'
  <2>1. \A w \in Releases : Starts(w)' <=> Starts(w)
    BY <1>1 DEF Starts
  <2>2. \A w \in Releases : holder[w] # 0 => protocol[holder[w]] <= protocol[holder[w]]
    <3>1. \A w \in Releases : holder[w] # 0 => protocol[holder[w]] \in Nat
      OBVIOUS
    <3> QED
      BY <3>1
  <2>3. mixed = {} => \A w \in Releases : ~final[w].shared
    BY DEF Newer
  <2> QED
    BY <1>1, <1>4, <1>6, <1>8, <2>1, <2>2, <2>3, NewerStays
<1> QED
  BY <1>8, <1>9, <1>10, <1>11, <1>12

\* A chunk is written.
LEMMA WriteHolds ==
  ASSUME Tries, Host, NEW c \in Clients, Write(c)
  PROVE  Host'
<1> USE WorldIs, WorldStays DEF Shapes, Host
<1>1. /\ pc[c] = "sending" /\ output[c].at < Chunks
      /\ UNCHANGED <<world, pc, previous, holder, mixed, lingering>>
      /\ output' = [output EXCEPT ![c].at = @ + 1]
  BY DEF Write, phase
<1>2. /\ \A d \in Clients : output'[d].to = output[d].to
      /\ output' \in [Clients -> [to : {"none", "staged", "final", "nowhere"}, at : 0..Chunks]]
      /\ output'[c].at \in Whole
  BY <1>1, BoundAssumption DEF Whole
<1>3. \A f \in Image, x \in SUBSET Whole :
        /\ [f EXCEPT !.has = x] \in Image
        /\ [f EXCEPT !.has = x].of = f.of /\ [f EXCEPT !.has = x].shared = f.shared
  BY DEF Image
<1>4. \A f \in Image : f.has \subseteq Whole
  BY DEF Image
<1>5. PICK x \in SUBSET Whole, y \in SUBSET Whole :
        /\ staged' = IF output[c].to = "staged"
                     THEN [staged EXCEPT ![carries[c]] = [staged[carries[c]] EXCEPT !.has = x]]
                     ELSE staged
        /\ final' = IF output[c].to = "final"
                    THEN [final EXCEPT ![Mine(c)] = [final[Mine(c)] EXCEPT !.has = y]] ELSE final
  <2> DEFINE k == output'[c].at
             s == staged[carries[c]].has
             f == final[Mine(c)].has
  <2>1. /\ s \ {k} \in SUBSET Whole /\ s \cup {k} \in SUBSET Whole
        /\ f \ {k} \in SUBSET Whole /\ f \cup {k} \in SUBSET Whole
    BY <1>2, <1>4
  <2>2. \/ /\ staged' = IF output[c].to = "staged"
                        THEN [staged EXCEPT ![carries[c]] =
                               [staged[carries[c]] EXCEPT !.has = s \ {k}]] ELSE staged
           /\ final' = IF output[c].to = "final"
                       THEN [final EXCEPT ![Mine(c)] =
                              [final[Mine(c)] EXCEPT !.has = f \ {k}]] ELSE final
        \/ /\ staged' = IF output[c].to = "staged"
                        THEN [staged EXCEPT ![carries[c]] =
                               [staged[carries[c]] EXCEPT !.has = s \cup {k}]] ELSE staged
           /\ final' = IF output[c].to = "final"
                       THEN [final EXCEPT ![Mine(c)] =
                              [final[Mine(c)] EXCEPT !.has = f \cup {k}]] ELSE final
    <3>1. PICK damaged \in BOOLEAN :
            LET Written(g) == [g EXCEPT !.has = IF damaged THEN @ \ {k} ELSE @ \cup {k}]
            IN  /\ staged' = IF output[c].to = "staged"
                             THEN [staged EXCEPT ![carries[c]] = Written(@)] ELSE staged
                /\ final' = IF output[c].to = "final"
                            THEN [final EXCEPT ![Mine(c)] = Written(@)] ELSE final
      BY DEF Write
    <3> HIDE DEF k
    <3>2. CASE damaged
      BY <3>1, <3>2
    <3>3. CASE ~damaged
      BY <3>1, <3>3
    <3> QED
      BY <3>2, <3>3
  <2> HIDE DEF k, s, f
  <2> QED
    BY <2>1, <2>2
<1>6. /\ staged' \in [Releases -> Image] /\ final' \in [Releases -> Image]
      /\ \A r \in Releases : /\ staged'[r].of = staged[r].of /\ staged'[r].shared = staged[r].shared
                             /\ final'[r].of = final[r].of /\ final'[r].shared = final[r].shared
      /\ \A r \in Releases : staged'[r] = staged[r] \/ (output[c].to = "staged" /\ carries[c] = r)
      /\ \A r \in Releases : final'[r] = final[r] \/ (output[c].to = "final" /\ Mine(c) = r)
  <2> DEFINE s == [staged[carries[c]] EXCEPT !.has = x]
             f == [final[Mine(c)] EXCEPT !.has = y]
  <2>1. /\ s \in Image /\ s.of = staged[carries[c]].of /\ s.shared = staged[carries[c]].shared
        /\ f \in Image /\ f.of = final[Mine(c)].of /\ f.shared = final[Mine(c)].shared
    BY <1>3
  <2>2. /\ staged' = IF output[c].to = "staged" THEN [staged EXCEPT ![carries[c]] = s] ELSE staged
        /\ final' = IF output[c].to = "final" THEN [final EXCEPT ![Mine(c)] = f] ELSE final
    BY <1>5
  <2> HIDE DEF s, f
  <2>3. /\ staged' \in [Releases -> Image]
        /\ \A r \in Releases : /\ staged'[r].of = staged[r].of
                               /\ staged'[r].shared = staged[r].shared
                               /\ \/ staged'[r] = staged[r]
                                  \/ output[c].to = "staged" /\ carries[c] = r
    BY <2>1, <2>2
  <2>4. /\ final' \in [Releases -> Image]
        /\ \A r \in Releases : /\ final'[r].of = final[r].of
                               /\ final'[r].shared = final[r].shared
                               /\ \/ final'[r] = final[r]
                                  \/ output[c].to = "final" /\ Mine(c) = r
    BY <2>1, <2>2
  <2> QED
    BY <2>3, <2>4
<1>7. \A r \in Releases : /\ staged[r] # NoFile <=> staged[r].of # 0
                          /\ final[r] # NoFile <=> final[r].of # 0
  BY DEF NoFile
<1>8. \A r \in Releases : /\ staged'[r] # NoFile <=> staged[r].of # 0
                          /\ final'[r] # NoFile <=> final[r].of # 0
  <2>1. \A r \in Releases : staged'[r].of # 0 => staged'[r] # NoFile
    BY DEF NoFile
  <2>2. \A r \in Releases : final'[r].of # 0 => final'[r] # NoFile
    BY DEF NoFile
  <2> QED
    BY <1>6, <1>7, <2>1, <2>2 DEF Writers
<1>9. Shapes'
  <2>1. \A r \in Releases : /\ staged'[r].of = r \/ staged'[r] = NoFile
                            /\ final'[r] # NoFile => /\ final'[r].of # 0 /\ final'[r].of = holder[r]
                                                     /\ version[holder[r]] = r
    BY <1>6, <1>7, <1>8
  <2> QED
    BY <1>1, <1>2, <1>6, <2>1
<1>10. Writers'
  BY <1>1, <1>2, <1>6, <1>7, <1>8 DEF Writers
<1>11. Alone'
  BY <1>1, <1>2, <1>6 DEF Alone
<1>12. \A r \in Releases : Renaming(r)' <=> Renaming(r)
  BY <1>1 DEF Renaming
<1>13. Verified'
  <2> SUFFICES ASSUME NEW r \in Releases
               PROVE  /\ Renaming(r) /\ staged[r] # NoFile /\ ~staged[r].shared =>
                           staged'[r].has = Whole
                      /\ final[r] # NoFile /\ ~final[r].shared => final'[r].has = Whole
    BY <1>6, <1>7, <1>8, <1>12 DEF Verified
  <2>1. Renaming(r) /\ ~staged[r].shared => staged'[r] = staged[r]
    <3> SUFFICES ASSUME Renaming(r), ~staged[r].shared, output[c].to = "staged", carries[c] = r
                 PROVE  FALSE
      BY <1>6
    <3>1. /\ [at |-> "promoting", what |-> r] \notin lingering
          /\ \A e \in Clients : carries[e] = r /\ e # c => pc[e] # "promoting"
      BY DEF Alone
    <3> QED
      BY <1>1, <3>1 DEF Renaming
  <2>2. ~final[r].shared => final'[r] = final[r]
    BY <1>6 DEF Writers
  <2> QED
    BY <2>1, <2>2 DEF Verified
<1>14. Newer'
  <2>1. ASSUME mixed = {} PROVE \A w \in Releases : final'[w] = final[w] /\ ~final[w].shared
    BY <1>6, <2>1 DEF Newer, Writers
  <2>2. mixed = {} => \A w \in Releases : Starts(w)' <=> Starts(w)
    BY <1>1, <2>1 DEF Starts
  <2>3. \A w \in Releases : holder[w] # 0 => protocol[holder[w]] <= protocol[holder[w]]
    <3>1. \A w \in Releases : holder[w] # 0 => protocol[holder[w]] \in Nat
      OBVIOUS
    <3> QED
      BY <3>1
  <2>4. \A w \in Releases : Removing(w)' => Removing(w)
    BY <1>1 DEF Removing
  <2> QED
    BY <1>1, <1>9, <2>1, <2>2, <2>3, <2>4, NewerStays
<1> QED
  BY <1>9, <1>10, <1>11, <1>13, <1>14

\* A command that has nothing to rename.
LEMMA LingersLess ==
  ASSUME Tries, Host, UNCHANGED <<world, files, output, pc, previous>>,
         lingering' \subseteq lingering
  PROVE  Host'
<1> USE WorldIs, WorldStays DEF Shapes, Host
<1>1. /\ UNCHANGED <<staged, final, holder, mixed>>
      /\ \A r \in Releases : (Renaming(r)' => Renaming(r)) /\ (Removing(r)' => Removing(r))
      /\ \A w \in Releases : Starts(w)' <=> Starts(w)
  BY DEF files, Renaming, Removing, Starts
<1>2. Shapes' /\ Writers'
  BY <1>1 DEF Writers
<1>3. Alone'
  BY <1>1 DEF Alone
<1>4. Verified'
  BY <1>1 DEF Verified
<1>5. Newer'
  BY <1>1 DEF Newer
<1> QED
  BY <1>2, <1>3, <1>4, <1>5

-----------------------------------------------------------------------------
(* The invariant                                                           *)

LEMMA Bounded ==
  ASSUME NEW n \in 0..MaxStart
  PROVE  n <= MaxStart /\ (n # MaxStart => n < MaxStart)
<1>1. MaxStart \in Nat
  BY BoundAssumption
<1> QED
  BY <1>1

LEMMA TriesHolds ==
  ASSUME Tries, Shapes, DeployNext
  PROVE  Tries'
<1> USE WorldIs, BoundAssumption DEF Shapes
<1>1. ASSUME NEW c \in Clients, Attempt(c) \/ AttemptEnds(c) \/ CredentialRefused(c)
                                \/ Prompted(c) \/ Answered(c) \/ Again(c)
      PROVE  Tries'
  BY <1>1 DEF Tries, Stages, Outcomes, Goes, Attempt, AttemptEnds, CredentialRefused, Prompted,
     Answered, Again, phase
<1>2. ASSUME NEW c \in Clients, Establish(c) PROVE Tries'
  <2>1. PICK at \in Outcomes \cup {"looking"} : Goes(c, at)
    BY <1>2 DEF Establish, Verdict, Outcomes
  <2>2. tries' = tries /\ previous' \in [Clients -> Releases \cup {0}] /\ pc[c] = "greeting"
        /\ \A d \in Clients : d # c => previous'[d] = previous[d]
    BY <1>2 DEF Establish, Tries
  <2> QED
    BY <2>1, <2>2 DEF Tries, Stages, Outcomes, Goes
<1>3. ASSUME NEW c \in Clients, Handshake(c) PROVE Tries'
  <2>1. CASE Starts(Mine(c)) /\ Goes(c, IF previous[c] # 0 THEN "retiring" ELSE "ready")
             /\ UNCHANGED tries
    BY <1>3, <2>1 DEF Tries, Stages, Outcomes, Goes, Handshake
  <2>2. CASE Tried(c) /\ IF tries'[c] = MaxStart THEN GaveUp(c) ELSE UNCHANGED pc
    <3>1. /\ pc[c] = "starting" /\ previous' = previous
          /\ tries' = [tries EXCEPT ![c] = tries[c] + 1] /\ tries[c] + 1 \in 0..MaxStart
          /\ tries[c] \in Nat
      BY <1>3, <2>2 DEF Handshake, Tried, Tries, Outcomes
    <3>2. /\ tries' \in [Clients -> 0..MaxStart] /\ tries'[c] = tries[c] + 1
          /\ \A d \in Clients : d # c => tries'[d] = tries[d]
      BY <3>1 DEF Tries
    <3>3. CASE tries'[c] = MaxStart
      BY <2>2, <3>1, <3>2, <3>3 DEF GaveUp, Goes, Tries, Stages, Outcomes
    <3>4. CASE tries'[c] # MaxStart
      <4>1. tries'[c] < MaxStart
        BY <3>1, <3>2, <3>4, Bounded
      <4> QED
        BY <2>2, <3>1, <3>2, <3>4, <4>1 DEF Tries
    <3> QED
      BY <3>3, <3>4
  <2> QED
    BY <1>3, <2>1, <2>2 DEF Handshake
<1>4. ASSUME NEW c \in Clients, Select(c) \/ Check(c) \/ Open(c) \/ Write(c) \/ Sent(c)
                                \/ Verify(c) \/ Discard(c) \/ Promote(c) \/ Retire(c)
                                \/ CommandFails(c)
      PROVE  Tries'
  <2>1. /\ UNCHANGED <<tries, previous>> /\ pc[c] \notin Outcomes \cup {"idle"}
        /\ UNCHANGED pc \/ \E at \in Stages \ {"retiring"} : Goes(c, at)
    BY <1>4 DEF Stages, Outcomes, Select, Check, Open, Write, Sent, Verify, Discard,
       Promote, Retire, CommandFails, phase
  <2> QED
    BY <2>1 DEF Tries, Goes
<1>5. ASSUME Late PROVE Tries'
  BY <1>5 DEF Tries, Late, phase
<1> QED
  BY <1>1, <1>2, <1>3, <1>4, <1>5 DEF DeployNext, Connecting, Deploying

LEMMA SecretsHold ==
  ASSUME Tries, Secrets, DeployNext
  PROVE  Secrets'
<1>1. ASSUME NEW c \in Clients, Prompted(c) \/ Answered(c)
      PROVE  Secrets'
  BY <1>1 DEF Secrets, Tries, Goes, Prompted, Answered, Arm, phase
<1>2. ASSUME NEW c \in Clients, AttemptEnds(c) \/ CredentialRefused(c) \/ Again(c)
      PROVE  Secrets'
  BY <1>2 DEF Secrets, Tries, Goes, AttemptEnds, CredentialRefused, Again, SshEnds
<1>3. ASSUME NEW c \in Clients, Attempt(c) \/ Establish(c) \/ CommandFails(c)
      PROVE  Secrets'
  BY <1>3 DEF Secrets, Tries, Goes, Attempt, Establish, Verdict, CommandFails, secrets
<1>4. ASSUME NEW c \in Clients, Deploying(c) PROVE Secrets'
  <2>1. UNCHANGED secrets
    BY <1>4 DEF Deploying, Select, Check, Open, Write, Sent, Verify, Discard, Promote, Handshake,
       Retire
  <2>2. pc[c] # "assisted" /\ \A d \in Clients : pc'[d] = pc[d] \/ d = c
    BY <1>4 DEF Deploying, Select, Check, Open, Write, Sent, Verify, Discard, Promote, Handshake,
       Retire, Tries, Goes, GaveUp, phase
  <2> QED
    BY <2>1, <2>2 DEF Secrets, secrets
<1>5. ASSUME Late PROVE Secrets'
  BY <1>5 DEF Secrets, Late, phase, secrets
<1> QED
  BY <1>1, <1>2, <1>3, <1>4, <1>5 DEF DeployNext, Connecting

LEMMA HostHolds ==
  ASSUME Tries, Host, DeployNext
  PROVE  Host'
<1> USE WorldIs, WorldStays DEF Shapes
<1>1. world' = world /\ world \in Worlds
  BY DEF Host, DeployNext, Connecting, Deploying, Attempt, AttemptEnds, CredentialRefused, Prompted,
     Answered, Establish, Select, Check, Open, Write, Sent, Verify, Discard, Promote, Handshake,
     Retire, CommandFails, Again, Late
<1>2. \A c \in Clients : /\ previous[c] \in Releases \cup {0} /\ pc[c] \in Stages
                         /\ previous = [previous EXCEPT ![c] = previous[c]]
                         /\ pc = [pc EXCEPT ![c] = pc[c]]
  BY DEF Tries
<1>3. ASSUME NEW c \in Clients, Attempt(c) PROVE Host'
  <2>1. /\ UNCHANGED <<files, output, lingering>> /\ pc[c] = "idle" /\ Goes(c, "silent")
        /\ previous' = [previous EXCEPT ![c] = 0] /\ "silent" \in Stages
    BY <1>3 DEF Attempt, host, Stages
  <2> QED
    BY <1>1, <1>2, <2>1, FilesRest DEF Leaves
<1>4. ASSUME NEW c \in Clients, AttemptEnds(c) \/ CredentialRefused(c) \/ Prompted(c) \/ Select(c)
      PROVE  Host'
  <2>1. /\ UNCHANGED <<files, output, lingering, previous>> /\ pc[c] # "sending"
        /\ \E at \in Stages \ {"sending", "verifying", "promoting", "starting", "retiring"} :
             Goes(c, at)
    BY <1>4 DEF AttemptEnds, CredentialRefused, Prompted, Select, host, Stages, Outcomes
  <2> QED
    BY <1>1, <1>2, <2>1, FilesRest DEF Leaves
<1>5. ASSUME NEW c \in Clients, Answered(c) PROVE Host'
  <2>1. /\ UNCHANGED <<files, output, lingering, previous>> /\ Goes(c, "assisted")
        /\ pc[c] = "assisted" /\ "assisted" \in Stages
    BY <1>2, <1>5 DEF Answered, Goes, phase, host, Stages
  <2> QED
    BY <1>1, <1>2, <2>1, FilesRest DEF Leaves
<1>6. ASSUME NEW c \in Clients, Establish(c) PROVE Host'
  <2>1. /\ UNCHANGED <<files, output, lingering>> /\ pc[c] = "greeting"
    BY <1>6 DEF Establish, host
  <2>2. CASE Goes(c, "failed") /\ UNCHANGED previous
    BY <1>1, <1>2, <2>1, <2>2, FilesRest DEF Leaves, Stages, Outcomes
  <2>3. CASE \E v \in Releases :
               /\ Starts(v)
               /\ LET theirs == protocol[final[v].of]
                      ours == protocol[carries[c]]
                  IN  /\ previous' = [previous EXCEPT ![c] = IF theirs < ours THEN v ELSE 0]
                      /\ Goes(c, Verdict(theirs, ours))
    <3>1. PICK v \in Releases :
            /\ Starts(v)
            /\ previous' = [previous EXCEPT ![c] = IF protocol[final[v].of] < protocol[carries[c]]
                                                   THEN v ELSE 0]
            /\ Goes(c, Verdict(protocol[final[v].of], protocol[carries[c]]))
      BY <2>3
    <3>2. final[v].of = holder[v] /\ holder[v] # 0
      BY <3>1, <1>1 DEF Host, Starts, NoFile
    <3>3. PICK p \in Releases \cup {0} :
            /\ previous' = [previous EXCEPT ![c] = p]
            /\ p # 0 => holder[p] # 0 /\ protocol[holder[p]] < protocol[carries[c]]
      BY <3>1, <3>2
    <3>4. PICK at \in {"ready", "refused", "looking"} : Goes(c, at)
      BY <3>1 DEF Verdict
    <3> QED
      BY <1>1, <1>2, <2>1, <3>3, <3>4, FilesRest DEF Leaves, Stages, Outcomes
  <2> QED
    BY <1>6, <2>2, <2>3 DEF Establish
<1>7. ASSUME NEW c \in Clients, Check(c) PROVE Host'
  <2>1. /\ UNCHANGED <<files, output, lingering, previous>> /\ pc[c] = "checking"
        /\ \E at \in {"starting", "opening"} : Goes(c, at) /\ (at = "starting" => Shipped(c))
    BY <1>7 DEF Check, host
  <2>2. Shipped(c) => holder[Mine(c)] = carries[c]
    BY <1>1 DEF Host, Shipped, NoFile
  <2> QED
    BY <1>1, <1>2, <2>1, <2>2, FilesRest DEF Leaves, Stages
<1>8. ASSUME NEW c \in Clients, Handshake(c) PROVE Host'
  <2>1. /\ UNCHANGED <<files, output, lingering, previous>> /\ pc[c] = "starting"
    BY <1>8 DEF Handshake, host
  <2>2. mixed = {} => holder[Mine(c)] = carries[c]
    BY <2>1 DEF Host, Newer
  <2>3. \E at \in {"starting", "retiring", "ready", "failed"} :
          Goes(c, at) /\ (at = "retiring" => Starts(Mine(c)) /\ previous[c] # 0)
    BY <1>2, <1>8, <2>1 DEF Handshake, Goes, GaveUp
  <2> QED
    BY <1>1, <1>2, <2>1, <2>2, <2>3, FilesRest DEF Leaves, Stages, Outcomes
<1>9. ASSUME NEW c \in Clients, Sent(c) \/ Verify(c) PROVE Host'
  <2>1. CASE Sent(c)
    BY <1>1, <1>2, <2>1, FilesRest DEF Sent, Leaves, Stages
  <2>2. CASE Verify(c)
    <3>1. PICK at \in {"promoting", "discarding"} : Goes(c, at) /\ (at = "promoting" => Intact(c))
      BY <2>2 DEF Verify
    <3> QED
      BY <1>1, <1>2, <2>2, <3>1, FilesRest DEF Verify, host, Leaves, Stages
  <2> QED
    BY <1>9, <2>1, <2>2
<1>10. ASSUME NEW c \in Clients, CommandFails(c) \/ Again(c) PROVE Host'
  <2>1. /\ UNCHANGED <<files, previous>> /\ output' = [output EXCEPT ![c] = Closed] /\ Leaves(c)
        /\ \E at \in {"failed", "idle"} : Goes(c, at)
    BY <1>10 DEF CommandFails, Again
  <2> QED
    BY <1>1, <1>2, <2>1, FilesRest DEF Stages, Outcomes
<1>11. ASSUME NEW c \in Clients, Open(c) PROVE Host'
  BY <1>1, <1>11, EmptyHolds DEF Open
<1>12. ASSUME NEW c \in Clients, Write(c) PROVE Host'
  BY <1>12, WriteHolds
<1>13. ASSUME NEW c \in Clients, Discard(c) PROVE Host'
  <2>1. CASE Unstage(carries[c]) /\ UNCHANGED <<lingering, steps>>
    <3>1. Settled /\ \A d \in Clients : pc'[d] = "starting" => pc[d] = "starting"
      BY <1>13, <2>1 DEF Discard, Settled, Goes, Tries
    <3> QED
      BY <1>1, <2>1, <3>1, UnstageHolds
  <2>2. CASE Leaves(c) /\ UNCHANGED <<files, output>>
    BY <1>1, <1>2, <1>13, <2>2, FilesRest DEF Discard, Stages, Outcomes
  <2> QED
    BY <1>13, <2>1, <2>2 DEF Discard
<1>14. ASSUME NEW c \in Clients, Promote(c) PROVE Host'
  <2>1. CASE staged[carries[c]] = NoFile
    BY <1>1, <1>2, <1>14, <2>1, FilesRest DEF Promote, Leaves, Stages, Outcomes
  <2>2. CASE staged[carries[c]] # NoFile
    <3>1. /\ Settled /\ Renaming(carries[c]) /\ Rename(carries[c])
          /\ \A d \in Clients :
               pc'[d] = "starting" => pc[d] = "starting" \/ carries[d] = carries[c]
      BY <1>1, <1>14, <2>2 DEF Promote, Settled, Goes, Tries, Renaming
    <3> QED
      BY <1>1, <2>2, <3>1, RenameHolds
  <2> QED
    BY <2>1, <2>2
<1>15. ASSUME NEW c \in Clients, Retire(c) PROVE Host'
  <2>1. CASE Remove(previous[c]) /\ UNCHANGED <<lingering, steps>>
    <3>1. /\ Settled /\ \A d \in Clients : pc'[d] = "starting" => pc[d] = "starting"
          /\ previous[c] \in Releases /\ Removing(previous[c])
      BY <1>15, <2>1 DEF Retire, Settled, Goes, Tries, Removing
    <3> QED
      BY <2>1, <3>1, RemoveHolds
  <2>2. CASE Leaves(c) /\ UNCHANGED <<files, output>>
    BY <1>1, <1>2, <1>15, <2>2, FilesRest DEF Retire, Stages, Outcomes
  <2> QED
    BY <1>15, <2>1, <2>2 DEF Retire
<1>16. ASSUME Late PROVE Host'
  <2>1. PICK m \in lingering :
          /\ lingering' = lingering \ {m}
          /\ \/ m.at = "opening" /\ Empty(m.what) /\ UNCHANGED output
             \/ m.at = "promoting" /\ staged[m.what] # NoFile /\ Rename(m.what)
             \/ m.at = "promoting" /\ staged[m.what] = NoFile /\ UNCHANGED <<files, output>>
             \/ m.at = "discarding" /\ Unstage(m.what)
             \/ m.at = "retiring" /\ Remove(m.what)
    BY <1>16 DEF Late
  <2>2. /\ m.what \in Releases /\ m = [at |-> m.at, what |-> m.what]
    BY <2>1 DEF Host
  <2>3. Settled /\ pc' = pc /\ previous' = previous
    BY <1>16, <2>1 DEF Late, Settled, phase
  <2>4. CASE m.at = "opening" /\ Empty(m.what) /\ UNCHANGED output
    BY <1>1, <2>1, <2>2, <2>3, <2>4, EmptyHolds
  <2>5. CASE m.at = "promoting" /\ staged[m.what] # NoFile /\ Rename(m.what)
    BY <2>1, <2>2, <2>3, <2>5, RenameHolds DEF Renaming
  <2>6. CASE m.at = "promoting" /\ UNCHANGED <<files, output>>
    BY <1>1, <2>1, <2>3, <2>6, LingersLess
  <2>7. CASE m.at = "discarding" /\ Unstage(m.what)
    BY <2>2, <2>3, <2>7, UnstageHolds
  <2>8. CASE m.at = "retiring" /\ Remove(m.what)
    <3>1. Removing(m.what)
      BY <2>1, <2>2, <2>8 DEF Removing
    <3> QED
      BY <2>2, <2>3, <2>8, <3>1, RemoveHolds
  <2> QED
    BY <2>1, <2>4, <2>5, <2>6, <2>7, <2>8
<1> QED
  BY <1>3, <1>4, <1>5, <1>6, <1>7, <1>8, <1>9, <1>10, <1>11, <1>12, <1>13, <1>14, <1>15, <1>16
  DEF DeployNext, Connecting, Deploying

LEMMA DeployHolds == DeploySpec => []DeployInv
<1>1. DeployInit => DeployInv
  <2> SUFFICES ASSUME DeployInit PROVE DeployInv
    OBVIOUS
  <2> USE WorldIs
  <2>1. world \in Worlds /\ world.first \in Releases \cup {0}
    BY WorldsAssumption DEF DeployInit
  <2>2. Tries /\ Secrets
    BY BoundAssumption DEF DeployInit, Tries, Secrets, Stages, Outcomes
  <2>3. NoFile \in Image /\ \A v \in Releases : [of |-> v, has |-> Whole, shared |-> FALSE] \in Image
    BY DEF NoFile, Image
  <2>4. /\ holder \in [Releases -> Releases \cup {0}]
        /\ \A v \in Releases : holder[v] # 0 => version[holder[v]] = v
    BY <2>1 DEF DeployInit
  <2>5. /\ final \in [Releases -> Image]
        /\ \A v \in Releases : /\ final[v] # NoFile => final[v].of # 0 /\ final[v].of = holder[v]
                               /\ final[v].has = Whole \/ final[v] = NoFile
                               /\ ~final[v].shared
    BY <2>1, <2>3, <2>4 DEF DeployInit, NoFile
  <2>6. Shapes
    <3>1. staged \in [Releases -> Image] /\ \A r \in Releases : staged[r] = NoFile
      BY <2>3 DEF DeployInit
    <3>2. output \in [Clients -> [to : {"none", "staged", "final", "nowhere"}, at : 0..Chunks]]
      BY BoundAssumption DEF DeployInit, Closed
    <3> QED
      BY <2>1, <2>4, <2>5, <3>1, <3>2 DEF DeployInit, Shapes
  <2>7. Writers /\ Alone
    BY DEF DeployInit, Writers, Alone, Closed
  <2>8. Verified
    BY <2>5 DEF DeployInit, Verified
  <2>9. Newer
    BY <2>1, <2>5 DEF DeployInit, Newer, Removing
  <2> QED
    BY <2>2, <2>6, <2>7, <2>8, <2>9 DEF DeployInv, Host
<1>2. DeployInv /\ [DeployNext]_deployVars => DeployInv'
  <2>1. CASE DeployNext
    BY <2>1, TriesHolds, SecretsHold, HostHolds DEF DeployInv, Host
  <2>2. CASE UNCHANGED deployVars
    <3>1. ASSUME DeployInv
          PROVE  Host'
      BY <2>2, <3>1, LingersLess DEF DeployInv, deployVars, host, phase
    <3>2. DeployInv => Tries' /\ Secrets'
      BY <2>2 DEF DeployInv, Tries, Secrets, deployVars, phase, secrets
    <3> QED
      BY <3>1, <3>2 DEF DeployInv
  <2> QED
    BY <2>1, <2>2
<1> QED
  BY <1>1, <1>2, PTL DEF DeploySpec

\* What has an engine's name is all of the engine, whatever is lost, damaged, killed or run
\* late on the way, of however many releases and clients, unless it was emptied while
\* somebody was at work on it (NothingPartialRuns).
THEOREM NothingPartialIsNamed == DeploySpec => []NothingPartialRuns
<1>1. DeployInv => NothingPartialRuns
  <2> SUFFICES ASSUME DeployInv PROVE NothingPartialRuns
    OBVIOUS
  <2>1. \A r \in Releases : staged[r] # NoFile => staged[r].of = r /\ staged[r].has \subseteq Whole
    BY DEF DeployInv, Host, Shapes, Image
  <2>2. \A v \in Releases : final[v] # NoFile => version[final[v].of] = v
    BY DEF DeployInv, Host, Shapes
  <2>3. \A c \in Clients : tries[c] <= MaxStart /\ given[c] <= 1
    <3>1. \A c \in Clients : tries[c] \in 0..MaxStart /\ given[c] \in {0, 1}
      BY DEF DeployInv, Tries, Secrets
    <3>2. \A n \in {0, 1} : n <= 1
      OBVIOUS
    <3>3. \A n \in 0..MaxStart : n <= MaxStart
      BY Bounded
    <3> QED
      BY <3>1, <3>2, <3>3
  <2>4. \A c \in Clients : pc[c] = "sending" <=> output[c].to # "none"
    BY DEF DeployInv, Host, Writers
  <2> QED
    BY <2>1, <2>2, <2>3, <2>4 DEF DeployInv, Host, Tries, Shapes, Verified, Stages, DeployTypeOK,
       NothingPartialRuns
<1> QED
  BY <1>1, DeployHolds, PTL

\* A host that has an engine that runs has one after every step, until one version's name is
\* given to two releases or to a file that was emptied: a newer one runs before an older is
\* retired, and that is not the one that is retired (AnEngineStays).
THEOREM OneIsAlwaysThere == DeploySpec => AnEngineStays
<1>1. ASSUME DeployInv, DeployInv', [DeployNext]_deployVars, mixed' = {},
             NEW v \in Releases, Starts(v)
      PROVE  \E w \in Releases : Starts(w)'
  <2> USE WorldIs, WorldStays DEF Shapes, DeployInv, Host
  <2>1. world' = world
    BY <1>1 DEF DeployNext, Connecting, Deploying, Attempt, AttemptEnds, CredentialRefused, Prompted,
       Answered, Establish, Select, Check, Open, Write, Sent, Verify, Discard, Promote, Handshake,
       Retire, CommandFails, Again, Late, deployVars
  <2>2. CASE UNCHANGED final
    BY <1>1, <2>1, <2>2 DEF Starts
  <2>3. ASSUME NEW c \in Clients, Write(c) PROVE Starts(v)'
    <3>1. mixed = {}
      BY <1>1, <2>3 DEF Write
    <3>2. output[c].to # "final"
      BY <3>1, <1>1 DEF Newer, Writers
    <3> QED
      BY <1>1, <2>1, <2>3, <3>2 DEF Write, Starts
  <2>4. ASSUME NEW r \in Releases, Rename(r), Renaming(r), staged[r] # NoFile PROVE Starts(v)'
    <3>1. /\ final' = [final EXCEPT ![version[r]] = staged[r]]
          /\ version[r] = v => ~staged[r].shared /\ holder[v] \in {0, r}
      BY <1>1, <2>4 DEF Rename
    <3>2. CASE version[r] # v
      BY <1>1, <2>1, <3>1, <3>2 DEF Starts
    <3>3. CASE version[r] = v
      <4>1. final[v].of = r /\ staged[r].of = r
        BY <1>1, <2>4, <3>1, <3>3 DEF Starts, NoFile
      <4>2. staged[r].has = Whole
        BY <1>1, <2>4, <3>1, <3>3 DEF Verified
      <4> QED
        BY <1>1, <2>1, <3>1, <3>3, <4>1, <4>2 DEF Starts
    <3> QED
      BY <3>2, <3>3
  <2>5. ASSUME NEW u \in Releases, Remove(u), Removing(u), Settled,
               \A c \in Clients : pc'[c] = "starting" => pc[c] = "starting"
        PROVE  \E w \in Releases : Starts(w)'
    BY <1>1, <2>5, RemoveHolds DEF Remove
  <2>6. ASSUME NEW c \in Clients, Promote(c) PROVE \E w \in Releases : Starts(w)'
    <3>1. CASE staged[carries[c]] = NoFile
      BY <2>2, <2>6, <3>1 DEF Promote, files
    <3>2. CASE staged[carries[c]] # NoFile
      BY <1>1, <2>4, <2>6, <3>2 DEF Promote, Renaming
    <3> QED
      BY <3>1, <3>2
  <2>7. ASSUME NEW c \in Clients, Retire(c) PROVE \E w \in Releases : Starts(w)'
    <3>1. CASE UNCHANGED <<files, output>>
      BY <2>2, <3>1 DEF files
    <3>2. CASE Remove(previous[c]) /\ UNCHANGED <<lingering, steps>>
      <4>1. Settled /\ \A d \in Clients : pc'[d] = "starting" => pc[d] = "starting"
        BY <1>1, <2>7, <3>2 DEF Retire, Settled, Goes, Tries
      <4>2. previous[c] \in Releases /\ Removing(previous[c])
        BY <1>1, <2>7 DEF Retire, Tries, Removing
      <4> QED
        BY <2>5, <3>2, <4>1, <4>2
    <3> QED
      BY <2>7, <3>1, <3>2 DEF Retire
  <2>8. ASSUME Late PROVE \E w \in Releases : Starts(w)'
    <3>1. PICK m \in lingering :
            /\ lingering' = lingering \ {m}
            /\ \/ m.at = "promoting" /\ staged[m.what] # NoFile /\ Rename(m.what)
               \/ m.at = "retiring" /\ Remove(m.what)
               \/ UNCHANGED final
      BY <2>8 DEF Late, Empty, Unstage, files
    <3>2. m.what \in Releases /\ m = [at |-> m.at, what |-> m.what]
      BY <1>1
    <3>3. Settled /\ pc' = pc
      BY <2>8, <3>1 DEF Late, Settled, phase
    <3>4. CASE m.at = "promoting" /\ staged[m.what] # NoFile /\ Rename(m.what)
      BY <2>4, <3>1, <3>2, <3>4 DEF Renaming
    <3>5. CASE m.at = "retiring" /\ Remove(m.what)
      <4>1. Removing(m.what)
        BY <3>1, <3>2, <3>5 DEF Removing
      <4> QED
        BY <2>5, <3>2, <3>3, <3>5, <4>1
    <3> QED
      BY <2>2, <3>1, <3>4, <3>5
  <2>9. CASE \E c \in Clients : Attempt(c) \/ AttemptEnds(c) \/ CredentialRefused(c) \/ Prompted(c)
               \/ Answered(c) \/ Establish(c) \/ Select(c) \/ Check(c) \/ Open(c) \/ Sent(c)
               \/ Verify(c) \/ Discard(c) \/ Handshake(c) \/ CommandFails(c) \/ Again(c)
    <3>1. UNCHANGED final
      BY <2>9 DEF Attempt, AttemptEnds, CredentialRefused, Prompted, Answered, Establish, Select,
         Check, Open, Empty, Sent, Verify, Discard, Unstage, Handshake, CommandFails, Again, host, files
    <3> QED
      BY <2>2, <3>1
  <2>10. CASE UNCHANGED deployVars
    BY <2>2, <2>10 DEF deployVars, host, files
  <2> QED
    BY <1>1, <2>3, <2>6, <2>7, <2>8, <2>9, <2>10 DEF DeployNext, Connecting, Deploying
<1>2. DeployInv /\ DeployInv' /\ [DeployNext]_deployVars =>
        [(\E v \in Releases : Starts(v)) =>
            (\E v \in Releases : Starts(v)') \/ mixed' # {}]_deployVars
  BY <1>1
<1> QED
  BY <1>2, DeployHolds, PTL DEF DeploySpec, AnEngineStays
=============================================================================
