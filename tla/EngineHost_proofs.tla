-------------------------- MODULE EngineHost_proofs --------------------------
(***************************************************************************)
(* One engine on a host, for any number of processes, requests and kills,  *)
(* and any number of them claiming the socket at the same time.            *)
(***************************************************************************)
EXTENDS EngineHost, FiniteSetTheorems, SequenceTheorems, TLAPS

\* What a process that connected to an engine is from then on.
Beside == {"proxy", "orphan", "gone"}

Values ==
  /\ phase \in [Processes -> Phases]
  /\ path \in Processes \cup {Nobody, Dead}
  /\ queue \in [Processes -> Seq(Processes)]
  /\ serving \in [Processes -> Processes \cup {Nobody}]
  /\ sink \in [Processes -> Processes \cup {Nobody}]
  /\ rivals \in [Processes -> SUBSET Processes]
  /\ displaced \subseteq Processes

Talk ==
  /\ pending \in [Processes -> Seq(Requests)]
  /\ owed \in [Processes -> Nat]
  /\ requests \in 0..MaxRequests
  /\ \A p \in Processes : owed[p] <= 2 * requests

\* Whoever has bound the path has it, unless displaced, and whoever has it listens or is
\* about to.
Owner ==
  /\ \A p \in Processes : phase[p] = "bound" \/ Listening(p) => path = p \/ p \in displaced
  /\ path \in Processes => phase[path] = "bound" \/ Listening(path)

\* Who has found the path taken knows everyone who claims meanwhile, and among them whoever
\* is at a path it holds for stale.
Raced ==
  \A p \in Processes :
    /\ phase[p] \in {"taken", "stale"} =>
         \A q \in Processes \ {p} : phase[q] \in Claiming => q \in rivals[p]
    /\ phase[p] = "stale" /\ path \in Processes => path \in rivals[p]

\* Connections are an engine's, and lead to itself or to processes that connected.
Tied ==
  \A p \in Processes :
    /\ sink[p] # Nobody <=> Listening(p)
    /\ queue[p] # <<>> => Listening(p)
    /\ sink[p] \notin {p, Nobody} => phase[sink[p]] \in Beside
    /\ \A i \in 1..Len(queue[p]) : phase[queue[p][i]] \in Beside

Busy == \A p \in Processes : tasks[p] => phase[p] = "engine"

HostInv == Values /\ Talk /\ FlagsOK /\ Owner /\ Raced /\ Tied /\ Busy

\* The invariant is what the property says of the state, and more.
LEMMA InvIsEnough ==
  ASSUME HostInv
  PROVE  OneEngine
<1>1. Nobody \notin Processes /\ Dead \notin Processes
  BY Bounds DEF Nobody, Dead, Processes
<1>2. \A p \in Processes : owed[p] \in 0..(2 * MaxRequests)
  BY Bounds DEF HostInv, Talk
<1>3. \A p \in Processes : tasks[p] => Listening(p) /\ (path = p \/ p \in displaced)
  BY DEF HostInv, Busy, Owner, Listening
<1>4. TypeOK
  BY <1>2, <1>3 DEF HostInv, Values, Talk, Tied, Owner, TypeOK
<1>5. \A p, q \in Processes \ displaced : Listening(p) /\ Listening(q) => p = q
  BY DEF HostInv, Owner
<1> QED
  BY <1>3, <1>4, <1>5 DEF OneEngine, HostInv, Busy

\* What is left when p's connections close, and the path, if it was p's, leads nowhere.
LEMMA Closed ==
  ASSUME HostInv, NEW p \in Processes, NEW next \in {"gone", "binding"}, Closes(p, next),
         next = "binding" => phase[p] = "engine",
         path' \in {path, Nobody, Dead}, path' # p,
         rivals' \in {rivals, [rivals EXCEPT ![p] = {}]},
         displaced \subseteq displaced', displaced' \subseteq Processes,
         path \in Processes \ {p} => path' = path \/ path \in displaced'
  PROVE  Values' /\ Owner' /\ Raced' /\ Tied' /\ Busy'
<1>1. Nobody \notin Processes /\ Dead \notin Processes
  BY Bounds DEF Nobody, Dead, Processes
<1>2. phase' \in [Processes -> Phases] /\ phase'[p] = next
  BY DEF HostInv, Values, Closes, CutOff, Phases, Claiming
<1>3. \A q \in Processes \ {p} :
        phase'[q] = phase[q] \/ (phase[q] = "proxy" /\ phase'[q] \in {"orphan", "gone"})
  BY DEF Closes, CutOff
<1>4. \A q \in Processes : phase[q] \in Beside => phase'[q] \in Beside
  BY <1>2, <1>3 DEF Beside
<1>5. /\ queue' \in [Processes -> Seq(Processes)] /\ queue'[p] = <<>>
      /\ serving' \in [Processes -> Processes \cup {Nobody}]
      /\ sink' \in [Processes -> Processes \cup {Nobody}] /\ sink'[p] = Nobody
      /\ \A q \in Processes \ {p} : queue'[q] = queue[q] /\ sink'[q] = sink[q]
  BY DEF HostInv, Values, Closes
<1>5a. /\ rivals' \in [Processes -> SUBSET Processes]
       /\ \A q \in Processes \ {p} : rivals'[q] = rivals[q]
  BY DEF HostInv, Values
<1>6. Values'
  BY <1>2, <1>5, <1>5a DEF HostInv, Values
<1>7. \A q \in Processes : Listening(q)' <=> q # p /\ Listening(q)
  BY <1>2, <1>3 DEF Listening
<1>8. \A q \in Processes : phase'[q] \in Claiming => q # p /\ phase'[q] = phase[q]
  BY <1>2, <1>3 DEF Claiming
<1>9. Owner'
  <2>1. ASSUME NEW q \in Processes, phase'[q] = "bound" \/ Listening(q)'
        PROVE  path' = q \/ q \in displaced'
    <3>1. q # p /\ (phase[q] = "bound" \/ Listening(q))
      BY <1>2, <1>3, <1>7, <2>1
    <3> QED
      BY <3>1 DEF HostInv, Owner
  <2>2. ASSUME path' \in Processes PROVE phase'[path'] \in {"bound", "engine", "leaving"}
    <3>1. path' = path /\ path # p
      BY <1>1, <2>2
    <3> QED
      BY <1>3, <2>2, <3>1 DEF HostInv, Owner, Listening
  <2> QED
    BY <2>1, <2>2 DEF Owner, Listening
<1>10. Raced'
  <2>1. path' \in Processes => path' = path
    BY <1>1
  <2> QED
    BY <1>5a, <1>8, <2>1 DEF HostInv, Raced, Claiming
<1>11. \A q \in Processes : tasks'[q] => q # p /\ tasks[q]
  BY DEF Closes, HostInv, FlagsOK
<1>12. Busy'
  BY <1>2, <1>3, <1>11 DEF HostInv, Busy
<1>13. ASSUME NEW q \in Processes PROVE sink'[q] \notin {q, Nobody} => phase'[sink'[q]] \in Beside
  <2>1. CASE q = p
    BY <1>5, <2>1
  <2>2. CASE q # p
    <3>1. sink'[q] = sink[q] /\ sink[q] \in Processes \cup {Nobody}
      BY <1>5, <2>2 DEF HostInv, Values
    <3> QED
      BY <1>2, <1>4, <3>1 DEF HostInv, Tied, Beside
  <2> QED
    BY <2>1, <2>2
<1>14. ASSUME NEW q \in Processes, NEW i \in 1..Len(queue'[q]) PROVE phase'[queue'[q][i]] \in Beside
  <2>1. q # p /\ queue'[q] = queue[q]
    BY <1>5
  <2>2. queue[q][i] \in Processes /\ phase[queue[q][i]] \in Beside
    BY <2>1 DEF HostInv, Values, Tied
  <2> QED
    BY <1>2, <1>4, <2>1, <2>2 DEF Beside
<1>15. Tied'
  <2>1. \A q \in Processes : (sink'[q] # Nobody <=> Listening(q)') /\ (queue'[q] # <<>> => Listening(q)')
    BY <1>5, <1>7 DEF HostInv, Tied
  <2> QED
    BY <1>13, <1>14, <2>1 DEF Tied
<1> QED
  BY <1>6, <1>9, <1>10, <1>12, <1>15

\* p's end, with what its clients sent to it, read or not.
LEMMA Ended ==
  ASSUME HostInv, NEW p \in Processes, Ends(p),
         UNCHANGED requests, path' \in {path, Nobody, Dead}, path' # p,
         rivals' \in {rivals, [rivals EXCEPT ![p] = {}]},
         displaced \subseteq displaced', displaced' \subseteq Processes,
         path \in Processes \ {p} => path' = path \/ path \in displaced'
  PROVE  HostInv'
<1>1. Values' /\ Owner' /\ Raced' /\ Tied' /\ Busy'
  BY Closed DEF Ends
<1>2. FlagsOK'
  BY DEF HostInv, FlagsOK, Ends, Closes
<1>3. pending' \in [Processes -> Seq(Requests)]
  BY DEF HostInv, Talk, Ends, Unread
<1>4. owed' \in [Processes -> Nat] /\ \A q \in Processes : owed'[q] <= owed[q]
  BY DEF HostInv, Talk, Ends
<1>5. \A q \in Processes : owed'[q] <= 2 * requests'
  BY <1>4, Bounds DEF HostInv, Talk
<1> QED
  BY <1>1, <1>2, <1>3, <1>4, <1>5 DEF HostInv, Talk

\* Who claims has no connection yet, and is no engine's either: what ties connections to
\* processes stays as it is while it goes on.
LEMMA StillTied ==
  ASSUME HostInv, NEW p \in Processes, NEW next,
         phase[p] \in {"off", "binding"} \cup Claiming, next \notin {"engine", "leaving"},
         phase' = [phase EXCEPT ![p] = next], UNCHANGED <<queue, serving, sink, tasks>>
  PROVE  Tied' /\ Busy'
<1>1. Tied /\ Busy /\ phase \in [Processes -> Phases]
  BY DEF HostInv, Values
<1>2. \A q \in Processes : Listening(q)' <=> Listening(q)
  BY <1>1 DEF Listening, Claiming
<1>3. \A q : q \in Processes /\ phase[q] \in Beside => phase'[q] \in Beside
  BY <1>1 DEF Beside, Claiming
<1>4. ASSUME NEW q \in Processes, sink[q] \notin {q, Nobody} PROVE phase'[sink[q]] \in Beside
  <2>1. sink[q] \in Processes
    BY <1>4 DEF HostInv, Values
  <2> QED
    BY <1>1, <1>3, <1>4, <2>1 DEF Tied
<1>5. ASSUME NEW q \in Processes, NEW i \in 1..Len(queue[q]) PROVE phase'[queue[q][i]] \in Beside
  <2>1. queue[q][i] \in Processes
    BY DEF HostInv, Values
  <2> QED
    BY <1>1, <1>3, <2>1 DEF Tied
<1>6. Tied'
  BY <1>1, <1>2, <1>4, <1>5 DEF Tied
<1>7. Busy'
  BY <1>1 DEF Busy, Claiming
<1> QED
  BY <1>6, <1>7

\* A claim, of a process that is started or starts again.
LEMMA Bound ==
  ASSUME HostInv, NEW p \in Processes, phase[p] \in {"off", "binding"}, Bind(p), FlagsOK'
  PROVE  HostInv'
<1>0. Nobody \notin Processes /\ Dead \notin Processes /\ Nobody # Dead
  BY Bounds DEF Nobody, Dead, Processes
<1>1. /\ UNCHANGED <<queue, serving, sink, tasks, pending, owed, requests>>
      /\ displaced' = displaced \ {p}
      /\ \/ path = Nobody /\ path' = p /\ phase' = [phase EXCEPT ![p] = "bound"]
         \/ path # Nobody /\ path' = path /\ phase' = [phase EXCEPT ![p] = "taken"]
  BY DEF Bind, Becomes, connections, talk
<1>2. rivals' = [q \in Processes |->
        IF q = p THEN {other \in Processes : path # Nobody /\ phase[other] \in Claiming}
        ELSE IF phase[q] \in {"taken", "stale"} THEN rivals[q] \cup {p} ELSE {}]
  BY DEF Bind, Meets
<1>3. rivals' \in [Processes -> SUBSET Processes]
  BY <1>2 DEF HostInv, Values
<1>4. Values' /\ Talk'
  BY <1>1, <1>3 DEF HostInv, Values, Talk, Phases, Claiming
<1>5. Owner'
  BY <1>0, <1>1 DEF HostInv, Values, Owner, Listening
<1>6. Raced'
  <2>1. ASSUME NEW q \in Processes, phase'[q] \in {"taken", "stale"}
        PROVE  /\ \A other \in Processes \ {q} : phase'[other] \in Claiming => other \in rivals'[q]
               /\ phase'[q] = "stale" /\ path' \in Processes => path' \in rivals'[q]
    <3>1. CASE q = p
      BY <1>1, <1>2, <2>1, <3>1 DEF HostInv, Values
    <3>2. CASE q # p
      <4>1. phase[q] \in {"taken", "stale"} /\ phase'[q] = phase[q] /\ rivals'[q] = rivals[q] \cup {p}
        BY <1>1, <1>2, <2>1, <3>2 DEF HostInv, Values
      <4> QED
        BY <1>0, <1>1, <4>1 DEF HostInv, Values, Raced
    <3> QED
      BY <3>1, <3>2
  <2> QED
    BY <2>1 DEF Raced
<1>7. Tied' /\ Busy'
  BY <1>1, StillTied
<1> QED
  BY <1>4, <1>5, <1>6, <1>7 DEF HostInv

\* Fewer are owed.
LEMMA FewerOwed ==
  ASSUME HostInv, NEW p \in Processes, NEW k \in Nat,
         owed' = [owed EXCEPT ![p] = Less(@, k)]
  PROVE  owed' \in [Processes -> Nat] /\ \A q \in Processes : owed'[q] <= owed[q]
BY DEF HostInv, Talk, Less

\* A frame given up counts once or twice.
LEMMA RefusedMany ==
  ASSUME NEW frames \in Seq(Requests)
  PROVE  Refused(frames) \in Nat
<1>1. IsFiniteSet({i \in 1..Len(frames) : frames[i] = "restart"})
  BY FS_Interval, FS_Subset
<1>2. DOMAIN frames = 1..Len(frames) /\ Len(frames) \in Nat
  OBVIOUS
<1>3. Cardinality({i \in DOMAIN frames : frames[i] = "restart"}) \in Nat
  BY <1>1, <1>2, FS_CardinalityType
<1> QED
  BY <1>2, <1>3 DEF Refused

\* The invariant is kept by every step.
LEMMA HostInvHolds == Spec => []HostInv
<1>0. Nobody \notin Processes /\ Dead \notin Processes /\ Nobody # Dead
  BY Bounds DEF Nobody, Dead, Processes
<1>1. Init => HostInv
  <2> SUFFICES ASSUME Init PROVE HostInv
    OBVIOUS
  <2>1. FlagsOK
    BY DEF Init, FlagsOK
  <2>2. Values /\ Talk
    BY Bounds DEF Init, Values, Talk, Phases
  <2> QED
    BY <1>0, <2>1, <2>2 DEF Init, HostInv, Owner, Raced, Tied, Busy, Claiming, Listening
<1>2. HostInv /\ UNCHANGED vars => HostInv'
  BY DEF HostInv, Values, Talk, FlagsOK, Owner, Raced, Tied, Busy, Listening, vars,
    connections, talk, race
<1>3. ASSUME HostInv, NEW p \in Processes, Claim(p) PROVE HostInv'
  <2> USE <1>0, <1>3
  <2>1. CASE Relaunch(p)
    <3>1. FlagsOK'
      BY <2>1 DEF Relaunch, Bind, HostInv, FlagsOK
    <3> QED
      BY <2>1, <3>1, Bound DEF Relaunch
  <2>2. CASE Listen(p)
    <3>1. CASE path = Nobody /\ Ends(p)
      BY <2>2, <3>1, Ended DEF Listen, race, HostInv, Values
    <3>2. CASE path # Nobody /\ ~Ends(p)
      <4>0. /\ phase[p] = "bound" /\ phase' = [phase EXCEPT ![p] = "engine"]
            /\ serving' = [serving EXCEPT ![p] = p] /\ sink' = [sink EXCEPT ![p] = p]
            /\ restarted' = [restarted EXCEPT ![p] = FALSE]
            /\ owed' = [owed EXCEPT ![p] = IF restarted[p] THEN Less(@, 1) ELSE @]
            /\ UNCHANGED <<open, queue, tasks, pending, path, rivals, displaced, requests>>
        BY <2>2, <3>2 DEF Listen, Becomes, race
      <4>1. owed' \in [Processes -> Nat] /\ \A q \in Processes : owed'[q] <= owed[q]
        BY <4>0 DEF HostInv, Talk, Less
      <4>2. Values' /\ Talk'
        BY <4>0, <4>1, Bounds DEF HostInv, Values, Talk, Phases
      <4>3. FlagsOK'
        BY <4>0 DEF HostInv, FlagsOK
      <4>4. Owner' /\ Raced'
        BY <4>0 DEF HostInv, Values, Owner, Raced, Listening, Claiming
      <4>5. Tied' /\ Busy'
        BY <4>0 DEF HostInv, Values, Tied, Busy, Listening, Beside
      <4> QED
        BY <4>2, <4>3, <4>4, <4>5 DEF HostInv
    <3>3. CASE path # Nobody /\ Ends(p)
      BY <2>2, <3>3 DEF Listen, Ends, Closes, CutOff, Becomes, HostInv, Values
    <3> QED
      BY <2>2, <3>1, <3>2, <3>3 DEF Listen
  <2>3. CASE Connect(p)
    <3>1. Talk' /\ FlagsOK'
      BY <2>3 DEF Connect, HostInv, Talk, FlagsOK, talk
    <3>2. CASE Reachable
      <4>1. /\ path \in Processes /\ Listening(path) /\ path # p /\ path' = path
            /\ phase' = [phase EXCEPT ![p] = "proxy"]
            /\ queue' = [queue EXCEPT ![path] = Append(@, p)]
            /\ rivals' = [rivals EXCEPT ![p] = {}]
            /\ UNCHANGED <<serving, sink, tasks, displaced>> /\ phase[p] = "taken"
        BY <2>3, <3>2 DEF Connect, Becomes, Parts, Reachable, Listening
      <4>2. Values'
        BY <4>1 DEF HostInv, Values, Phases
      <4>3. Owner' /\ Raced' /\ Busy'
        BY <4>1 DEF HostInv, Values, Owner, Raced, Busy, Listening, Claiming
      <4>4. \A q \in Processes : \A i \in 1..Len(queue'[q]) : phase'[queue'[q][i]] \in Beside
        BY <4>1 DEF HostInv, Values, Tied, Beside
      <4>5. Tied'
        BY <4>1, <4>4 DEF HostInv, Values, Tied, Beside, Listening
      <4> QED
        BY <3>1, <4>2, <4>3, <4>5 DEF HostInv
    <3>3. CASE ~Reachable
      <4>1. /\ phase' = [phase EXCEPT ![p] = "stale"] /\ phase[p] = "taken"
            /\ UNCHANGED <<path, queue, serving, sink, tasks, rivals, displaced>>
        BY <2>3, <3>3 DEF Connect, Becomes
      <4>2. path \in Processes => path # p /\ phase[path] \in Claiming
        BY <3>3, <4>1 DEF Reachable, HostInv, Owner, Claiming, Listening
      <4>3. Values' /\ Tied' /\ Busy'
        BY <4>1, StillTied DEF HostInv, Values, Phases, Claiming
      <4>4. Owner'
        BY <4>1 DEF HostInv, Values, Owner, Listening
      <4>5. Raced'
        BY <4>1, <4>2 DEF HostInv, Values, Raced, Claiming
      <4> QED
        BY <3>1, <4>3, <4>4, <4>5 DEF HostInv
    <3> QED
      BY <3>2, <3>3
  <2>4. CASE Unlink(p)
    <3>0. /\ phase[p] = "stale" /\ rivals' = [rivals EXCEPT ![p] = {}] /\ UNCHANGED requests
          /\ displaced' = displaced \cup (IF path \in rivals[p] THEN {path} \cap Processes ELSE {})
      BY <2>4 DEF Unlink, Displaces, Parts
    <3>1. CASE path = Nobody
      <4>1. Ends(p) /\ path' = path /\ displaced' = displaced
        BY <2>4, <3>0, <3>1 DEF Unlink
      <4> QED
        BY <3>0, <3>1, <4>1, Ended DEF HostInv, Values
    <3>2. CASE path # Nobody
      <4>1. /\ path' = Nobody /\ phase' = [phase EXCEPT ![p] = "rebinding"]
            /\ UNCHANGED <<open, restarted, connections, tasks, talk>>
        BY <2>4, <3>2 DEF Unlink, Becomes
      <4>2. Values' /\ Talk' /\ FlagsOK'
        BY <3>0, <4>1 DEF HostInv, Values, Talk, FlagsOK, connections, talk, Phases, Claiming
      <4>3. path \in Processes => path \in displaced'
        BY <3>0 DEF HostInv, Raced
      <4>4. Owner'
        BY <3>0, <4>1, <4>3 DEF HostInv, Values, Owner, Listening
      <4>5. Raced'
        BY <3>0, <4>1 DEF HostInv, Values, Raced, Claiming
      <4>6. Tied' /\ Busy'
        BY <3>0, <4>1, StillTied DEF Claiming, connections
      <4> QED
        BY <4>2, <4>4, <4>5, <4>6 DEF HostInv
    <3> QED
      BY <3>1, <3>2
  <2>5. CASE Rebind(p)
    <3>0. phase[p] = "rebinding" /\ UNCHANGED <<rivals, displaced, requests>>
      BY <2>5 DEF Rebind, race
    <3>1. CASE path # Nobody
      <4>1. Ends(p) /\ path' = path
        BY <2>5, <3>1 DEF Rebind
      <4>2. path # p
        BY <3>0 DEF HostInv, Owner, Listening
      <4> QED
        BY <3>0, <4>1, <4>2, Ended DEF HostInv, Values
    <3>2. CASE path = Nobody
      <4>1. /\ path' = p /\ phase' = [phase EXCEPT ![p] = "bound"]
            /\ UNCHANGED <<open, restarted, connections, tasks, talk>>
        BY <2>5, <3>2 DEF Rebind, Becomes
      <4>2. Values' /\ Talk' /\ FlagsOK'
        BY <3>0, <4>1 DEF HostInv, Values, Talk, FlagsOK, connections, talk, Phases, Claiming
      <4>3. Owner'
        BY <3>0, <3>2, <4>1 DEF HostInv, Values, Owner, Listening
      <4>4. Raced'
        BY <3>0, <4>1 DEF HostInv, Values, Raced, Claiming
      <4>5. Tied' /\ Busy'
        BY <3>0, <4>1, StillTied DEF Claiming, connections
      <4> QED
        BY <4>2, <4>3, <4>4, <4>5 DEF HostInv
    <3> QED
      BY <3>1, <3>2
  <2> QED
    BY <1>3, <2>1, <2>2, <2>3, <2>4, <2>5 DEF Claim
<1>4. ASSUME HostInv, NEW p \in Processes, OrphanEnds(p) PROVE HostInv'
  <2> USE <1>4
  <2>1. path # p
    BY <1>4 DEF OrphanEnds, HostInv, Owner, Listening
  <2> QED
    BY <1>4, <2>1, Ended DEF OrphanEnds, race, HostInv, Values
<1>5. ASSUME HostInv, NEW p \in Processes, Client(p) PROVE HostInv'
  <2> USE <1>5
  <2>1. CASE Launch(p)
    <3>1. FlagsOK'
      BY <2>1 DEF Launch, Bind, HostInv, FlagsOK
    <3> QED
      BY <2>1, <3>1, Bound DEF Launch
  <2>2. CASE Close(p)
    <3>1. FlagsOK'
      BY <2>2 DEF Close, HostInv, FlagsOK
    <3>2. Talk'
      BY <2>2, Bounds DEF Close, HostInv, Talk
    <3> QED
      BY <2>2, <3>1, <3>2 DEF Close, HostInv, Values, Owner, Raced, Tied, Busy, Listening,
        connections, race
  <2>3. ASSUME NEW r \in Requests, Ask(p, r) PROVE HostInv'
    <3>1. Talk'
      BY <2>3, Bounds DEF Ask, HostInv, Talk
    <3> QED
      BY <2>3, <3>1 DEF Ask, HostInv, Values, FlagsOK, Owner, Raced, Tied, Busy, Listening,
        connections, race
  <2> QED
    BY <1>5, <2>1, <2>2, <2>3 DEF Client
<1>6. ASSUME HostInv, NEW p \in Processes, TaskEnds(p) PROVE HostInv'
  <2> USE <1>6
  <2>1. FlagsOK' /\ Busy'
    BY <1>6 DEF TaskEnds, HostInv, FlagsOK, Busy
  <2> QED
    BY <1>6, <2>1 DEF TaskEnds, HostInv, Values, Talk, Owner, Raced, Tied, Listening,
      connections, talk, race
<1>7. ASSUME HostInv, NEW p \in Processes, Crash(p) PROVE HostInv'
  BY <1>0, <1>7, Ended DEF Crash, Abandoned, Parts, HostInv, Values
<1>8. ASSUME HostInv, NEW e \in Processes, Loop(e) PROVE HostInv'
  <2> USE <1>0, <1>8
  <2>1. CASE Serve(e)
    <3>1. /\ serving[e] \in Processes /\ pending[serving[e]] \in Seq(Requests)
          /\ pending[serving[e]] # <<>> /\ sink[e] # Nobody /\ sink[e] \in Processes
          /\ phase[e] = "engine"
      BY <2>1 DEF Serve, NextRequest, HostInv, Values, Talk, Tied, Listening
    <3>2. pending' \in [Processes -> Seq(Requests)]
      BY <2>1, <3>1 DEF Serve, Read, HostInv, Talk
    <3>3. owed' \in [Processes -> Nat] /\ \A q \in Processes : owed'[q] <= owed[q]
      BY <2>1, <3>1, FewerOwed DEF Serve, Answered
    <3>4. Talk'
      BY <2>1, <3>2, <3>3, Bounds DEF Serve, HostInv, Talk
    <3>5. tasks' \in [Processes -> BOOLEAN] /\ \A q \in Processes \ {e} : tasks'[q] = tasks[q]
      BY <2>1 DEF Serve, HostInv, FlagsOK
    <3>6. FlagsOK' /\ Busy'
      BY <2>1, <3>1, <3>5 DEF Serve, HostInv, FlagsOK, Busy
    <3> QED
      BY <2>1, <3>4, <3>6 DEF Serve, HostInv, Values, Owner, Raced, Tied, Listening, connections,
        race
  <2>2. CASE Shutdown(e)
    BY <2>2, Ended DEF Shutdown, Abandoned, race, HostInv, Values
  <2>3. CASE ExecFails(e)
    BY <2>3, Ended DEF ExecFails, Abandoned, race, HostInv, Values
  <2>4. ASSUME NEW k \in 0..MaxRequests, Restart(e, k) PROVE HostInv'
    <3> DEFINE client == serving[e]
               behind == Tail(pending[client])
    <3>1. /\ client \in Processes /\ pending[client] \in Seq(Requests) /\ pending[client] # <<>>
          /\ phase[e] = "engine" /\ k \in Nat
      BY <2>4, Bounds DEF Restart, NextRequest, HostInv, Values, Talk
    <3>2. behind \in Seq(Requests)
      BY <3>1
    <3>3. k <= Len(behind) /\ Len(behind) \in Nat
      BY <2>4, <3>2 DEF Restart
    <3>4. /\ SubSeq(behind, 1, k) \in Seq(Requests)
          /\ SubSeq(behind, k + 1, Len(behind)) \in Seq(Requests)
      BY <3>1, <3>2, <3>3, SubSeqProperties
    <3>5. pending' \in [Processes -> Seq(Requests)]
      BY <2>4, <3>1, <3>4 DEF Restart, Unread, HostInv, Talk
    <3>6. owed' \in [Processes -> Nat] /\ \A q \in Processes : owed'[q] <= owed[q]
      <4>1. CASE client = e
        <5>0. Refused(SubSeq(behind, 1, k)) \in Nat
          BY <3>4, RefusedMany
        <5>1. 1 + Refused(SubSeq(behind, 1, k)) \in Nat
          BY <5>0
        <5>2. owed' = [owed EXCEPT ![e] = Less(@, 1 + Refused(SubSeq(behind, 1, k)))]
          BY <2>4, <4>1 DEF Restart
        <5> QED
          BY <5>1, <5>2, FewerOwed
      <4>2. CASE client # e
        BY <2>4, <4>2 DEF Restart, HostInv, Talk
      <4> QED
        BY <4>1, <4>2
    <3>7. Talk'
      <4>1. requests' = requests
        BY <2>4 DEF Restart
      <4> QED
        BY <3>5, <3>6, <4>1, Bounds DEF HostInv, Talk
    <3>8. FlagsOK'
      BY <2>4 DEF Restart, Closes, HostInv, FlagsOK
    <3>9. Values' /\ Owner' /\ Raced' /\ Tied' /\ Busy'
      BY <2>4, <3>1, Closed DEF Restart, Abandoned, race, HostInv, Values
    <3> QED
      BY <3>7, <3>8, <3>9 DEF HostInv
  <2>5. CASE HangUp(e)
    <3>1. Values' /\ Tied'
      BY SMTT(30), <2>5 DEF HangUp, race, HostInv, Values, Tied, Listening
    <3> QED
      BY <2>5, <3>1 DEF HangUp, HostInv, Talk, FlagsOK, Owner, Raced, Busy, Listening, talk, race
  <2>6. CASE Accept(e)
    <3>1. /\ phase[e] = "engine" /\ queue[e] \in Seq(Processes) /\ queue[e] # <<>>
          /\ Head(queue[e]) \in Processes /\ phase[Head(queue[e])] \in Beside
          /\ sink[e] \in Processes /\ (sink[e] # e => phase[sink[e]] \in Beside)
      BY <2>6 DEF Accept, HostInv, Values, Tied, Listening
    <3>2. /\ phase' \in [Processes -> Phases] /\ phase'[e] = "engine"
          /\ \A q \in Processes : \/ phase'[q] = phase[q]
                                  \/ phase[q] \in Beside /\ phase'[q] = "gone"
      BY <2>6, <3>1 DEF Accept, Retarget, HostInv, Values, Phases
    <3>2a. Talk' /\ FlagsOK'
      BY <2>6, Bounds DEF Accept, Retarget, HostInv, Talk, FlagsOK
    <3>3. /\ queue' = [queue EXCEPT ![e] = Tail(@)] /\ sink' = [sink EXCEPT ![e] = Head(queue[e])]
          /\ serving' = [serving EXCEPT ![e] = Head(queue[e])]
      BY <2>6 DEF Accept, Retarget
    <3>4. Values'
      BY <2>6, <3>1, <3>2, <3>3 DEF Accept, HostInv, Values, race
    <3>5. \A q \in Processes : phase[q] \in Beside => phase'[q] \in Beside
      BY <3>2 DEF Beside
    <3>6. \A q \in Processes : Listening(q)' <=> Listening(q)
      BY <3>2 DEF Listening, Beside
    <3>7. \A q \in Processes : \A i \in 1..Len(queue'[q]) : phase'[queue'[q][i]] \in Beside
      <4>1. \A i \in 1..Len(Tail(queue[e])) : /\ i + 1 \in 1..Len(queue[e])
                                              /\ Tail(queue[e])[i] = queue[e][i + 1]
        BY <3>1
      <4>2. \A q \in Processes : \A i \in 1..Len(queue[q]) :
              queue[q][i] \in Processes /\ phase[queue[q][i]] \in Beside
        BY DEF HostInv, Values, Tied
      <4> QED
        BY <3>3, <3>5, <4>1, <4>2 DEF HostInv, Values
    <3>8. Tied'
      BY <3>1, <3>3, <3>5, <3>6, <3>7 DEF HostInv, Values, Tied, Listening
    <3>9. Owner' /\ Raced' /\ Busy'
      BY <2>6, <3>2, <3>6 DEF Accept, HostInv, Owner, Raced, Busy, Beside, Claiming, Listening, race
    <3> QED
      BY <3>2a, <3>4, <3>8, <3>9 DEF HostInv
  <2>7. CASE Leave(e)
    <3>1. Values' /\ Owner' /\ Raced' /\ Tied' /\ Busy'
      BY <2>7 DEF Leave, Becomes, HostInv, Values, Owner, Raced, Tied, Busy, Listening, Beside,
        Claiming, Phases, connections, race
    <3> QED
      BY <2>7, <3>1 DEF Leave, HostInv, Talk, FlagsOK, talk
  <2>8. CASE Release(e)
    <3>1. /\ Ends(e) /\ path' = Nobody /\ UNCHANGED <<rivals, requests>>
          /\ displaced' = displaced \cup (IF e \in displaced THEN {path} \cap Processes ELSE {})
      BY <2>8 DEF Release, Displaces
    <3>2. path = e \/ e \in displaced
      BY <2>8 DEF Release, HostInv, Owner, Listening
    <3>3. path \in Processes \ {e} => path \in displaced'
      BY <3>1, <3>2
    <3>4. displaced' \subseteq Processes /\ displaced \subseteq displaced'
      BY <3>1 DEF HostInv, Values
    <3> QED
      BY <3>1, <3>3, <3>4, Ended
  <2> QED
    BY <1>8, <2>1, <2>2, <2>3, <2>4, <2>5, <2>6, <2>7, <2>8 DEF Loop
<1>9. HostInv /\ [Next]_vars => HostInv'
  BY <1>2, <1>3, <1>4, <1>5, <1>6, <1>7, <1>8 DEF Next
<1> QED
  BY <1>1, <1>9, PTL DEF Spec

\* For any number of processes, requests and kills, and any number of processes that claim
\* at the same time: an engine that runs something neither leaves nor loses the path, and no
\* two serve, but for one whose path was removed by another that claimed beside it (claim's
\* connect, remove_file and second bind are not one step) or that had lost its own.
THEOREM OneEngineServes == Spec => []OneEngine
<1>1. Spec => []HostInv
  BY HostInvHolds
<1>2. HostInv => OneEngine
  BY InvIsEnough
<1> QED
  BY <1>1, <1>2, PTL
=============================================================================
