--------------------------- MODULE Terminals_proofs ---------------------------
(***************************************************************************)
(* The dock's terminals, for any number of shells, of steps and of chunks  *)
(* kept: a panel has the last of what arrived, one shell at a time runs,   *)
(* its size settles to what its terminal was fitted to, unless a command   *)
(* for it has overtaken another, and no end of a shell is lost on its way  *)
(* to the panel.                                                           *)
(***************************************************************************)
EXTENDS Terminals, FiniteSetTheorems, TLAPS

APanel == [pending : Seq(Nat), shown : Seq(Nat), built : BOOLEAN, ended : BOOLEAN]
Frames == [do : {"run", "key", "size"}, id : Ids, n : Nat]
Identities == Ids \cup {0}

\* The webview: a panel is listed once, and what is shown is a panel.
Dock ==
  /\ panels \in Seq(Ids) /\ IsInjective(panels)
  /\ active \in Identities /\ (active # 0 => \E k \in DOMAIN panels : panels[k] = active)
  /\ starting \in Identities /\ started \in Identities /\ minted \in 0..MaxShells
  /\ \A k \in DOMAIN panels : panels[k] <= minted
  /\ mounted \in Identities /\ mounted <= minted /\ listening \in {0, mounted}
  /\ importing \in Seq([id : Ids, mount : Nat]) /\ mount \in Nat
  /\ \A k \in DOMAIN importing : importing[k].id <= minted

\* Of what is attached before the library has come, everything waits.
Panels ==
  /\ panel \in [Ids -> APanel]
  /\ \A i \in Ids : /\ panel[i].built => panel[i].pending = <<>>
                    /\ ~panel[i].built => panel[i].shown = <<>>

Queues ==
  /\ commands \in Seq(Frames) /\ wire \in Seq(Frames)
  /\ events \in Seq([id : Ids, chunk : Nat]) /\ answers \subseteq [id : Ids, ok : BOOLEAN]
  /\ steps \in Nat /\ window \in Nat /\ fitted \in Nat

Shells ==
  /\ spawning \in [id : Identities, at : {"idle", "marking", "forked"}]
  /\ (spawning.at = "idle" <=> spawning.id = 0)
  /\ task \in [Ids -> {"none", "running", "exited", "released"}]
  /\ input \in [Ids -> Seq(Nat)] /\ got \in [Ids -> Seq(Nat)] /\ size \in [Ids -> Nat]
  /\ \A i \in Ids : Len(input[i]) <= Room
  /\ held \subseteq Ids /\ abandoned \subseteq Ids

\* The shell that is, or is to be, on screen is in a panel.
Current ==
  /\ starting # 0 => /\ started = 0 /\ starting <= minted
                     /\ \E k \in DOMAIN panels : panels[k] = starting
  /\ started # 0 => \E k \in DOMAIN panels : panels[k] = started

\* A shell nobody has given up on is the current one.
Owned(i) == i <= minted /\ (i \in abandoned \/ i = starting \/ i = started)
Unborn(i) == Owned(i) /\ task[i] = "none" /\ \A a \in answers : a.id # i

Waits(i) == Unborn(i) /\ spawning.id # i

\* A shell is asked for once, being created, or answered for.
RunIn(frames, i) == \E k \in DOMAIN frames : frames[k].do = "run" /\ frames[k].id = i
Pending(i) == RunIn(commands, i) \/ RunIn(wire, i)
OneRun(frames) ==
  \A j, k \in DOMAIN frames :
    frames[j].do = "run" /\ frames[k].do = "run" /\ frames[j].id = frames[k].id => j = k
Once == /\ OneRun(commands) /\ OneRun(wire)
        /\ \A i \in Ids : ~(RunIn(commands, i) /\ RunIn(wire, i))
Asked == \A i \in Ids : Pending(i) => Waits(i)
Born ==
  /\ \A i \in Ids : spawning.id = i => Unborn(i)
  /\ \A a \in answers : /\ a.id <= minted /\ (~a.ok => task[a.id] = "none")
                        /\ \A b \in answers : b.id = a.id => b = a
  /\ \A i \in Ids : task[i] # "none" => Owned(i)

\* What of a shell's output is on its way follows what was delivered, without a gap.
Follows(k) ==
  LET i == events[k].id
      chunk == events[k].chunk
  IN /\ delivered[i] < chunk /\ chunk <= printed[i]
     /\ \/ chunk = delivered[i] + 1
        \/ \E j \in DOMAIN events : j < k /\ events[j].id = i /\ events[j].chunk = chunk - 1
     /\ \A j \in DOMAIN events : j < k /\ events[j].id = i => events[j].chunk < chunk
Reaches(i) == \/ printed[i] = delivered[i]
              \/ \E k \in DOMAIN events : events[k].id = i /\ events[k].chunk = printed[i]
Stream ==
  /\ printed \in [Ids -> Nat] /\ delivered \in [Ids -> Nat]
  /\ \A k \in DOMAIN events :
       events[k].id <= minted /\ (events[k].chunk # 0 => Follows(k))
  /\ \A i \in Ids : delivered[i] <= printed[i] /\ Reaches(i)

\* Chunks that follow one another up to the last.
UpTo(chunks, last) ==
  chunks # <<>> => /\ chunks[Len(chunks)] = last
                   /\ \A k \in 1..(Len(chunks) - 1) : chunks[k + 1] = chunks[k] + 1
Newest == \A i \in Ids : UpTo(panel[i].shown, delivered[i]) /\ UpTo(panel[i].pending, delivered[i])

\* A shell is told sizes after it was asked for, where no command for it has overtaken another.
SizeIn(frames, i) == \E k \in DOMAIN frames : frames[k].do = "size" /\ frames[k].id = i
RunsFirst(frames, i) ==
  \A j, k \in DOMAIN frames :
    frames[j].do = "run" /\ frames[j].id = i /\ frames[k].do = "size" /\ frames[k].id = i => j < k
InOrder(i) ==
  RunsFirst(commands, i) /\ RunsFirst(wire, i) /\ ~(RunIn(commands, i) /\ SizeIn(wire, i))
Order ==
  /\ \A k \in DOMAIN commands : commands[k].id <= minted
  /\ \A k \in DOMAIN wire : wire[k].id <= minted
  /\ \A i \in Ids \ overtaken : InOrder(i)

\* The last size on its way to a shell is the one its terminal was fitted to, or it has that one.
LastIn(frames, i, n) ==
  \E k \in DOMAIN frames :
    /\ frames[k].do = "size" /\ frames[k].id = i /\ frames[k].n = n
    /\ \A j \in DOMAIN frames : j > k => ~(frames[j].do = "size" /\ frames[j].id = i)
OnItsWay(i) == LastIn(commands, i, fitted) \/ (~SizeIn(commands, i) /\ LastIn(wire, i, fitted))
Clear(i) == ~SizeIn(commands, i) /\ ~SizeIn(wire, i) /\ ~Pending(i)
Settled(i) == Clear(i) /\ spawning.id # i /\ (task[i] = "running" => size[i] = fitted)
Told(i) == OnItsWay(i) \/ Settled(i)
Sizes == listening # 0 /\ listening \notin overtaken => Told(listening)

\* What holds in every state; and of the sizes besides.
Invariant ==
  Dock /\ Panels /\ Queues /\ Shells /\ Current /\ Once /\ Asked /\ Born /\ Stream /\ Newest
SizeInvariant == Order /\ Sizes

-----------------------------------------------------------------------------
(* Sequences.                                                                *)

LEMMA ElementIs ==
  ASSUME NEW S, NEW s \in Seq(S), NEW k \in DOMAIN s
  PROVE  s[k] \in S
OBVIOUS

LEMMA AppendIs ==
  ASSUME NEW S, NEW s \in Seq(S), NEW e \in S
  PROVE  /\ Append(s, e) \in Seq(S) /\ Len(Append(s, e)) = Len(s) + 1 /\ Len(s) \in Nat
         /\ DOMAIN s = 1..Len(s) /\ DOMAIN Append(s, e) = 1..(Len(s) + 1)
         /\ \A k \in DOMAIN s : Append(s, e)[k] = s[k] /\ s[k] \in S
         /\ Append(s, e)[Len(s) + 1] = e
OBVIOUS

LEMMA TailIs ==
  ASSUME NEW S, NEW s \in Seq(S), s # <<>>
  PROVE  /\ Head(s) \in S /\ Head(s) = s[1] /\ 1 \in DOMAIN s
         /\ Tail(s) \in Seq(S) /\ Len(Tail(s)) = Len(s) - 1 /\ Len(s) \in Nat \ {0}
         /\ DOMAIN s = 1..Len(s) /\ DOMAIN Tail(s) = 1..(Len(s) - 1)
         /\ \A k \in DOMAIN Tail(s) : Tail(s)[k] = s[k + 1] /\ k + 1 \in DOMAIN s
OBVIOUS

LEMMA RemoveIs ==
  ASSUME NEW S, NEW s \in Seq(S), NEW k \in DOMAIN s
  PROVE  /\ RemoveAt(s, k) \in Seq(S) /\ Len(RemoveAt(s, k)) = Len(s) - 1 /\ Len(s) \in Nat \ {0}
         /\ DOMAIN s = 1..Len(s) /\ DOMAIN RemoveAt(s, k) = 1..(Len(s) - 1)
         /\ \A j \in 1..(Len(s) - 1) :
              RemoveAt(s, k)[j] = IF j < k THEN s[j] ELSE s[j + 1]
<1> DEFINE a == SubSeq(s, 1, k - 1)
           b == SubSeq(s, k + 1, Len(s))
<1>1. Len(s) \in Nat \ {0} /\ DOMAIN s = 1..Len(s) /\ k \in 1..Len(s)
  OBVIOUS
<1>2. a \in Seq(S) /\ Len(a) = k - 1 /\ \A j \in 1..(k - 1) : a[j] = s[j]
  BY <1>1
<1>3. b \in Seq(S) /\ Len(b) = Len(s) - k /\ \A j \in 1..(Len(s) - k) : b[j] = s[k + j]
  BY <1>1
<1>4. RemoveAt(s, k) = a \o b
  BY DEF RemoveAt
<1> HIDE DEF a, b
<1>5. /\ a \o b \in Seq(S) /\ Len(a \o b) = Len(s) - 1
      /\ \A j \in 1..(Len(s) - 1) : (a \o b)[j] = IF j < k THEN a[j] ELSE b[j - k + 1]
  <2>1. /\ a \o b \in Seq(S) /\ Len(a \o b) = Len(a) + Len(b)
        /\ \A j \in 1..(Len(a) + Len(b)) :
             (a \o b)[j] = IF j <= Len(a) THEN a[j] ELSE b[j - Len(a)]
    BY <1>2, <1>3, SMTT(30)
  <2>2. Len(a) + Len(b) = Len(s) - 1
    BY <1>1, <1>2, <1>3
  <2>3. ASSUME NEW j \in 1..(Len(s) - 1)
        PROVE  (a \o b)[j] = IF j < k THEN a[j] ELSE b[j - k + 1]
    <3>1. j \in Int /\ (j <= k - 1 <=> j < k) /\ j - (k - 1) = j - k + 1
      BY <1>1
    <3> QED
      BY <2>1, <2>2, <3>1, <1>2
  <2> QED
    BY <2>1, <2>2, <2>3
<1>6. ASSUME NEW j \in 1..(Len(s) - 1)
      PROVE  RemoveAt(s, k)[j] = IF j < k THEN s[j] ELSE s[j + 1]
  <2>1. CASE j < k
    <3>1. j \in 1..(k - 1)
      BY <1>1, <2>1
    <3> QED
      BY <2>1, <3>1, <1>2, <1>4, <1>5
  <2>2. CASE ~(j < k)
    <3>1. j - k + 1 \in 1..(Len(s) - k) /\ k + (j - k + 1) = j + 1
      BY <1>1, <2>2
    <3> QED
      BY <2>2, <3>1, <1>3, <1>4, <1>5
  <2> QED
    BY <2>1, <2>2
<1>7. RemoveAt(s, k) \in Seq(S) /\ Len(RemoveAt(s, k)) = Len(s) - 1
  BY <1>4, <1>5
<1>8. DOMAIN RemoveAt(s, k) = 1..(Len(s) - 1)
  BY <1>7
<1> QED
  BY <1>1, <1>6, <1>7, <1>8

\* The oldest go: what is kept is an end of what there was.
LEMMA KeptIs ==
  ASSUME NEW s \in Seq(Nat), NEW e \in Nat, TerminalsAssumption
  PROVE  LET t == Append(s, e) IN
         /\ Kept(t) \in Seq(Nat) /\ Kept(t) # <<>> /\ Kept(t)[Len(Kept(t))] = e
         /\ \E d \in Nat : /\ Len(Kept(t)) + d = Len(t)
                          /\ \A k \in 1..Len(Kept(t)) : Kept(t)[k] = t[k + d]
<1> DEFINE t == Append(s, e)
<1>1. t \in Seq(Nat) /\ Len(t) \in Nat \ {0} /\ t[Len(t)] = e /\ PendingMax \in Nat \ {0}
  BY DEF TerminalsAssumption
<1> HIDE DEF t
<1>2. CASE Len(t) > PendingMax
  <2> DEFINE d == Len(t) - PendingMax
  <2>1. d \in Nat /\ Kept(t) = SubSeq(t, d + 1, Len(t))
    BY <1>1, <1>2 DEF Kept
  <2>2. /\ Kept(t) \in Seq(Nat) /\ Len(Kept(t)) = PendingMax
        /\ \A k \in 1..Len(Kept(t)) : Kept(t)[k] = t[k + d]
    BY <1>1, <1>2, <2>1
  <2>3. Len(Kept(t)) + d = Len(t) /\ Len(Kept(t)) \in 1..Len(Kept(t))
    BY <1>1, <1>2, <2>2
  <2> HIDE DEF d
  <2>4. Kept(t) # <<>> /\ Kept(t)[Len(Kept(t))] = e
    BY <1>1, <2>2, <2>3
  <2> QED
    BY <2>1, <2>2, <2>3, <2>4 DEF t
<1>3. CASE ~(Len(t) > PendingMax)
  <2>1. Kept(t) = t /\ t # <<>>
    BY <1>1, <1>3 DEF Kept
  <2>2. Len(t) + 0 = Len(t) /\ \A k \in 1..Len(t) : t[k] = t[k + 0]
    BY <1>1
  <2> QED
    BY <1>1, <2>1, <2>2 DEF t
<1> QED
  BY <1>2, <1>3

-----------------------------------------------------------------------------
(* Panels.                                                                   *)

LEMMA APanelIs ==
  ASSUME NEW p \in APanel, NEW chunk \in Nat, TerminalsAssumption
  PROVE  /\ NewPanel \in APanel /\ NewPanel.pending = <<>> /\ NewPanel.shown = <<>>
         /\ ~NewPanel.built
         /\ Written(p, chunk) \in APanel /\ Written(p, chunk).built = p.built
         /\ p.built => /\ Written(p, chunk).shown = Append(p.shown, chunk)
                       /\ Written(p, chunk).pending = p.pending
         /\ ~p.built => /\ Written(p, chunk).pending = Kept(Append(p.pending, chunk))
                        /\ Written(p, chunk).shown = p.shown
         /\ Built(p) \in APanel /\ Built(p).built /\ Built(p).pending = <<>>
         /\ Built(p).shown = p.pending
         /\ [p EXCEPT !.ended = TRUE] \in APanel
         /\ [p EXCEPT !.ended = TRUE].built = p.built
         /\ [p EXCEPT !.ended = TRUE].shown = p.shown
         /\ [p EXCEPT !.ended = TRUE].pending = p.pending
<1>1. Kept(Append(p.pending, chunk)) \in Seq(Nat) /\ Append(p.shown, chunk) \in Seq(Nat)
  BY KeptIs DEF APanel
<1>2. /\ NewPanel \in APanel /\ NewPanel.pending = <<>> /\ NewPanel.shown = <<>>
      /\ ~NewPanel.built
  BY DEF NewPanel, APanel
<1>3. CASE p.built
  <2>1. Written(p, chunk) = [p EXCEPT !.shown = Append(@, chunk)]
    BY <1>3 DEF Written
  <2>2. /\ Written(p, chunk) \in APanel /\ Written(p, chunk).built = p.built
        /\ Written(p, chunk).shown = Append(p.shown, chunk)
        /\ Written(p, chunk).pending = p.pending
    BY <1>1, <2>1 DEF APanel
  <2> QED
    BY <1>2, <1>3, <2>2 DEF APanel, Built
<1>4. CASE ~p.built
  <2>1. Written(p, chunk) = [p EXCEPT !.pending = Kept(Append(@, chunk))]
    BY <1>4 DEF Written
  <2>2. /\ Written(p, chunk) \in APanel /\ Written(p, chunk).built = p.built
        /\ Written(p, chunk).pending = Kept(Append(p.pending, chunk))
        /\ Written(p, chunk).shown = p.shown
    BY <1>1, <2>1 DEF APanel
  <2> QED
    BY <1>2, <1>4, <2>2 DEF APanel, Built
<1> QED
  BY <1>3, <1>4 DEF APanel

\* Whether a panel is listed.
LEMMA ContainsIs ==
  ASSUME NEW s \in Seq(Ids), NEW i
  PROVE  Contains(s, i) <=> \E k \in DOMAIN s : s[k] = i
BY DEF Contains

LEMMA WithPanelIs ==
  ASSUME Dock, NEW i \in Ids
  PROVE  /\ WithPanel(i) \in Seq(Ids) /\ IsInjective(WithPanel(i))
         /\ \E k \in DOMAIN WithPanel(i) : WithPanel(i)[k] = i
         /\ \A j \in DOMAIN panels :
              \E k \in DOMAIN WithPanel(i) : WithPanel(i)[k] = panels[j]
         /\ \A k \in DOMAIN WithPanel(i) :
              WithPanel(i)[k] = i \/ \E j \in DOMAIN panels : WithPanel(i)[k] = panels[j]
<1>1. panels \in Seq(Ids) /\ \A a, b \in DOMAIN panels : panels[a] = panels[b] => a = b
  BY DEF Dock, IsInjective
<1>2. CASE Contains(panels, i)
  BY <1>1, <1>2, ContainsIs DEF WithPanel, IsInjective
<1>3. CASE ~Contains(panels, i)
  <2> DEFINE s == WithPanel(i)
  <2>1. /\ s \in Seq(Ids) /\ DOMAIN panels = 1..Len(panels) /\ Len(panels) \in Nat
        /\ DOMAIN s = 1..(Len(panels) + 1) /\ s[Len(panels) + 1] = i
        /\ \A k \in DOMAIN panels : s[k] = panels[k]
    BY <1>1, <1>3, AppendIs DEF WithPanel
  <2>2. \A k \in DOMAIN panels : panels[k] # i
    BY <1>1, <1>3, ContainsIs
  <2> HIDE DEF s
  <2>3. \A a, b \in DOMAIN s : s[a] = s[b] => a = b
    BY <1>1, <2>1, <2>2
  <2>4. \A j \in DOMAIN panels : j \in DOMAIN s
    BY <2>1
  <2>5. Len(panels) + 1 \in DOMAIN s
    BY <2>1
  <2>6. \A k \in DOMAIN s : k \in DOMAIN panels \/ k = Len(panels) + 1
    BY <2>1
  <2> QED
    BY <2>1, <2>3, <2>4, <2>5, <2>6 DEF s, IsInjective
<1> QED
  BY <1>2, <1>3

\* What release leaves.
LEMMA ReleaseIs ==
  ASSUME Dock, NEW i \in Ids, Release(i)
  PROVE  /\ panels' \in Seq(Ids) /\ IsInjective(panels')
         /\ \A k \in DOMAIN panels' : \E j \in DOMAIN panels : panels'[k] = panels[j]
         /\ \A j \in DOMAIN panels :
              panels[j] # i => \E k \in DOMAIN panels' : panels'[k] = panels[j]
         /\ panel' = [panel EXCEPT ![i] = NewPanel]
         /\ active' \in Identities
         /\ active' # 0 => \E k \in DOMAIN panels' : panels'[k] = active'
         /\ listening' = (IF listening = i THEN 0 ELSE listening)
<1> DEFINE at == CHOOSE k \in DOMAIN panels : panels[k] = i
<1>0. panels \in Seq(Ids) /\ \A a, b \in DOMAIN panels : panels[a] = panels[b] => a = b
  BY DEF Dock, IsInjective
<1>1. /\ panels' = IF Contains(panels, i) THEN RemoveAt(panels, at) ELSE panels
      /\ panel' = [panel EXCEPT ![i] = NewPanel]
      /\ active' = IF active # i THEN active ELSE IF panels' = <<>> THEN 0 ELSE panels'[1]
      /\ listening' = IF listening = i THEN 0 ELSE listening
  BY DEF Release
<1>2. /\ panels' \in Seq(Ids) /\ IsInjective(panels')
      /\ \A k \in DOMAIN panels' : \E j \in DOMAIN panels : panels'[k] = panels[j]
      /\ \A j \in DOMAIN panels :
           panels[j] # i => \E k \in DOMAIN panels' : panels'[k] = panels[j]
  <2>1. CASE ~Contains(panels, i)
    BY <1>0, <1>1, <2>1 DEF IsInjective
  <2>2. CASE Contains(panels, i)
    <3>1. at \in DOMAIN panels /\ panels[at] = i
      BY <1>0, <2>2, ContainsIs
    <3> HIDE DEF at
    <3>2. /\ panels' \in Seq(Ids) /\ Len(panels) \in Nat \ {0}
          /\ DOMAIN panels = 1..Len(panels) /\ DOMAIN panels' = 1..(Len(panels) - 1)
          /\ \A j \in 1..(Len(panels) - 1) :
               panels'[j] = IF j < at THEN panels[j] ELSE panels[j + 1]
      BY <1>0, <1>1, <2>2, <3>1, RemoveIs
    <3>3. \A a, b \in DOMAIN panels' : panels'[a] = panels'[b] => a = b
      <4> TAKE a, b \in DOMAIN panels'
      <4> DEFINE from(k) == IF k < at THEN k ELSE k + 1
      <4>1. at \in Nat /\ a \in Nat /\ b \in Nat
        BY <3>1, <3>2
      <4>2. from(a) \in DOMAIN panels /\ from(b) \in DOMAIN panels
        BY <3>2, <4>1
      <4>3. panels'[a] = panels[from(a)] /\ panels'[b] = panels[from(b)]
        BY <3>2
      <4>4. from(a) = from(b) => a = b
        BY <4>1
      <4> HIDE DEF from
      <4> QED
        BY <1>0, <4>2, <4>3, <4>4
    <3>4. \A k \in DOMAIN panels' : \E j \in DOMAIN panels : panels'[k] = panels[j]
      <4> TAKE k \in DOMAIN panels'
      <4>1. k \in DOMAIN panels /\ k + 1 \in DOMAIN panels
        BY <3>2
      <4> QED
        BY <3>2, <4>1
    <3>5. ASSUME NEW j \in DOMAIN panels, panels[j] # i
          PROVE  \E k \in DOMAIN panels' : panels'[k] = panels[j]
      <4>1. CASE j < at
        <5>1. j \in DOMAIN panels' /\ panels'[j] = panels[j]
          BY <3>1, <3>2, <4>1
        <5> QED
          BY <5>1
      <4>2. CASE ~(j < at)
        <5>1. j # at
          BY <3>1, <3>5
        <5>2. j - 1 \in DOMAIN panels' /\ panels'[j - 1] = panels[j]
          BY <3>1, <3>2, <4>2, <5>1
        <5> QED
          BY <5>2
      <4> QED
        BY <4>1, <4>2
    <3> QED
      BY <3>2, <3>3, <3>4, <3>5 DEF IsInjective
  <2> QED
    BY <2>1, <2>2
<1>3. active' \in Identities /\ (active' # 0 => \E k \in DOMAIN panels' : panels'[k] = active')
  <2>1. CASE active # i
    <3>1. active' = active
      BY <1>1, <2>1
    <3>2. active \in Identities /\ (active # 0 => \E j \in DOMAIN panels : panels[j] = active)
      BY DEF Dock
    <3> QED
      BY <2>1, <3>1, <3>2, <1>2
  <2>2. CASE active = i /\ panels' = <<>>
    BY <1>1, <2>2 DEF Identities
  <2>3. CASE active = i /\ panels' # <<>>
    <3>1. active' = panels'[1] /\ 1 \in DOMAIN panels'
      BY <1>1, <1>2, <2>3
    <3>2. panels'[1] \in Ids
      BY <1>2, <3>1
    <3> QED
      BY <3>1, <3>2 DEF Identities
  <2> QED
    BY <2>1, <2>2, <2>3
<1> QED
  BY <1>1, <1>2, <1>3

-----------------------------------------------------------------------------
(* The dock.                                                                 *)

\* A click shows the shell there is, waits for the one that starts, or starts one.
LEMMA RevealIs ==
  ASSUME Dock, Reveal
  PROVE  \/ /\ UNCHANGED <<panels, panel, starting, commands, minted>>
            /\ \/ active' = active
               \/ active' = started /\ \E k \in DOMAIN panels : panels[k] = started
         \/ /\ Start /\ starting = 0
            /\ started = 0 \/ ~ \E k \in DOMAIN panels : panels[k] = started
<1>1. HasTerminal <=> started # 0 /\ \E k \in DOMAIN panels : panels[k] = started
  BY ContainsIs DEF Dock, HasTerminal
<1> QED
  BY <1>1 DEF Reveal

\* A start is of a new identity, with a panel of its own at the end.
LEMMA StartIs ==
  ASSUME Dock, Panels, TerminalsAssumption, Start
  PROVE  /\ minted' = minted + 1 /\ minted' \in Ids /\ minted \in Nat
         /\ starting' = minted' /\ active' = minted'
         /\ panels' \in Seq(Ids) /\ IsInjective(panels')
         /\ \E k \in DOMAIN panels' : panels'[k] = minted'
         /\ \A k \in DOMAIN panels' : panels'[k] <= minted'
         /\ \A j \in DOMAIN panels : \E k \in DOMAIN panels' : panels'[k] = panels[j]
         /\ panel' = [panel EXCEPT ![minted'] = NewPanel]
         /\ commands' = Append(commands, [do |-> "run", id |-> minted', n |-> 0])
<1>1. /\ minted < MaxShells /\ minted' = minted + 1 /\ starting' = minted' /\ active' = minted'
      /\ panels' = Append(panels, minted') /\ panel' = [panel EXCEPT ![minted'] = NewPanel]
      /\ commands' = Append(commands, [do |-> "run", id |-> minted', n |-> 0])
  BY DEF Start, Send
<1>2. minted \in Nat /\ minted' \in Ids
  BY <1>1 DEF Dock, Ids, TerminalsAssumption
<1>3. /\ panels \in Seq(Ids) /\ \A a, b \in DOMAIN panels : panels[a] = panels[b] => a = b
      /\ \A k \in DOMAIN panels : panels[k] <= minted /\ panels[k] \in Nat
  <2>1. /\ panels \in Seq(Ids) /\ IsInjective(panels)
        /\ \A k \in DOMAIN panels : panels[k] <= minted
    BY DEF Dock
  <2>2. \A i \in Ids : i \in Nat
    BY DEF Ids
  <2>3. \A k \in DOMAIN panels : panels[k] \in Ids
    BY <2>1
  <2> QED
    BY <2>1, <2>2, <2>3 DEF IsInjective
<1>4. /\ panels' \in Seq(Ids) /\ Len(panels) \in Nat /\ DOMAIN panels = 1..Len(panels)
      /\ DOMAIN panels' = 1..(Len(panels) + 1) /\ panels'[Len(panels) + 1] = minted'
      /\ \A k \in DOMAIN panels : panels'[k] = panels[k]
  BY <1>1, <1>2, <1>3, AppendIs
<1>5. \A k \in DOMAIN panels' : k \in DOMAIN panels \/ k = Len(panels) + 1
  BY <1>4
<1>6. Len(panels) + 1 \in DOMAIN panels' /\ \A k \in DOMAIN panels : k \in DOMAIN panels'
  BY <1>4
<1>7. \A k \in DOMAIN panels' : panels'[k] <= minted'
  BY <1>1, <1>2, <1>3, <1>4, <1>5
<1>8. \A k \in DOMAIN panels : panels'[k] # minted'
  BY <1>1, <1>2, <1>3, <1>4
<1>9. IsInjective(panels')
  BY <1>3, <1>4, <1>5, <1>8 DEF IsInjective
<1> QED
  BY <1>1, <1>2, <1>4, <1>6, <1>7, <1>9

LEMMA SameDock ==
  ASSUME Dock, UNCHANGED <<panels, active, starting, started, minted>>,
         UNCHANGED <<mounted, listening, mount, importing>>
  PROVE  Dock'
BY DEF Dock

LEMMA OtherDock ==
  ASSUME Dock,
         \/ ClickCloses \/ Key \/ Resize \/ Pass \/ DispatchRun \/ Marked \/ DispatchKey
         \/ DispatchSize \/ Forked \/ ForkedEnds \/ UNCHANGED vars
         \/ \E i \in Ids : Began(i) \/ Reported(i) \/ Shell(i) \/ ReaderEnds(i)
  PROVE  /\ Dock' /\ UNCHANGED <<panels, active, starting, started, minted, abandoned, delivered>>
         /\ UNCHANGED <<panel, mounted, listening, mount, importing>>
<1>1. /\ UNCHANGED <<panels, active, starting, started, minted, abandoned, delivered>>
      /\ UNCHANGED <<panel, mounted, listening, mount, importing>>
  BY DEF ClickCloses, Key, Resize, Pass, DispatchRun, Marked, DispatchKey, DispatchSize, Forked,
         ForkedEnds, Began, Reported, Shell, Reads, Prints, Exits, ReaderEnds, vars, view, effects,
         ghosts, engine, line
<1> QED
  BY <1>1, SameDock

LEMMA DockStays ==
  ASSUME Dock, Panels, Queues, Stream, TerminalsAssumption, [Next]_vars
  PROVE  Dock'
<1> USE DEF Identities
<1>1. CASE Click
  <2>1. /\ Reveal
        /\ UNCHANGED <<started, mounted, listening, mount, importing>>
    BY <1>1 DEF Click, effects
  <2>2. CASE Start
    <3>1. /\ minted' = minted + 1 /\ minted' \in Ids /\ minted \in Nat
          /\ starting' = minted' /\ active' = minted'
          /\ panels' \in Seq(Ids) /\ IsInjective(panels')
          /\ \E k \in DOMAIN panels' : panels'[k] = minted'
          /\ \A k \in DOMAIN panels' : panels'[k] <= minted'
      BY <2>2, StartIs
    <3>2. \A n : n \in Nat /\ n <= minted => n <= minted'
      BY <3>1
    <3>3. \A n : n \in Identities => n \in Nat
      BY DEF Ids
    <3>4. /\ mounted \in Identities /\ mounted <= minted' /\ listening \in {0, mounted}
          /\ started \in Identities
      BY <3>2, <3>3 DEF Dock
    <3>5. /\ importing \in Seq([id : Ids, mount : Nat]) /\ mount \in Nat
          /\ \A k \in DOMAIN importing : importing[k].id <= minted /\ importing[k].id \in Ids
      <4>1. /\ importing \in Seq([id : Ids, mount : Nat]) /\ mount \in Nat
            /\ \A k \in DOMAIN importing : importing[k].id <= minted
        BY DEF Dock
      <4>2. \A k \in DOMAIN importing : importing[k] \in [id : Ids, mount : Nat]
        BY <4>1, ElementIs
      <4> QED
        BY <4>1, <4>2
    <3>6. \A k \in DOMAIN importing : importing[k].id <= minted'
      BY <3>2, <3>3, <3>5
    <3>7. minted' \in 0..MaxShells
      BY <3>1 DEF Ids
    <3> QED
      BY <2>1, <3>1, <3>4, <3>5, <3>6, <3>7 DEF Dock
  <2>3. ASSUME UNCHANGED <<panels, panel, starting, commands, minted>>,
               \/ active' = active
               \/ active' = started /\ \E k \in DOMAIN panels : panels[k] = started
        PROVE  Dock'
    <3>1. active' \in Identities /\ (active' # 0 => \E k \in DOMAIN panels : panels[k] = active')
      BY <2>3 DEF Dock
    <3> QED
      BY <2>1, <2>3, <3>1 DEF Dock
  <2>4. \/ /\ UNCHANGED <<panels, panel, starting, commands, minted>>
           /\ \/ active' = active
              \/ active' = started /\ \E k \in DOMAIN panels : panels[k] = started
        \/ Start
    BY <2>1, RevealIs
  <2> QED
    BY <2>2, <2>3, <2>4
<1>2. CASE Answer
  <2>1. PICK a \in answers :
          IF a.id # starting
          THEN UNCHANGED <<panels, panel, active, started, starting, listening>>
          ELSE /\ starting' = 0
               /\ IF a.ok THEN started' = a.id /\ UNCHANGED <<panels, panel, active, listening>>
                          ELSE Release(a.id) /\ UNCHANGED started
    BY <1>2 DEF Answer
  <2>2. UNCHANGED <<mounted, mount, importing, minted>>
    BY <1>2 DEF Answer, ghosts
  <2>3. a.id \in Ids
    BY DEF Queues
  <2>4. CASE a.id # starting
    BY <2>1, <2>2, <2>4, SameDock
  <2>5. CASE a.id = starting /\ a.ok
    BY <2>1, <2>2, <2>3, <2>5 DEF Dock
  <2>6. CASE a.id = starting /\ ~a.ok
    <3>1. Release(a.id) /\ starting' = 0 /\ started' = started
      BY <2>1, <2>6
    <3>2. /\ panels' \in Seq(Ids) /\ IsInjective(panels')
          /\ \A k \in DOMAIN panels' : \E j \in DOMAIN panels : panels'[k] = panels[j]
          /\ active' \in Identities
          /\ active' # 0 => \E k \in DOMAIN panels' : panels'[k] = active'
          /\ listening' = (IF listening = a.id THEN 0 ELSE listening)
      BY <2>3, <3>1, ReleaseIs
    <3> QED
      BY <2>2, <3>1, <3>2 DEF Dock
  <2> QED
    BY <2>4, <2>5, <2>6
<1>3. CASE GivesUp
  <2>1. Release(starting) /\ starting \in Ids /\ starting' = 0 /\ started' = started
    BY <1>3 DEF GivesUp, Dock
  <2>2. UNCHANGED <<mounted, mount, importing, minted>>
    BY <1>3 DEF GivesUp
  <2>3. /\ panels' \in Seq(Ids) /\ IsInjective(panels')
        /\ \A k \in DOMAIN panels' : \E j \in DOMAIN panels : panels'[k] = panels[j]
        /\ active' \in Identities
        /\ active' # 0 => \E k \in DOMAIN panels' : panels'[k] = active'
        /\ listening' = (IF listening = starting THEN 0 ELSE listening)
    BY <2>1, ReleaseIs
  <2> QED
    BY <2>1, <2>2, <2>3 DEF Dock
<1>4. CASE Effect
  <2>1. /\ mounted' = Wanted /\ mount' = mount + 1
        /\ UNCHANGED <<panels, active, starting, started, minted>>
    BY <1>4 DEF Effect, view, ghosts
  <2>2. Wanted \in Identities /\ Wanted <= minted
    BY DEF Wanted, Dock, Ids
  <2>3. listening' \in {0, Wanted}
    BY <1>4 DEF Effect, Attached
  <2>4. \/ importing' = importing
        \/ importing' = Append(importing, [id |-> Wanted, mount |-> mount']) /\ Wanted # 0
    BY <1>4 DEF Effect, Attached
  <2>5. mount' \in Nat /\ mount \in Nat
    BY <2>1 DEF Dock
  <2>6. importing \in Seq([id : Ids, mount : Nat]) /\ \A k \in DOMAIN importing : importing[k].id <= minted
    BY DEF Dock
  <2>7. /\ importing' \in Seq([id : Ids, mount : Nat])
        /\ \A k \in DOMAIN importing' : importing'[k].id <= minted
    <3>1. CASE importing' = importing
      BY <2>6, <3>1
    <3>2. CASE Wanted # 0 /\ importing' = Append(importing, [id |-> Wanted, mount |-> mount'])
      <4> DEFINE call == [id |-> Wanted, mount |-> mount']
      <4>1. call \in [id : Ids, mount : Nat] /\ call.id <= minted
        BY <2>2, <2>5, <3>2
      <4> HIDE DEF call
      <4> QED
        BY <2>6, <3>2, <4>1, AppendIs DEF call
    <3> QED
      BY <2>4, <3>1, <3>2
  <2> QED
    BY <2>1, <2>2, <2>3, <2>5, <2>7 DEF Dock
<1>5. CASE Imported
  <2>1. /\ importing # <<>> /\ importing' = Tail(importing)
        /\ listening' \in {listening, mounted}
        /\ UNCHANGED <<panels, active, starting, started, minted, mounted, mount>>
    BY <1>5 DEF Imported, Attached, ghosts
  <2>2. importing \in Seq([id : Ids, mount : Nat]) /\ \A k \in DOMAIN importing : importing[k].id <= minted
    BY DEF Dock
  <2>3. /\ importing' \in Seq([id : Ids, mount : Nat])
        /\ \A k \in DOMAIN importing' : importing'[k].id <= minted
    BY <2>1, <2>2, TailIs
  <2> QED
    BY <2>1, <2>3 DEF Dock
<1>6. CASE Route
  <2> DEFINE e == Head(events)
  <2>1. /\ events # <<>> /\ panels' = WithPanel(e.id) /\ active' \in {active, e.id}
        /\ UNCHANGED <<starting, started, minted, mounted, listening, mount, importing>>
    BY <1>6 DEF Route, effects
  <2>2. e.id \in Ids /\ e.id <= minted
    <3>1. events \in Seq([id : Ids, chunk : Nat])
      BY DEF Queues
    <3>2. e \in [id : Ids, chunk : Nat] /\ e = events[1] /\ 1 \in DOMAIN events
      BY <2>1, <3>1, TailIs
    <3>3. \A k \in DOMAIN events : events[k].id <= minted
      BY DEF Stream
    <3> QED
      BY <3>2, <3>3
  <2> HIDE DEF e
  <2>3. /\ panels' \in Seq(Ids) /\ IsInjective(panels')
        /\ \E k \in DOMAIN panels' : panels'[k] = e.id
        /\ \A j \in DOMAIN panels : \E k \in DOMAIN panels' : panels'[k] = panels[j]
        /\ \A k \in DOMAIN panels' :
             panels'[k] = e.id \/ \E j \in DOMAIN panels : panels'[k] = panels[j]
    BY <2>1, <2>2, WithPanelIs
  <2>4. active' # 0 => \E k \in DOMAIN panels' : panels'[k] = active'
    <3>1. active # 0 => \E j \in DOMAIN panels : panels[j] = active
      BY DEF Dock
    <3> QED
      BY <2>1, <2>3, <3>1
  <2> QED
    BY <2>1, <2>2, <2>3, <2>4 DEF Dock
<1> QED
  BY <1>1, <1>2, <1>3, <1>4, <1>5, <1>6, OtherDock
     DEF Next, Person, Webview, Dispatch

-----------------------------------------------------------------------------
(* What the panels hold.                                                     *)

\* The next chunk goes behind, and what is kept of both is an end of them.
LEMMA NextChunk ==
  ASSUME NEW s \in Seq(Nat), NEW n \in Nat, UpTo(s, n), TerminalsAssumption
  PROVE  UpTo(Append(s, n + 1), n + 1) /\ UpTo(Kept(Append(s, n + 1)), n + 1)
<1> DEFINE t == Append(s, n + 1)
           u == Kept(t)
<1>1. n + 1 \in Nat
  OBVIOUS
<1>2. /\ t \in Seq(Nat) /\ Len(t) = Len(s) + 1 /\ Len(s) \in Nat /\ DOMAIN s = 1..Len(s)
      /\ t[Len(s) + 1] = n + 1 /\ \A k \in DOMAIN s : t[k] = s[k]
  BY <1>1, AppendIs
<1>3. u \in Seq(Nat) /\ u # <<>> /\ u[Len(u)] = n + 1
  BY <1>1, KeptIs
<1>4. PICK d \in Nat : Len(u) + d = Len(t) /\ \A k \in 1..Len(u) : u[k] = t[k + d]
  BY <1>1, KeptIs
<1> HIDE DEF t, u
<1>5. ASSUME NEW k \in 1..(Len(t) - 1) PROVE t[k + 1] = t[k] + 1
  <2>1. k \in DOMAIN s /\ s # <<>>
    BY <1>2
  <2>2. s[Len(s)] = n /\ \A j \in 1..(Len(s) - 1) : s[j + 1] = s[j] + 1
    BY <2>1 DEF UpTo
  <2>3. CASE k = Len(s)
    BY <1>2, <2>1, <2>2, <2>3
  <2>4. CASE k # Len(s)
    <3>1. k \in 1..(Len(s) - 1) /\ k + 1 \in DOMAIN s
      <4>1. Len(s) \in Nat /\ DOMAIN s = 1..Len(s)
        BY <1>2
      <4> QED
        BY <4>1, <2>1, <2>4
    <3> QED
      BY <1>2, <2>1, <2>2, <3>1
  <2> QED
    BY <2>3, <2>4
<1>6. UpTo(t, n + 1)
  BY <1>2, <1>5 DEF UpTo
<1>7. ASSUME NEW k \in 1..(Len(u) - 1) PROVE u[k + 1] = u[k] + 1
  <2>1. Len(u) \in Nat
    BY <1>3
  <2>2. /\ k \in 1..Len(u) /\ k + 1 \in 1..Len(u) /\ k + d \in 1..(Len(t) - 1)
        /\ k + 1 + d = k + d + 1
    BY <1>4, <2>1
  <2> QED
    BY <1>4, <1>5, <2>2
<1>8. UpTo(u, n + 1)
  BY <1>3, <1>7 DEF UpTo
<1> QED
  BY <1>6, <1>8 DEF t, u

LEMMA OnePanel ==
  ASSUME Panels, Newest, NEW i \in Ids, NEW p \in APanel, panel' = [panel EXCEPT ![i] = p],
         p.built => p.pending = <<>>, ~p.built => p.shown = <<>>,
         \A j \in Ids : j # i => delivered'[j] = delivered[j],
         UpTo(p.shown, delivered'[i]), UpTo(p.pending, delivered'[i])
  PROVE  Panels' /\ Newest'
<1>1. panel' \in [Ids -> APanel] /\ panel'[i] = p /\ \A j \in Ids : j # i => panel'[j] = panel[j]
  BY DEF Panels
<1> QED
  BY <1>1 DEF Panels, Newest

LEMMA SamePanels ==
  ASSUME Panels, Newest, UNCHANGED <<panel, delivered>>
  PROVE  Panels' /\ Newest'
BY DEF Panels, Newest

LEMMA PanelsStay ==
  ASSUME Dock, Panels, Queues, Stream, Newest, TerminalsAssumption, [Next]_vars
  PROVE  Panels' /\ Newest'
<1> DEFINE emptied(i) == panel' = [panel EXCEPT ![i] = NewPanel] /\ delivered' = delivered
<1>0. ASSUME NEW i \in Ids, emptied(i) PROVE Panels' /\ Newest'
  <2>1. NewPanel \in APanel /\ NewPanel.pending = <<>> /\ NewPanel.shown = <<>> /\ ~NewPanel.built
    BY DEF NewPanel, APanel
  <2>2. UpTo(<<>>, delivered'[i])
    BY DEF UpTo
  <2> QED
    BY <1>0, <2>1, <2>2, OnePanel
<1>1. CASE Click
  <2>1. Reveal /\ delivered' = delivered
    BY <1>1 DEF Click
  <2>2. CASE Start
    BY <1>0, <2>1, <2>2, StartIs
  <2>3. panel' = panel \/ Start
    BY <2>1, RevealIs
  <2> QED
    BY <2>1, <2>2, <2>3, SamePanels
<1>2. CASE Answer
  <2>1. PICK a \in answers : panel' = panel \/ Release(a.id)
    BY <1>2 DEF Answer
  <2>2. delivered' = delivered /\ a.id \in Ids
    BY <1>2 DEF Answer, ghosts, Queues
  <2>3. CASE Release(a.id)
    BY <2>2, <2>3, <1>0, ReleaseIs
  <2> QED
    BY <2>1, <2>2, <2>3, SamePanels
<1>3. CASE GivesUp
  <2>1. Release(starting) /\ starting \in Ids /\ delivered' = delivered
    BY <1>3 DEF GivesUp, Dock, Identities
  <2> QED
    BY <2>1, <1>0, ReleaseIs
<1>4. CASE Effect
  <2>1. UNCHANGED <<panel, delivered>>
    BY <1>4 DEF Effect, view, ghosts
  <2> QED
    BY <2>1, SamePanels
<1>5. CASE Imported
  <2> DEFINE i == Head(importing).id
  <2>1. importing # <<>> /\ delivered' = delivered
    BY <1>5 DEF Imported, ghosts
  <2>2. i \in Ids
    <3>1. Head(importing) \in [id : Ids, mount : Nat]
      BY <2>1, TailIs DEF Dock
    <3> QED
      BY <3>1
  <2>3. panel' = panel \/ panel' = [panel EXCEPT ![i] = Built(panel[i])]
    <3>1. panel' = IF Contains(panels, i) THEN [panel EXCEPT ![i] = Built(@)] ELSE panel
      BY <1>5 DEF Imported
    <3>2. CASE Contains(panels, i)
      BY <3>1, <3>2
    <3>3. CASE ~Contains(panels, i)
      BY <3>1, <3>3
    <3> QED
      BY <3>2, <3>3
  <2> HIDE DEF i
  <2>4. CASE panel' = panel
    BY <2>1, <2>4, SamePanels
  <2>5. CASE panel' = [panel EXCEPT ![i] = Built(panel[i])]
    <3>1. panel[i] \in APanel /\ 0 \in Nat
      BY <2>2 DEF Panels
    <3>2. /\ Built(panel[i]) \in APanel /\ Built(panel[i]).built
          /\ Built(panel[i]).pending = <<>> /\ Built(panel[i]).shown = panel[i].pending
      BY <3>1, APanelIs
    <3>3. UpTo(<<>>, delivered'[i]) /\ UpTo(panel[i].pending, delivered'[i])
      BY <2>1, <2>2 DEF UpTo, Newest
    <3> QED
      BY <2>1, <2>2, <2>5, <3>2, <3>3, OnePanel
  <2> QED
    BY <2>3, <2>4, <2>5
<1>6. CASE Route
  <2> DEFINE e == Head(events)
             p == PanelOf(e.id)
  <2>1. /\ events # <<>>
        /\ e.chunk = 0 => /\ panel' = [panel EXCEPT ![e.id] = [p EXCEPT !.ended = TRUE]]
                          /\ delivered' = delivered
        /\ e.chunk # 0 => /\ panel' = [panel EXCEPT ![e.id] = Written(p, e.chunk)]
                          /\ delivered' = [delivered EXCEPT ![e.id] = e.chunk]
    BY <1>6 DEF Route
  <2>2. e \in [id : Ids, chunk : Nat] /\ e = events[1] /\ 1 \in DOMAIN events
    BY <2>1, TailIs DEF Queues
  <2>3. e.id \in Ids /\ e.chunk \in Nat
    BY <2>2
  <2>4. e.chunk # 0 => e.chunk = delivered[e.id] + 1
    <3>1. DOMAIN events = 1..Len(events)
      BY DEF Queues
    <3>2. \A j \in DOMAIN events : ~(j < 1)
      BY <3>1
    <3>3. e.chunk # 0 => Follows(1)
      BY <2>2 DEF Stream
    <3> QED
      BY <2>2, <3>2, <3>3 DEF Follows
  <2>5. /\ p \in APanel /\ (p.built => p.pending = <<>>) /\ (~p.built => p.shown = <<>>)
        /\ UpTo(p.shown, delivered[e.id]) /\ UpTo(p.pending, delivered[e.id])
    <3>1. CASE Contains(panels, e.id)
      <4>1. p = panel[e.id]
        BY <3>1 DEF PanelOf
      <4> QED
        BY <4>1, <2>3 DEF Panels, Newest
    <3>2. CASE ~Contains(panels, e.id)
      <4>1. p = NewPanel
        BY <3>2 DEF PanelOf
      <4>2. NewPanel \in APanel /\ NewPanel.pending = <<>> /\ NewPanel.shown = <<>> /\ ~NewPanel.built
        BY DEF NewPanel, APanel
      <4> QED
        BY <4>1, <4>2 DEF UpTo
    <3> QED
      BY <3>1, <3>2
  <2> HIDE DEF e, p
  <2>6. delivered \in [Ids -> Nat] /\ p.pending \in Seq(Nat) /\ p.shown \in Seq(Nat)
    BY <2>5 DEF Stream, APanel
  <2>7. CASE e.chunk = 0
    <3> DEFINE q == [p EXCEPT !.ended = TRUE]
    <3>1. q \in APanel /\ q.built = p.built /\ q.shown = p.shown /\ q.pending = p.pending
      BY <2>5, <2>3, APanelIs
    <3> HIDE DEF q
    <3>2. panel' = [panel EXCEPT ![e.id] = q] /\ delivered' = delivered
      BY <2>1, <2>7 DEF q
    <3> QED
      BY <2>3, <2>5, <3>1, <3>2, OnePanel
  <2>8. CASE e.chunk # 0
    <3> DEFINE q == Written(p, e.chunk)
    <3>1. /\ q \in APanel /\ q.built = p.built
          /\ p.built => q.shown = Append(p.shown, e.chunk) /\ q.pending = p.pending
          /\ ~p.built => q.pending = Kept(Append(p.pending, e.chunk)) /\ q.shown = p.shown
      BY <2>5, <2>3, APanelIs
    <3> HIDE DEF q
    <3>2. panel' = [panel EXCEPT ![e.id] = q] /\ delivered' = [delivered EXCEPT ![e.id] = e.chunk]
      BY <2>1, <2>8 DEF q
    <3>3. delivered'[e.id] = e.chunk /\ \A j \in Ids : j # e.id => delivered'[j] = delivered[j]
      BY <2>3, <2>6, <3>2
    <3>4. e.chunk = delivered[e.id] + 1 /\ delivered[e.id] \in Nat
      BY <2>3, <2>4, <2>6, <2>8
    <3>5. CASE p.built
      <4>1. UpTo(Append(p.shown, e.chunk), e.chunk)
        BY <2>5, <2>6, <3>4, NextChunk
      <4>2. UpTo(<<>>, e.chunk)
        BY DEF UpTo
      <4> QED
        BY <2>3, <2>5, <3>1, <3>2, <3>3, <3>5, <4>1, <4>2, OnePanel
    <3>6. CASE ~p.built
      <4>1. UpTo(Kept(Append(p.pending, e.chunk)), e.chunk)
        BY <2>5, <2>6, <3>4, NextChunk
      <4>2. UpTo(<<>>, e.chunk)
        BY DEF UpTo
      <4> QED
        BY <2>3, <2>5, <3>1, <3>2, <3>3, <3>6, <4>1, <4>2, OnePanel
    <3> QED
      BY <3>5, <3>6
  <2> QED
    BY <2>7, <2>8
<1> QED
  BY <1>1, <1>2, <1>3, <1>4, <1>5, <1>6, OtherDock, SamePanels
     DEF Next, Person, Webview, Dispatch

-----------------------------------------------------------------------------
(* What is on its way, and the shells.                                       *)

LEMMA AFrame ==
  ASSUME NEW do \in {"run", "key", "size"}, NEW i \in Ids, NEW n \in Nat
  PROVE  [do |-> do, id |-> i, n |-> n] \in Frames
BY DEF Frames

\* What becomes of the frames: one is sent, one passes, one is dispatched.
Sends(do, i, n) ==
  /\ commands' = Append(commands, [do |-> do, id |-> i, n |-> n]) /\ wire' = wire
  /\ do \in {"run", "key", "size"} /\ i \in Ids /\ n \in Nat
Takes1 == /\ wire # <<>> /\ wire' = Tail(wire) /\ commands' = commands /\ spawning = Idle

LEMMA FramesStay ==
  ASSUME Queues,
         \/ UNCHANGED <<commands, wire>>
         \/ \E do, i, n : Sends(do, i, n)
         \/ Pass \/ Takes1
  PROVE  commands' \in Seq(Frames) /\ wire' \in Seq(Frames)
<1>1. commands \in Seq(Frames) /\ wire \in Seq(Frames)
  BY DEF Queues
<1>2. CASE UNCHANGED <<commands, wire>>
  BY <1>1, <1>2
<1>3. ASSUME NEW do, NEW i, NEW n, Sends(do, i, n)
      PROVE  commands' \in Seq(Frames) /\ wire' \in Seq(Frames)
  BY <1>1, <1>3, AFrame, AppendIs DEF Sends
<1>4. CASE Pass
  <2>1. PICK k \in DOMAIN commands :
          wire' = Append(wire, commands[k]) /\ commands' = RemoveAt(commands, k)
    BY <1>4 DEF Pass
  <2> QED
    BY <1>1, <2>1, ElementIs, AppendIs, RemoveIs
<1>5. CASE Takes1
  BY <1>1, <1>5, TailIs DEF Takes1
<1> QED
  BY <1>2, <1>3, <1>4, <1>5

\* What each action does to the frames.
LEMMA FramesOf ==
  ASSUME Dock, Panels, Queues, Shells, TerminalsAssumption, [Next]_vars
  PROVE  /\ Click => \/ Start /\ Sends("run", minted', 0)
                     \/ UNCHANGED <<commands, wire>>
         /\ Effect => \/ Sends("size", mounted', fitted') /\ listening' = mounted' /\ Wanted # 0
                      \/ UNCHANGED <<commands, wire>> /\ listening' = 0
         /\ Imported => \/ Sends("size", listening', fitted')
                        \/ UNCHANGED <<commands, wire, listening, fitted>>
         /\ Key => Sends("key", listening, steps')
         /\ DispatchRun \/ DispatchKey \/ DispatchSize => Takes1
         /\ ClickCloses \/ Resize \/ Answer \/ GivesUp \/ Route \/ Marked \/ Forked \/ ForkedEnds
              \/ UNCHANGED vars => UNCHANGED <<commands, wire>>
         /\ (\E i \in Ids : Began(i) \/ Reported(i) \/ Shell(i) \/ ReaderEnds(i))
              => UNCHANGED <<commands, wire>>
<1> USE DEF Sends
<1>0. /\ steps \in Nat /\ window \in Nat /\ Wanted \in Identities /\ 0 \in Nat
      /\ mounted \in Identities /\ listening \in {0, mounted}
  BY DEF Queues, Dock, Wanted, Identities
<1>1. ASSUME Click PROVE (Start /\ Sends("run", minted', 0)) \/ UNCHANGED <<commands, wire>>
  <2>1. Reveal /\ wire' = wire
    BY <1>1 DEF Click
  <2>2. CASE Start
    BY <1>0, <2>1, <2>2, StartIs
  <2>3. commands' = commands \/ Start
    BY <2>1, RevealIs
  <2> QED
    BY <2>1, <2>2, <2>3
<1>2. ASSUME Effect
      PROVE  \/ Sends("size", mounted', fitted') /\ listening' = mounted' /\ Wanted # 0
             \/ UNCHANGED <<commands, wire>> /\ listening' = 0
  <2>1. mounted' = Wanted /\ wire' = wire
    BY <1>2 DEF Effect
  <2>2. CASE Wanted = 0
    BY <1>2, <2>1, <2>2 DEF Effect
  <2>3. CASE Wanted # 0 /\ panel[Wanted].built
    BY <1>0, <1>2, <2>1, <2>3 DEF Effect, Attached, Send, Fitted, Identities
  <2>4. CASE Wanted # 0 /\ ~panel[Wanted].built
    BY <1>2, <2>1, <2>4 DEF Effect
  <2> QED
    BY <2>2, <2>3, <2>4
<1>3. ASSUME Imported
      PROVE  \/ Sends("size", listening', fitted')
             \/ UNCHANGED <<commands, wire, listening, fitted>>
  <2> DEFINE call == Head(importing)
  <2>1. importing # <<>> /\ wire' = wire
    BY <1>3 DEF Imported
  <2>2. call \in [id : Ids, mount : Nat]
    BY <2>1, TailIs DEF Dock
  <2>3. call.id \in Ids
    BY <2>2
  <2>4. Attached(call.id) \/ UNCHANGED <<listening, fitted, commands>>
    BY <1>3 DEF Imported
  <2> HIDE DEF call
  <2>5. CASE Attached(call.id)
    BY <1>0, <2>1, <2>3, <2>5 DEF Attached, Send, Fitted
  <2> QED
    BY <2>1, <2>4, <2>5
<1>4. ASSUME Key PROVE Sends("key", listening, steps')
  BY <1>0, <1>4 DEF Key, Send, Step, Identities
<1>5. ASSUME DispatchRun \/ DispatchKey \/ DispatchSize PROVE Takes1
  BY <1>5 DEF DispatchRun, DispatchKey, DispatchSize, NextFrame, Takes1
<1>6. ASSUME \/ ClickCloses \/ Resize \/ Answer \/ GivesUp \/ Route \/ Marked \/ Forked \/ ForkedEnds
             \/ UNCHANGED vars
      PROVE  UNCHANGED <<commands, wire>>
  BY <1>6 DEF ClickCloses, Resize, Answer, GivesUp, Route, Marked, Forked, ForkedEnds, vars, line
<1>7. ASSUME NEW i \in Ids, Began(i) \/ Reported(i) \/ Shell(i) \/ ReaderEnds(i)
      PROVE  UNCHANGED <<commands, wire>>
  BY <1>7 DEF Began, Reported, Shell, Reads, Prints, Exits, ReaderEnds, line
<1> QED
  <2> HIDE DEF Sends
  <2> QED
    BY <1>1, <1>2, <1>3, <1>4, <1>5, <1>6, <1>7

\* What each action does to the notifications: one is told, or one is routed.
Tells(i, chunk) == events' = Append(events, [id |-> i, chunk |-> chunk])

LEMMA EventsOf ==
  ASSUME [Next]_vars
  PROVE  \/ UNCHANGED <<events, printed, delivered>>
         \/ Route /\ events # <<>> /\ events' = Tail(events) /\ printed' = printed
         \/ \E i \in Ids : /\ Tells(i, 0) /\ task[i] = "exited"
                          /\ UNCHANGED <<printed, delivered, minted>>
         \/ \E i \in Ids : /\ Tells(i, printed'[i]) /\ task[i] = "running"
                          /\ printed' = [printed EXCEPT ![i] = @ + 1]
                          /\ UNCHANGED <<delivered, minted>>
<1>1. ASSUME \/ Person \/ Effect \/ Imported \/ Answer \/ GivesUp \/ Pass \/ Dispatch \/ Forked
             \/ ForkedEnds \/ UNCHANGED vars
      PROVE  UNCHANGED <<events, printed, delivered>>
  BY <1>1 DEF Person, Click, ClickCloses, Key, Resize, Effect, Imported, Answer, GivesUp, Pass,
              Dispatch, DispatchRun, Marked, DispatchKey, DispatchSize, Began, Reported, Forked,
              ForkedEnds, vars, line, ghosts
<1>2. CASE Route
  BY <1>2 DEF Route
<1>3. ASSUME NEW i \in Ids, Reads(i) \/ Exits(i)
      PROVE  UNCHANGED <<events, printed, delivered>>
  BY <1>3 DEF Reads, Exits, line, ghosts
<1>4. ASSUME NEW i \in Ids, Prints(i)
      PROVE  /\ Tells(i, printed'[i]) /\ task[i] = "running"
             /\ printed' = [printed EXCEPT ![i] = @ + 1] /\ UNCHANGED <<delivered, minted>>
  BY <1>4 DEF Prints, Tells
<1>5. ASSUME NEW i \in Ids, ReaderEnds(i)
      PROVE  Tells(i, 0) /\ task[i] = "exited" /\ UNCHANGED <<printed, delivered, minted>>
  BY <1>5 DEF ReaderEnds, Tells, ghosts
<1> QED
  BY <1>1, <1>2, <1>3, <1>4, <1>5 DEF Next, Webview, Shell

LEMMA AnEvent ==
  ASSUME Queues, NEW i \in Ids, NEW chunk \in Nat, Tells(i, chunk)
  PROVE  /\ events' \in Seq([id : Ids, chunk : Nat]) /\ Len(events) \in Nat
         /\ DOMAIN events = 1..Len(events) /\ DOMAIN events' = 1..(Len(events) + 1)
         /\ \A k \in DOMAIN events : events'[k] = events[k]
         /\ events'[Len(events) + 1].id = i /\ events'[Len(events) + 1].chunk = chunk
<1> DEFINE e == [id |-> i, chunk |-> chunk]
<1>1. e \in [id : Ids, chunk : Nat] /\ e.id = i /\ e.chunk = chunk
  OBVIOUS
<1>2. events \in Seq([id : Ids, chunk : Nat]) /\ events' = Append(events, e)
  BY DEF Queues, Tells
<1> HIDE DEF e
<1> QED
  BY <1>1, <1>2, AppendIs

LEMMA QueuesStay ==
  ASSUME Dock, Panels, Queues, Shells, Stream, TerminalsAssumption, [Next]_vars
  PROVE  Queues'
<1>1. commands' \in Seq(Frames) /\ wire' \in Seq(Frames)
  <2>1. \/ UNCHANGED <<commands, wire>> \/ (\E do, i, n : Sends(do, i, n)) \/ Pass \/ Takes1
    BY FramesOf DEF Next, Person, Webview, Dispatch
  <2> QED
    BY <2>1, FramesStay
<1>2. /\ events \in Seq([id : Ids, chunk : Nat]) /\ answers \subseteq [id : Ids, ok : BOOLEAN]
      /\ steps \in Nat /\ window \in Nat /\ fitted \in Nat /\ wire \in Seq(Frames)
  BY DEF Queues
<1>3. events' \in Seq([id : Ids, chunk : Nat])
  <2>1. CASE events' = events
    BY <1>2, <2>1
  <2>2. CASE events # <<>> /\ events' = Tail(events)
    BY <1>2, <2>2, TailIs
  <2>3. ASSUME NEW i \in Ids, Tells(i, 0)
        PROVE  events' \in Seq([id : Ids, chunk : Nat])
    BY <2>3, AnEvent
  <2>4. ASSUME NEW i \in Ids, Tells(i, printed'[i]), printed' = [printed EXCEPT ![i] = @ + 1]
        PROVE  events' \in Seq([id : Ids, chunk : Nat])
    <3>1. printed'[i] \in Nat
      BY <2>4 DEF Stream
    <3> QED
      BY <2>4, <3>1, AnEvent
  <2> QED
    BY <2>1, <2>2, <2>3, <2>4, EventsOf
<1>4. answers' \subseteq [id : Ids, ok : BOOLEAN]
  <2>1. ASSUME NEW i \in Ids, NEW ok \in BOOLEAN, Answered(i, ok)
        PROVE  answers' \subseteq [id : Ids, ok : BOOLEAN]
    BY <1>2, <2>1 DEF Answered
  <2>2. ASSUME DispatchRun PROVE answers' \subseteq [id : Ids, ok : BOOLEAN]
    <3>1. wire # <<>>
      BY <2>2 DEF DispatchRun, NextFrame
    <3>2. Head(wire).id \in Ids
      <4>1. Head(wire) \in Frames
        BY <1>2, <3>1, TailIs
      <4> QED
        BY <4>1 DEF Frames
    <3>3. Answered(Head(wire).id, FALSE) \/ answers' = answers
      BY <2>2 DEF DispatchRun
    <3> QED
      BY <1>2, <2>1, <3>2, <3>3
  <2>3. ASSUME NEW i \in Ids, Began(i) \/ Reported(i)
        PROVE  answers' \subseteq [id : Ids, ok : BOOLEAN]
    <3>1. Answered(i, TRUE) \/ Answered(i, FALSE)
      BY <2>3 DEF Began, Reported
    <3> QED
      BY <2>1, <3>1
  <2>4. ASSUME Answer PROVE answers' \subseteq [id : Ids, ok : BOOLEAN]
    BY <1>2, <2>4 DEF Answer
  <2>5. ASSUME \/ Person \/ Effect \/ Imported \/ Route \/ GivesUp \/ Pass \/ Marked \/ DispatchKey
               \/ DispatchSize \/ Forked \/ ForkedEnds \/ UNCHANGED vars
        PROVE  answers' = answers
    BY <2>5 DEF Person, Click, ClickCloses, Key, Resize, Effect, Imported, Route, GivesUp, Pass,
                Marked, DispatchKey, DispatchSize, Forked, ForkedEnds, vars, line
  <2>6. ASSUME NEW i \in Ids, Shell(i) \/ ReaderEnds(i) PROVE answers' = answers
    BY <2>6 DEF Shell, Reads, Prints, Exits, ReaderEnds, line
  <2> QED
    BY <1>2, <2>2, <2>3, <2>4, <2>5, <2>6 DEF Next, Webview, Dispatch
<1>5. steps' \in Nat /\ window' \in Nat /\ fitted' \in Nat
  <2>1. steps' = steps \/ steps' = steps + 1
    BY DEF Next, Person, Webview, Dispatch, Shell, Click, ClickCloses, Key, Resize, Effect, Imported,
           Answer, Route, GivesUp, Pass, DispatchRun, Marked, DispatchKey, DispatchSize, Began,
           Reported, Forked, ForkedEnds, Reads, Prints, Exits, ReaderEnds, vars, Step
  <2>2. window' = window \/ window' = steps'
    BY DEF Next, Person, Webview, Dispatch, Shell, Click, ClickCloses, Key, Resize, Effect, Imported,
           Answer, Route, GivesUp, Pass, DispatchRun, Marked, DispatchKey, DispatchSize, Began,
           Reported, Forked, ForkedEnds, Reads, Prints, Exits, ReaderEnds, vars
  <2>3. fitted' = fitted \/ fitted' = window
    BY DEF Next, Person, Webview, Dispatch, Shell, Click, ClickCloses, Key, Resize, Effect, Imported,
           Attached, Answer, Route, GivesUp, Pass, DispatchRun, Marked, DispatchKey, DispatchSize,
           Began, Reported, Forked, ForkedEnds, Reads, Prints, Exits, ReaderEnds, vars, effects
  <2> QED
    BY <1>2, <2>1, <2>2, <2>3
<1> QED
  BY <1>1, <1>3, <1>4, <1>5 DEF Queues

LEMMA ShellsStay ==
  ASSUME Dock, Panels, Queues, Shells, TerminalsAssumption, [Next]_vars
  PROVE  Shells'
<1>0. /\ spawning \in [id : Identities, at : {"idle", "marking", "forked"}]
      /\ spawning.at = "idle" <=> spawning.id = 0
      /\ task \in [Ids -> {"none", "running", "exited", "released"}]
      /\ input \in [Ids -> Seq(Nat)] /\ got \in [Ids -> Seq(Nat)] /\ size \in [Ids -> Nat]
      /\ \A i \in Ids : Len(input[i]) <= Room
      /\ held \subseteq Ids /\ abandoned \subseteq Ids
      /\ wire \in Seq(Frames) /\ Room \in Nat /\ 0 \notin Ids
  <2>1. wire \in Seq(Frames) /\ Room \in Nat /\ 0 \notin Ids
    BY DEF Queues, TerminalsAssumption, Ids
  <2> QED
    BY <2>1 DEF Shells
<1>1. ASSUME \/ Person \/ Webview \/ Pass \/ UNCHANGED vars PROVE Shells'
  <2>1. UNCHANGED <<spawning, task, input, got, size, held, abandoned>>
    BY <1>1 DEF Person, Webview, Click, ClickCloses, Key, Resize, Effect, Imported, Answer, Route,
                Pass, vars, engine, ghosts
  <2> QED
    BY <2>1 DEF Shells
<1>2. ASSUME GivesUp PROVE Shells'
  <2>1. UNCHANGED engine /\ abandoned' = abandoned \cup {starting} /\ starting \in Ids
    BY <1>2 DEF GivesUp, Dock, Identities
  <2> QED
    BY <2>1 DEF Shells, engine
<1>3. ASSUME Takes1 PROVE Head(wire).id \in Ids /\ Head(wire).n \in Nat
  <2>1. Head(wire) \in Frames
    BY <1>0, <1>3, TailIs DEF Takes1
  <2> QED
    BY <2>1 DEF Frames
<1>4. ASSUME DispatchRun PROVE Shells'
  <2>1. Head(wire).id \in Ids
    BY <1>3, <1>4, FramesOf
  <2>2. /\ spawning' = spawning \/ spawning' = [id |-> Head(wire).id, at |-> "marking"]
        /\ UNCHANGED <<task, input, got, size, held, abandoned>>
    BY <1>4 DEF DispatchRun, ghosts
  <2>3. CASE spawning' = spawning
    BY <2>2, <2>3 DEF Shells
  <2>4. CASE spawning' = [id |-> Head(wire).id, at |-> "marking"]
    <3>1. /\ spawning' \in [id : Identities, at : {"idle", "marking", "forked"}]
          /\ spawning'.at = "idle" <=> spawning'.id = 0
      BY <1>0, <2>1, <2>4 DEF Identities
    <3> QED
      BY <1>0, <2>2, <3>1 DEF Shells
  <2> QED
    BY <2>2, <2>3, <2>4
<1>5. ASSUME Forked \/ ForkedEnds PROVE Shells'
  <2>1. UNCHANGED <<spawning, task, input, got, size, abandoned>>
    BY <1>5 DEF Forked, ForkedEnds, ghosts
  <2>2. held' \subseteq Ids
    <3>1. CASE Forked
      <4>1. spawning.id \in Ids /\ held' = held \cup {spawning.id}
        BY <1>0, <3>1 DEF Forked, Identities
      <4> QED
        BY <1>0, <4>1
    <3>2. CASE ForkedEnds
      BY <3>2 DEF ForkedEnds
    <3> QED
      BY <1>5, <3>1, <3>2
  <2> QED
    BY <1>0, <2>1, <2>2 DEF Shells
<1>6. ASSUME Marked PROVE Shells'
  <2>1. /\ spawning.at = "marking" /\ spawning' = [spawning EXCEPT !.at = "forked"]
        /\ UNCHANGED <<task, input, got, size, held, abandoned>>
    BY <1>6 DEF Marked, ghosts
  <2>2. /\ spawning' \in [id : Identities, at : {"idle", "marking", "forked"}]
        /\ spawning'.at = "idle" <=> spawning'.id = 0
    BY <1>0, <2>1
  <2> QED
    BY <1>0, <2>1, <2>2 DEF Shells
<1>7. ASSUME DispatchKey PROVE Shells'
  <2> DEFINE i == Head(wire).id
             n == Head(wire).n
  <2>1. i \in Ids /\ n \in Nat
    BY <1>3, <1>7, FramesOf
  <2>2. /\ \/ Len(input[i]) < Room /\ input' = [input EXCEPT ![i] = Append(@, n)]
           \/ input' = input
        /\ UNCHANGED <<spawning, task, got, size, held, abandoned>>
    BY <1>7 DEF DispatchKey, Takes, ghosts
  <2> HIDE DEF i, n
  <2>3. input' \in [Ids -> Seq(Nat)] /\ \A j \in Ids : Len(input'[j]) <= Room
    <3>1. CASE input' = input
      BY <1>0, <3>1
    <3>2. CASE Len(input[i]) < Room /\ input' = [input EXCEPT ![i] = Append(@, n)]
      <4>1. input[i] \in Seq(Nat)
        BY <1>0, <2>1
      <4>2. Append(input[i], n) \in Seq(Nat) /\ Len(Append(input[i], n)) <= Room
        BY <1>0, <2>1, <3>2, <4>1
      <4> QED
        BY <1>0, <2>1, <3>2, <4>2
    <3> QED
      BY <2>2, <3>1, <3>2
  <2> QED
    BY <1>0, <2>2, <2>3 DEF Shells
<1>8. ASSUME DispatchSize PROVE Shells'
  <2>1. Head(wire).id \in Ids /\ Head(wire).n \in Nat
    BY <1>3, <1>8, FramesOf
  <2>2. /\ size' = size \/ size' = [size EXCEPT ![Head(wire).id] = Head(wire).n]
        /\ UNCHANGED <<spawning, task, input, got, held, abandoned>>
    BY <1>8 DEF DispatchSize, Resizes, ghosts
  <2>3. size' \in [Ids -> Nat]
    BY <1>0, <2>1, <2>2
  <2> QED
    BY <1>0, <2>2, <2>3 DEF Shells
<1>9. ASSUME NEW i \in Ids, Began(i) \/ Reported(i) PROVE Shells'
  <2>1. /\ spawning' = Idle /\ UNCHANGED <<input, got, size, held, abandoned>>
        /\ task' = task \/ task' = [task EXCEPT ![i] = "running"]
    BY <1>9 DEF Began, Reported, ghosts
  <2>2. /\ spawning' \in [id : Identities, at : {"idle", "marking", "forked"}]
        /\ spawning'.at = "idle" <=> spawning'.id = 0
    BY <2>1 DEF Idle, Identities
  <2>3. task' \in [Ids -> {"none", "running", "exited", "released"}]
    BY <1>0, <2>1
  <2> QED
    BY <1>0, <2>1, <2>2, <2>3 DEF Shells
<1>10. ASSUME NEW i \in Ids, Reads(i) PROVE Shells'
  <2>1. /\ input[i] # <<>> /\ got' = [got EXCEPT ![i] = Append(@, Head(input[i]))]
        /\ input' = [input EXCEPT ![i] = Tail(@)]
        /\ UNCHANGED <<spawning, task, size, held, abandoned>>
    BY <1>10 DEF Reads, ghosts
  <2>2. /\ input[i] \in Seq(Nat) /\ got[i] \in Seq(Nat) /\ Len(input[i]) <= Room
    BY <1>0
  <2>3. /\ Tail(input[i]) \in Seq(Nat) /\ Len(Tail(input[i])) <= Room
        /\ Append(got[i], Head(input[i])) \in Seq(Nat)
    BY <1>0, <2>1, <2>2
  <2>4. /\ input' \in [Ids -> Seq(Nat)] /\ \A j \in Ids : Len(input'[j]) <= Room
        /\ got' \in [Ids -> Seq(Nat)]
    BY <1>0, <2>1, <2>3
  <2> QED
    BY <1>0, <2>1, <2>4 DEF Shells
<1>11. ASSUME NEW i \in Ids, Prints(i) \/ Exits(i) \/ ReaderEnds(i) PROVE Shells'
  <2>1. /\ UNCHANGED <<spawning, input, got, size, held, abandoned>>
        /\ \/ task' = task \/ task' = [task EXCEPT ![i] = "exited"]
           \/ task' = [task EXCEPT ![i] = "released"]
    BY <1>11 DEF Prints, Exits, ReaderEnds, ghosts, engine
  <2>2. task' \in [Ids -> {"none", "running", "exited", "released"}]
    BY <1>0, <2>1
  <2> QED
    BY <1>0, <2>1, <2>2 DEF Shells
<1> QED
  BY <1>1, <1>2, <1>4, <1>5, <1>6, <1>7, <1>8, <1>9, <1>10, <1>11 DEF Next, Dispatch, Shell

-----------------------------------------------------------------------------
(* Output on its way.                                                        *)

\* Identities are only handed out.
LEMMA MintedGrows ==
  ASSUME Dock, Panels, TerminalsAssumption, [Next]_vars
  PROVE  minted \in Nat /\ minted' \in Nat /\ minted <= minted'
<1>1. minted \in Nat
  BY DEF Dock
<1>2. Click => minted' = minted \/ minted' = minted + 1
  <2> SUFFICES ASSUME Click PROVE minted' = minted \/ minted' = minted + 1
    OBVIOUS
  <2>1. Reveal
    BY DEF Click
  <2> QED
    BY <2>1, RevealIs, StartIs
<1>3. ~Click => minted' = minted
  BY DEF Next, Person, Webview, Dispatch, Shell, ClickCloses, Key, Resize, Effect, Imported,
         Answer, Route, GivesUp, Pass, DispatchRun, Marked, DispatchKey, DispatchSize, Began,
         Reported, Forked, ForkedEnds, Reads, Prints, Exits, ReaderEnds, vars, ghosts
<1> QED
  BY <1>1, <1>2, <1>3

LEMMA StreamStays ==
  ASSUME Dock, Panels, Queues, Shells, Born, Stream, TerminalsAssumption, [Next]_vars
  PROVE  Stream'
<1> DEFINE Event == [id : Ids, chunk : Nat]
           n == Len(events)
<1>0. /\ events \in Seq(Event) /\ n \in Nat /\ DOMAIN events = 1..n
      /\ printed \in [Ids -> Nat] /\ delivered \in [Ids -> Nat]
      /\ \A k \in DOMAIN events : events[k].id \in Ids /\ events[k].chunk \in Nat
  <2>1. events \in Seq(Event) /\ printed \in [Ids -> Nat] /\ delivered \in [Ids -> Nat]
    BY DEF Queues, Stream
  <2>2. \A k \in DOMAIN events : events[k] \in Event
    BY <2>1, ElementIs
  <2> QED
    BY <2>1, <2>2
<1>1. minted \in Nat /\ minted' \in Nat /\ minted <= minted' /\ \A i \in Ids : i \in Nat
  BY MintedGrows DEF Ids
<1>a. \A k \in DOMAIN events : events[k].id <= minted'
  <2>1. \A k \in DOMAIN events : events[k].id <= minted
    BY DEF Stream
  <2>2. \A k \in DOMAIN events : events[k].id \in Nat
    BY <1>0, <1>1
  <2>3. \A m \in Nat : m <= minted => m <= minted'
    BY <1>1
  <2> QED
    BY <2>1, <2>2, <2>3
<1>b. ASSUME NEW k \in DOMAIN events, events[k].chunk # 0
      PROVE  /\ delivered[events[k].id] < events[k].chunk /\ events[k].chunk <= printed[events[k].id]
             /\ \/ events[k].chunk = delivered[events[k].id] + 1
                \/ \E j \in DOMAIN events : /\ j < k /\ events[j].id = events[k].id
                                             /\ events[j].chunk = events[k].chunk - 1
             /\ \A j \in DOMAIN events :
                  j < k /\ events[j].id = events[k].id => events[j].chunk < events[k].chunk
  <2>1. Follows(k)
    BY <1>b DEF Stream
  <2> QED
    BY <2>1 DEF Follows
<1>c. ASSUME NEW i \in Ids
      PROVE  /\ delivered[i] <= printed[i]
             /\ \/ printed[i] = delivered[i]
                \/ \E k \in DOMAIN events : events[k].id = i /\ events[k].chunk = printed[i]
  BY DEF Stream, Reaches
<1>2. CASE UNCHANGED <<events, printed, delivered>>
  <2>1. /\ \A k \in DOMAIN events : events[k].chunk # 0 => Follows(k)'
        /\ \A i \in Ids : delivered[i] <= printed[i] /\ Reaches(i)'
    BY <1>2 DEF Stream, Follows, Reaches
  <2> QED
    BY <1>2, <1>a, <2>1 DEF Stream
<1>3. CASE Route /\ events # <<>> /\ events' = Tail(events) /\ printed' = printed
  <2> DEFINE e == events[1]
  <2>1. /\ Head(events) = e /\ 1 \in DOMAIN events /\ n \in Nat \ {0}
        /\ DOMAIN events' = 1..(n - 1)
        /\ \A k \in DOMAIN events' : events'[k] = events[k + 1] /\ k + 1 \in DOMAIN events
    BY <1>0, <1>3, TailIs
  <2>2. /\ e.chunk = 0 => delivered' = delivered
        /\ e.chunk # 0 => delivered' = [delivered EXCEPT ![e.id] = e.chunk]
    BY <1>3, <2>1 DEF Route
  <2>3. e.id \in Ids /\ e.chunk \in Nat /\ delivered' \in [Ids -> Nat]
    BY <1>0, <2>1, <2>2
  <2>4. ASSUME NEW j \in DOMAIN events
        PROVE  /\ ~(j < 1) /\ j \in Nat
               /\ j # 1 => j - 1 \in DOMAIN events' /\ events'[j - 1] = events[j]
    <3>1. j \in 1..n
      BY <1>0
    <3>2. j # 1 => j - 1 \in 1..(n - 1) /\ (j - 1) + 1 = j
      BY <1>0, <3>1
    <3> QED
      BY <2>1, <3>1, <3>2
  <2>5. e.chunk # 0 => e.chunk = delivered[e.id] + 1 /\ e.chunk <= printed[e.id]
    BY <1>b, <2>1, <2>4
  <2> HIDE DEF e
  <2>6. ASSUME NEW k \in DOMAIN events', events'[k].chunk # 0
        PROVE  /\ delivered'[events'[k].id] < events'[k].chunk
               /\ events'[k].chunk <= printed[events'[k].id]
               /\ \/ events'[k].chunk = delivered'[events'[k].id] + 1
                  \/ \E j \in DOMAIN events' : /\ j < k /\ events'[j].id = events'[k].id
                                                /\ events'[j].chunk = events'[k].chunk - 1
               /\ \A j \in DOMAIN events' :
                    j < k /\ events'[j].id = events'[k].id => events'[j].chunk < events'[k].chunk
    <3> DEFINE f == events'[k]
               i == f.id
    <3>0. k + 1 \in DOMAIN events /\ f = events[k + 1] /\ k \in Nat \ {0}
      <4>1. k \in 1..(n - 1)
        BY <2>1
      <4>2. k \in Nat \ {0}
        BY <4>1, <2>1
      <4> QED
        BY <2>1, <4>2
    <3>1. /\ k + 1 \in DOMAIN events /\ f = events[k + 1] /\ k \in Nat \ {0} /\ 1 < k + 1
          /\ f.chunk \in Nat /\ i \in Ids
      BY <1>0, <3>0
    <3>2. /\ delivered[i] < f.chunk /\ f.chunk <= printed[i]
          /\ \/ f.chunk = delivered[i] + 1
             \/ \E j \in DOMAIN events : /\ j < k + 1 /\ events[j].id = i
                                          /\ events[j].chunk = f.chunk - 1
          /\ \A j \in DOMAIN events :
               j < k + 1 /\ events[j].id = i => events[j].chunk < f.chunk
      BY <1>b, <2>6, <3>1
    <3> HIDE DEF f, i
    <3>3. \A j \in DOMAIN events' : j < k /\ events'[j].id = i => events'[j].chunk < f.chunk
      <4> TAKE j \in DOMAIN events'
      <4>1. j + 1 \in DOMAIN events /\ events'[j] = events[j + 1] /\ j \in Nat
        BY <2>1
      <4>2. j < k => j + 1 < k + 1
        BY <3>1, <4>1
      <4> QED
        BY <3>2, <4>1, <4>2
    <3>4. e.id = i => e.chunk < f.chunk
      BY <2>1, <3>1, <3>2 DEF e
    <3>5. CASE e.id = i /\ e.chunk # 0
      <4>1. delivered'[i] = e.chunk /\ e.chunk = delivered[i] + 1 /\ delivered[i] \in Nat
        BY <1>0, <2>2, <2>3, <2>5, <3>1, <3>5
      <4>2. f.chunk # delivered[i] + 1
        BY <2>3, <3>1, <3>4, <3>5, <4>1
      <4>3. PICK j \in DOMAIN events : j < k + 1 /\ events[j].id = i /\ events[j].chunk = f.chunk - 1
        BY <3>2, <4>2
      <4>4. CASE j = 1
        <5>1. e.chunk = f.chunk - 1
          BY <4>3, <4>4 DEF e
        <5>2. f.chunk = delivered'[i] + 1 /\ delivered'[i] < f.chunk
          BY <2>3, <3>1, <4>1, <5>1
        <5> QED
          BY <3>2, <3>3, <5>2 DEF f, i
      <4>5. CASE j # 1
        <5>1. j - 1 \in DOMAIN events' /\ j - 1 < k /\ events'[j - 1] = events[j]
          BY <2>4, <3>1, <4>3, <4>5
        <5>2. delivered'[i] < f.chunk
          BY <3>4, <3>5, <4>1
        <5> QED
          BY <3>2, <3>3, <4>3, <5>1, <5>2 DEF f, i
      <4> QED
        BY <4>4, <4>5
    <3>6. CASE ~(e.id = i /\ e.chunk # 0)
      <4>1. delivered'[i] = delivered[i]
        BY <1>0, <2>2, <2>3, <3>1, <3>6
      <4>2. CASE f.chunk = delivered[i] + 1
        BY <3>2, <3>3, <4>1, <4>2 DEF f, i
      <4>3. CASE f.chunk # delivered[i] + 1
        <5>1. PICK j \in DOMAIN events : j < k + 1 /\ events[j].id = i /\ events[j].chunk = f.chunk - 1
          BY <3>2, <4>3
        <5>2. j # 1
          <6> SUFFICES ASSUME j = 1 PROVE FALSE
            OBVIOUS
          <6>1. e.id = i /\ e.chunk = f.chunk - 1
            BY <5>1 DEF e
          <6>2. delivered[i] \in Nat /\ f.chunk = 1
            BY <1>0, <2>3, <3>1, <3>6, <6>1
          <6> QED
            BY <3>2, <4>3, <6>2
        <5>3. j - 1 \in DOMAIN events' /\ j - 1 < k /\ events'[j - 1] = events[j]
          BY <2>4, <3>1, <5>1, <5>2
        <5> QED
          BY <3>2, <3>3, <4>1, <5>1, <5>3 DEF f, i
      <4> QED
        BY <4>2, <4>3
    <3> QED
      BY <3>5, <3>6
  <2>7. ASSUME NEW i \in Ids
        PROVE  \/ printed[i] = delivered'[i]
               \/ \E k \in DOMAIN events' : events'[k].id = i /\ events'[k].chunk = printed[i]
    <3>1. CASE printed[i] = delivered[i]
      <4>1. delivered'[i] = delivered[i]
        <5>1. CASE e.id = i /\ e.chunk # 0
          <6>1. delivered[i] \in Nat /\ e.chunk = delivered[i] + 1 /\ e.chunk <= delivered[i]
            BY <1>0, <2>5, <3>1, <5>1
          <6> QED
            BY <6>1
        <5>2. CASE ~(e.id = i /\ e.chunk # 0)
          BY <1>0, <2>2, <2>3, <5>2
        <5> QED
          BY <5>1, <5>2
      <4> QED
        BY <3>1, <4>1
    <3>2. CASE printed[i] # delivered[i]
      <4>1. PICK k \in DOMAIN events : events[k].id = i /\ events[k].chunk = printed[i]
        BY <1>c, <3>2
      <4>2. CASE k = 1
        <5>1. e.id = i /\ e.chunk = printed[i]
          BY <4>1, <4>2 DEF e
        <5>2. delivered'[i] = printed[i]
          <6>1. CASE e.chunk = 0
            <7>1. printed[i] \in Nat /\ delivered[i] \in Nat /\ printed[i] = 0
              BY <1>0, <5>1, <6>1
            <7> QED
              BY <1>c, <3>2, <7>1
          <6>2. CASE e.chunk # 0
            BY <1>0, <2>2, <2>3, <5>1, <6>2
          <6> QED
            BY <6>1, <6>2
        <5> QED
          BY <5>2
      <4>3. CASE k # 1
        <5>1. k - 1 \in DOMAIN events' /\ events'[k - 1] = events[k]
          BY <2>4, <4>1, <4>3
        <5> QED
          BY <4>1, <5>1
      <4> QED
        BY <4>2, <4>3
    <3> QED
      BY <3>1, <3>2
  <2>8. ASSUME NEW i \in Ids PROVE delivered'[i] <= printed[i]
    <3>1. CASE e.id = i /\ e.chunk # 0
      BY <1>0, <2>2, <2>3, <2>5, <3>1
    <3>2. CASE ~(e.id = i /\ e.chunk # 0)
      <4>1. delivered'[i] = delivered[i]
        BY <1>0, <2>2, <2>3, <3>2
      <4> QED
        BY <4>1, <1>c
    <3> QED
      BY <3>1, <3>2
  <2>9. \A k \in DOMAIN events' : events'[k].id <= minted' /\ (events'[k].chunk # 0 => Follows(k)')
    <3> TAKE k \in DOMAIN events'
    <3>1. events'[k].id <= minted'
      BY <1>a, <2>1
    <3>2. ASSUME events'[k].chunk # 0 PROVE Follows(k)'
      BY <1>3, <2>6, <3>2 DEF Follows
    <3> QED
      BY <3>1, <3>2
  <2>10. \A i \in Ids : delivered'[i] <= printed'[i] /\ Reaches(i)'
    BY <1>3, <2>7, <2>8 DEF Reaches
  <2> QED
    BY <1>0, <1>3, <2>3, <2>9, <2>10 DEF Stream
<1>4. ASSUME NEW i \in Ids, NEW chunk \in Nat, Tells(i, chunk), task[i] # "none",
             UNCHANGED <<delivered, minted>>,
             \/ chunk = 0 /\ printed' = printed
             \/ chunk = printed[i] + 1 /\ printed' = [printed EXCEPT ![i] = chunk]
      PROVE  Stream'
  <2>1. /\ DOMAIN events' = 1..(n + 1) /\ \A k \in DOMAIN events : events'[k] = events[k]
        /\ events'[n + 1].id = i /\ events'[n + 1].chunk = chunk
    BY <1>4, AnEvent
  <2>2. i <= minted /\ printed' \in [Ids -> Nat] /\ \A j \in Ids : printed[j] <= printed'[j]
    <3>1. i <= minted
      BY <1>4 DEF Born, Owned
    <3>2. CASE printed' = printed
      BY <1>0, <3>1, <3>2
    <3>3. CASE chunk = printed[i] + 1 /\ printed' = [printed EXCEPT ![i] = chunk]
      BY <1>0, <3>1, <3>3
    <3> QED
      BY <1>4, <3>2, <3>3
  <2>3. /\ \A k \in DOMAIN events : k \in DOMAIN events' /\ k < n + 1 /\ k \in Nat
        /\ n + 1 \in DOMAIN events' /\ \A k \in DOMAIN events' : k \in DOMAIN events \/ k = n + 1
    BY <1>0, <2>1
  <2> HIDE DEF n
  <2>4. ASSUME NEW k \in DOMAIN events, events[k].chunk # 0 PROVE Follows(k)'
    <3> DEFINE f == events[k]
    <3>1. f = events'[k] /\ f.id \in Ids /\ f.chunk \in Nat /\ delivered'[f.id] = delivered[f.id]
      BY <1>0, <1>4, <2>1
    <3>2. delivered[f.id] < f.chunk /\ f.chunk <= printed'[f.id]
      <4>1. f.chunk <= printed[f.id] /\ printed[f.id] <= printed'[f.id]
        BY <1>b, <2>2, <2>4, <3>1
      <4>2. f.chunk \in Nat /\ printed[f.id] \in Nat /\ printed'[f.id] \in Nat
        BY <1>0, <2>2, <3>1
      <4> QED
        BY <1>b, <2>4, <4>1, <4>2
    <3>3. \/ f.chunk = delivered[f.id] + 1
          \/ \E j \in DOMAIN events' : j < k /\ events'[j].id = f.id /\ events'[j].chunk = f.chunk - 1
      <4>1. CASE f.chunk = delivered[f.id] + 1
        BY <4>1
      <4>2. CASE f.chunk # delivered[f.id] + 1
        <5>1. PICK j \in DOMAIN events :
                j < k /\ events[j].id = f.id /\ events[j].chunk = f.chunk - 1
          BY <1>b, <2>4, <4>2
        <5> QED
          BY <2>1, <2>3, <5>1
      <4> QED
        BY <4>1, <4>2
    <3>4. ASSUME NEW j \in DOMAIN events', j < k, events'[j].id = f.id
          PROVE  events'[j].chunk < f.chunk
      <4>1. n + 1 \in Nat /\ k \in Nat /\ k < n + 1
        BY <1>0, <2>3 DEF n
      <4>2. j \in DOMAIN events
        BY <2>3, <3>4, <4>1
      <4> QED
        BY <1>b, <2>1, <2>4, <3>4, <4>2
    <3> HIDE DEF f
    <3> QED
      BY <3>1, <3>2, <3>3, <3>4 DEF Follows
  <2>5. ASSUME NEW k, k = n + 1, chunk # 0 PROVE Follows(k)'
    <3>1. /\ chunk = printed[i] + 1 /\ printed'[i] = chunk /\ delivered'[i] = delivered[i]
          /\ delivered[i] <= printed[i] /\ delivered[i] \in Nat /\ printed[i] \in Nat
      BY <1>0, <1>4, <1>c, <2>5
    <3>2. \/ chunk = delivered[i] + 1
          \/ \E j \in DOMAIN events' : j < k /\ events'[j].id = i /\ events'[j].chunk = chunk - 1
      <4>1. CASE printed[i] = delivered[i]
        BY <3>1, <4>1
      <4>2. CASE printed[i] # delivered[i]
        <5>1. PICK j \in DOMAIN events : events[j].id = i /\ events[j].chunk = printed[i]
          BY <1>c, <4>2
        <5>2. chunk - 1 = printed[i]
          BY <3>1
        <5> QED
          BY <2>1, <2>3, <2>5, <5>1, <5>2
      <4> QED
        BY <4>1, <4>2
    <3>3. ASSUME NEW j \in DOMAIN events', j < k, events'[j].id = i
          PROVE  events'[j].chunk < chunk
      <4>1. j # n + 1
        BY <1>0, <2>5, <3>3 DEF n
      <4>2. j \in DOMAIN events
        BY <2>3, <4>1
      <4>3. events[j].id = i /\ events[j].chunk \in Nat /\ events'[j] = events[j]
        BY <1>0, <2>1, <3>3, <4>2
      <4>4. events[j].chunk <= printed[i]
        <5>1. CASE events[j].chunk = 0
          BY <3>1, <5>1
        <5>2. CASE events[j].chunk # 0
          BY <1>b, <4>2, <4>3, <5>2
        <5> QED
          BY <5>1, <5>2
      <4> QED
        BY <3>1, <4>3, <4>4
    <3>4. events'[k].id = i /\ events'[k].chunk = chunk /\ delivered'[i] < chunk /\ chunk <= printed'[i]
      BY <2>1, <2>5, <3>1
    <3> QED
      BY <3>1, <3>2, <3>3, <3>4 DEF Follows
  <2>6. \A k \in DOMAIN events' : events'[k].id <= minted' /\ (events'[k].chunk # 0 => Follows(k)')
    <3> TAKE k \in DOMAIN events'
    <3>1. CASE k \in DOMAIN events
      BY <1>a, <2>1, <2>4, <3>1
    <3>2. CASE k = n + 1
      BY <1>4, <2>1, <2>2, <2>5, <3>2
    <3> QED
      BY <2>3, <3>1, <3>2
  <2>7. ASSUME NEW j \in Ids PROVE delivered'[j] <= printed'[j] /\ Reaches(j)'
    <3>1. delivered[j] <= printed[j] /\ delivered[j] \in Nat /\ printed[j] \in Nat /\ printed'[j] \in Nat
      BY <1>0, <1>c, <2>2
    <3>2. delivered'[j] <= printed'[j]
      BY <1>4, <2>2, <3>1
    <3>3. CASE j = i /\ chunk # 0
      <4>1. events'[n + 1].chunk = printed'[j] /\ events'[n + 1].id = j
        BY <1>0, <1>4, <2>1, <3>3
      <4> QED
        BY <2>3, <3>2, <4>1 DEF Reaches
    <3>4. CASE ~(j = i /\ chunk # 0)
      <4>1. printed'[j] = printed[j] /\ delivered'[j] = delivered[j]
        <5>1. CASE printed' = printed
          BY <1>4, <5>1
        <5>2. CASE chunk = printed[i] + 1 /\ printed' = [printed EXCEPT ![i] = chunk]
          <6>1. chunk # 0
            BY <1>0, <5>2
          <6> QED
            BY <1>0, <1>4, <3>4, <5>2, <6>1
        <5> QED
          BY <1>4, <5>1, <5>2
      <4>2. CASE printed[j] = delivered[j]
        BY <3>2, <4>1, <4>2 DEF Reaches
      <4>3. CASE printed[j] # delivered[j]
        <5>1. PICK k \in DOMAIN events : events[k].id = j /\ events[k].chunk = printed[j]
          BY <1>c, <4>3
        <5>2. k \in DOMAIN events' /\ events'[k].id = j /\ events'[k].chunk = printed'[j]
          BY <2>1, <2>3, <4>1, <5>1
        <5> QED
          BY <3>2, <5>2 DEF Reaches
      <4> QED
        BY <4>2, <4>3
    <3> QED
      BY <3>3, <3>4
  <2> QED
    BY <1>0, <1>4, <2>2, <2>6, <2>7 DEF Stream
<1>5. ASSUME NEW i \in Ids, Tells(i, 0), task[i] = "exited", UNCHANGED <<printed, delivered, minted>>
      PROVE  Stream'
  BY <1>4, <1>5
<1>6. ASSUME NEW i \in Ids, Tells(i, printed'[i]), task[i] = "running",
             printed' = [printed EXCEPT ![i] = @ + 1], UNCHANGED <<delivered, minted>>
      PROVE  Stream'
  <2>1. printed'[i] = printed[i] + 1 /\ printed'[i] \in Nat
    BY <1>0, <1>6
  <2>2. printed' = [printed EXCEPT ![i] = printed'[i]]
    BY <1>0, <1>6, <2>1
  <2> QED
    BY <1>4, <1>6, <2>1, <2>2
<1> QED
  BY <1>2, <1>3, <1>5, <1>6, EventsOf

-----------------------------------------------------------------------------
(* What frames there are in a queue.                                         *)

LEMMA AppendFrame ==
  ASSUME NEW s \in Seq(Frames), NEW f \in Frames
  PROVE  LET t == Append(s, f) IN
         /\ \A i : RunIn(t, i) <=> RunIn(s, i) \/ (f.do = "run" /\ f.id = i)
         /\ \A i : SizeIn(t, i) <=> SizeIn(s, i) \/ (f.do = "size" /\ f.id = i)
         /\ OneRun(s) /\ (f.do = "run" => ~RunIn(s, f.id)) => OneRun(t)
         /\ \A i : RunsFirst(s, i) /\ (f.do = "run" /\ f.id = i => ~SizeIn(s, i)) => RunsFirst(t, i)
         /\ f.do = "size" => LastIn(t, f.id, f.n)
         /\ \A i, n : LastIn(s, i, n) /\ ~(f.do = "size" /\ f.id = i) => LastIn(t, i, n)
         /\ \A m : (\A k \in DOMAIN s : s[k].id <= m) /\ f.id <= m => \A k \in DOMAIN t : t[k].id <= m
<1> DEFINE t == Append(s, f)
           n == Len(s)
<1>1. /\ n \in Nat /\ DOMAIN s = 1..n /\ DOMAIN t = 1..(n + 1) /\ t[n + 1] = f
      /\ \A k \in DOMAIN s : t[k] = s[k]
  BY AppendIs
<1>2. /\ \A k \in DOMAIN s : k \in DOMAIN t /\ k < n + 1 /\ k \in Nat /\ k # n + 1 /\ ~(n + 1 < k)
      /\ n + 1 \in DOMAIN t /\ ~(n + 1 < n + 1)
      /\ \A k \in DOMAIN t : k \in DOMAIN s \/ k = n + 1
  BY <1>1
<1> HIDE DEF t, n
<1>3. \A i : RunIn(t, i) <=> RunIn(s, i) \/ (f.do = "run" /\ f.id = i)
  <2> TAKE i
  <2>1. ASSUME RunIn(t, i) PROVE RunIn(s, i) \/ (f.do = "run" /\ f.id = i)
    BY <1>1, <1>2, <2>1 DEF RunIn
  <2>2. ASSUME RunIn(s, i) PROVE RunIn(t, i)
    BY <1>1, <1>2, <2>2 DEF RunIn
  <2>3. ASSUME f.do = "run", f.id = i PROVE RunIn(t, i)
    BY <1>1, <1>2, <2>3 DEF RunIn
  <2> QED
    BY <2>1, <2>2, <2>3
<1>4. \A i : SizeIn(t, i) <=> SizeIn(s, i) \/ (f.do = "size" /\ f.id = i)
  <2> TAKE i
  <2>1. ASSUME SizeIn(t, i) PROVE SizeIn(s, i) \/ (f.do = "size" /\ f.id = i)
    BY <1>1, <1>2, <2>1 DEF SizeIn
  <2>2. ASSUME SizeIn(s, i) PROVE SizeIn(t, i)
    BY <1>1, <1>2, <2>2 DEF SizeIn
  <2>3. ASSUME f.do = "size", f.id = i PROVE SizeIn(t, i)
    BY <1>1, <1>2, <2>3 DEF SizeIn
  <2> QED
    BY <2>1, <2>2, <2>3
<1>5. ASSUME OneRun(s), f.do = "run" => ~RunIn(s, f.id) PROVE OneRun(t)
  BY <1>1, <1>2, <1>5 DEF OneRun, RunIn
<1>6. ASSUME NEW i, RunsFirst(s, i), f.do = "run" /\ f.id = i => ~SizeIn(s, i)
      PROVE  RunsFirst(t, i)
  <2> SUFFICES ASSUME NEW j \in DOMAIN t, NEW k \in DOMAIN t, t[j].do = "run", t[k].do = "size",
                      t[j].id = i, t[k].id = i
               PROVE  j < k
    BY DEF RunsFirst
  <2>1. CASE j \in DOMAIN s /\ k \in DOMAIN s
    BY <1>1, <1>6, <2>1 DEF RunsFirst
  <2>2. CASE j = n + 1 /\ k \in DOMAIN s
    <3>1. f.do = "run" /\ f.id = i /\ SizeIn(s, i)
      BY <1>1, <2>2 DEF SizeIn
    <3> QED
      BY <1>6, <3>1
  <2>3. CASE k = n + 1 /\ j \in DOMAIN s
    BY <1>2, <2>3
  <2>4. CASE k = n + 1 /\ j = n + 1
    BY <2>4
  <2> QED
    BY <1>2, <2>1, <2>2, <2>3, <2>4
<1>7. ASSUME f.do = "size" PROVE LastIn(t, f.id, f.n)
  <2>1. \A j \in DOMAIN t : ~(j > n + 1)
    BY <1>1
  <2> QED
    BY <1>1, <1>2, <1>7, <2>1 DEF LastIn
<1>8. ASSUME NEW i, NEW m, LastIn(s, i, m), ~(f.do = "size" /\ f.id = i) PROVE LastIn(t, i, m)
  <2>1. PICK k \in DOMAIN s : /\ s[k].do = "size" /\ s[k].id = i /\ s[k].n = m
                            /\ \A j \in DOMAIN s : j > k => ~(s[j].do = "size" /\ s[j].id = i)
    BY <1>8 DEF LastIn
  <2>2. \A j \in DOMAIN t : j > k => ~(t[j].do = "size" /\ t[j].id = i)
    BY <1>1, <1>2, <1>8, <2>1
  <2> QED
    BY <1>1, <1>2, <2>1, <2>2 DEF LastIn
<1>9. ASSUME NEW m, \A k \in DOMAIN s : s[k].id <= m, f.id <= m PROVE \A k \in DOMAIN t : t[k].id <= m
  BY <1>1, <1>2, <1>9
<1> QED
  BY <1>3, <1>4, <1>5, <1>6, <1>7, <1>8, <1>9 DEF t

FirstOf(s, k) == \A j \in DOMAIN s : j < k => s[j].id # s[k].id

LEMMA RemoveFrame ==
  ASSUME NEW s \in Seq(Frames), NEW k \in DOMAIN s
  PROVE  LET t == RemoveAt(s, k) IN
         /\ \A i : RunIn(s, i) <=> RunIn(t, i) \/ (s[k].do = "run" /\ s[k].id = i)
         /\ \A i : SizeIn(s, i) <=> SizeIn(t, i) \/ (s[k].do = "size" /\ s[k].id = i)
         /\ OneRun(s) => OneRun(t) /\ (s[k].do = "run" => ~RunIn(t, s[k].id))
         /\ \A i : RunsFirst(s, i) =>
              /\ RunsFirst(t, i)
              /\ s[k].do = "size" /\ s[k].id = i /\ FirstOf(s, k) => ~RunIn(t, i)
         /\ \A i, n : LastIn(s, i, n) /\ (s[k].id = i => FirstOf(s, k)) =>
              \/ LastIn(t, i, n)
              \/ s[k].do = "size" /\ s[k].id = i /\ s[k].n = n /\ ~SizeIn(t, i)
         /\ \A j \in DOMAIN t : \E i \in DOMAIN s : t[j] = s[i]
<1> DEFINE t == RemoveAt(s, k)
           n == Len(s)
<1>1. /\ n \in Nat \ {0} /\ DOMAIN s = 1..n /\ DOMAIN t = 1..(n - 1) /\ k \in 1..n
      /\ \A j \in 1..(n - 1) : t[j] = IF j < k THEN s[j] ELSE s[j + 1]
  BY RemoveIs
<1> HIDE DEF t, n
<1>2. ASSUME NEW j \in DOMAIN t
      PROVE  \E i \in DOMAIN s : i # k /\ t[j] = s[i] /\ i = IF j < k THEN j ELSE j + 1
  <2>1. CASE j < k
    <3>1. j \in DOMAIN s /\ j # k /\ t[j] = s[j]
      BY <1>1, <2>1
    <3> QED
      BY <2>1, <3>1
  <2>2. CASE ~(j < k)
    <3>1. j + 1 \in DOMAIN s /\ j + 1 # k /\ t[j] = s[j + 1]
      BY <1>1, <2>2
    <3> QED
      BY <2>2, <3>1
  <2> QED
    BY <2>1, <2>2
<1>3. ASSUME NEW i \in DOMAIN s, i # k
      PROVE  \E j \in DOMAIN t : t[j] = s[i] /\ j = IF i < k THEN i ELSE i - 1
  <2>1. CASE i < k
    <3>1. i \in DOMAIN t /\ t[i] = s[i]
      BY <1>1, <2>1
    <3> QED
      BY <2>1, <3>1
  <2>2. CASE ~(i < k)
    <3>1. i - 1 \in DOMAIN t /\ ~(i - 1 < k) /\ (i - 1) + 1 = i
      BY <1>1, <1>3, <2>2
    <3>2. t[i - 1] = s[i]
      BY <1>1, <3>1
    <3> QED
      BY <2>2, <3>1, <3>2
  <2> QED
    BY <2>1, <2>2
<1>4. \A i : RunIn(s, i) <=> RunIn(t, i) \/ (s[k].do = "run" /\ s[k].id = i)
  <2> TAKE i
  <2>1. ASSUME RunIn(s, i) PROVE RunIn(t, i) \/ (s[k].do = "run" /\ s[k].id = i)
    BY <1>3, <2>1 DEF RunIn
  <2>2. ASSUME RunIn(t, i) PROVE RunIn(s, i)
    BY <1>2, <2>2 DEF RunIn
  <2>3. ASSUME s[k].do = "run", s[k].id = i PROVE RunIn(s, i)
    BY <2>3 DEF RunIn
  <2> QED
    BY <2>1, <2>2, <2>3
<1>5. ASSUME OneRun(s) PROVE OneRun(t)
  <2> SUFFICES ASSUME NEW a \in DOMAIN t, NEW b \in DOMAIN t, t[a].do = "run", t[b].do = "run",
                      t[a].id = t[b].id
               PROVE  a = b
    BY DEF OneRun
  <2>1. PICK i \in DOMAIN s : t[a] = s[i] /\ i = IF a < k THEN a ELSE a + 1
    BY <1>2
  <2>2. PICK j \in DOMAIN s : t[b] = s[j] /\ j = IF b < k THEN b ELSE b + 1
    BY <1>2
  <2>3. i = j
    BY <1>5, <2>1, <2>2 DEF OneRun
  <2>4. a \in Int /\ b \in Int /\ k \in Int
    BY <1>1
  <2> QED
    BY <2>1, <2>2, <2>3, <2>4
<1>6. ASSUME OneRun(s), s[k].do = "run" PROVE ~RunIn(t, s[k].id)
  BY <1>2, <1>6 DEF RunIn, OneRun
<1>7. \A i : SizeIn(s, i) <=> SizeIn(t, i) \/ (s[k].do = "size" /\ s[k].id = i)
  <2> TAKE i
  <2>1. ASSUME SizeIn(s, i) PROVE SizeIn(t, i) \/ (s[k].do = "size" /\ s[k].id = i)
    BY <1>3, <2>1 DEF SizeIn
  <2>2. ASSUME SizeIn(t, i) PROVE SizeIn(s, i)
    BY <1>2, <2>2 DEF SizeIn
  <2>3. ASSUME s[k].do = "size", s[k].id = i PROVE SizeIn(s, i)
    BY <2>3 DEF SizeIn
  <2> QED
    BY <2>1, <2>2, <2>3
<1>8. k \in Int /\ (\A j \in DOMAIN t : j \in Int) /\ (\A j \in DOMAIN s : j \in Int)
  BY <1>1
\* The order of those that are left is as it was.
<1>9. ASSUME NEW a \in DOMAIN t, NEW b \in DOMAIN t, NEW i \in DOMAIN s, NEW j \in DOMAIN s,
             i = IF a < k THEN a ELSE a + 1, j = IF b < k THEN b ELSE b + 1
      PROVE  a < b <=> i < j
  BY <1>8, <1>9
<1>10. ASSUME NEW i, RunsFirst(s, i) PROVE RunsFirst(t, i)
  <2> SUFFICES ASSUME NEW a \in DOMAIN t, NEW b \in DOMAIN t, t[a].do = "run", t[a].id = i,
                      t[b].do = "size", t[b].id = i
               PROVE  a < b
    BY DEF RunsFirst
  <2>1. PICK c \in DOMAIN s : t[a] = s[c] /\ c = IF a < k THEN a ELSE a + 1
    BY <1>2
  <2>2. PICK d \in DOMAIN s : t[b] = s[d] /\ d = IF b < k THEN b ELSE b + 1
    BY <1>2
  <2>3. c < d
    BY <1>10, <2>1, <2>2 DEF RunsFirst
  <2> QED
    BY <1>9, <2>1, <2>2, <2>3
<1>11. ASSUME NEW i, RunsFirst(s, i), s[k].do = "size", s[k].id = i, FirstOf(s, k)
       PROVE  ~RunIn(t, i)
  <2> SUFFICES ASSUME NEW a \in DOMAIN t, t[a].do = "run", t[a].id = i PROVE FALSE
    BY DEF RunIn
  <2>1. PICK c \in DOMAIN s : t[a] = s[c]
    BY <1>2
  <2>2. c < k
    BY <1>11, <2>1 DEF RunsFirst
  <2> QED
    BY <1>11, <2>1, <2>2 DEF FirstOf
<1>12. ASSUME NEW i, NEW m, LastIn(s, i, m), s[k].id = i => FirstOf(s, k)
       PROVE  \/ LastIn(t, i, m)
              \/ s[k].do = "size" /\ s[k].id = i /\ s[k].n = m /\ ~SizeIn(t, i)
  <2>1. PICK p \in DOMAIN s : /\ s[p].do = "size" /\ s[p].id = i /\ s[p].n = m
                            /\ \A j \in DOMAIN s : j > p => ~(s[j].do = "size" /\ s[j].id = i)
    BY <1>12 DEF LastIn
  <2>2. CASE p = k
    <3>1. ~SizeIn(t, i)
      <4> SUFFICES ASSUME NEW a \in DOMAIN t, t[a].do = "size", t[a].id = i PROVE FALSE
        BY DEF SizeIn
      <4>1. PICK c \in DOMAIN s : c # k /\ t[a] = s[c]
        BY <1>2
      <4>2. c < k \/ c > k
        BY <1>8, <4>1
      <4> QED
        BY <1>12, <2>1, <2>2, <4>1, <4>2 DEF FirstOf
    <3> QED
      BY <2>1, <2>2, <3>1
  <2>3. CASE p # k
    <3>1. PICK a \in DOMAIN t : t[a] = s[p] /\ a = IF p < k THEN p ELSE p - 1
      BY <1>3, <2>3
    <3>2. p = IF a < k THEN a ELSE a + 1
      BY <1>8, <2>3, <3>1
    <3>3. ASSUME NEW b \in DOMAIN t, b > a, t[b].do = "size", t[b].id = i PROVE FALSE
      <4>1. PICK d \in DOMAIN s : t[b] = s[d] /\ d = IF b < k THEN b ELSE b + 1
        BY <1>2
      <4>2. d > p
        <5>1. a < b
          BY <1>8, <3>3
        <5>2. p < d
          BY <1>9, <3>2, <4>1, <5>1
        <5> QED
          BY <1>8, <5>2
      <4> QED
        BY <2>1, <3>3, <4>1, <4>2
    <3>4. t[a].do = "size" /\ t[a].id = i /\ t[a].n = m
      BY <2>1, <3>1
    <3> QED
      BY <3>3, <3>4 DEF LastIn
  <2> QED
    BY <2>2, <2>3
<1>13. \A j \in DOMAIN t : \E i \in DOMAIN s : t[j] = s[i]
  BY <1>2
<1> QED
  BY <1>4, <1>5, <1>6, <1>7, <1>10, <1>11, <1>12, <1>13 DEF t

LEMMA TailFrame ==
  ASSUME NEW s \in Seq(Frames), s # <<>>
  PROVE  LET t == Tail(s)
             f == Head(s)
         IN /\ f \in Frames /\ \A k \in DOMAIN t : \E j \in DOMAIN s : t[k] = s[j]
            /\ \E j \in DOMAIN s : f = s[j]
            /\ \A i : RunIn(s, i) <=> RunIn(t, i) \/ (f.do = "run" /\ f.id = i)
            /\ \A i : SizeIn(s, i) <=> SizeIn(t, i) \/ (f.do = "size" /\ f.id = i)
            /\ OneRun(s) => OneRun(t) /\ (f.do = "run" => ~RunIn(t, f.id))
            /\ \A i : RunsFirst(s, i) =>
                 RunsFirst(t, i) /\ (f.do = "size" /\ f.id = i => ~RunIn(t, i))
            /\ \A i, n : LastIn(s, i, n) =>
                 LastIn(t, i, n) \/ (f.do = "size" /\ f.id = i /\ f.n = n /\ ~SizeIn(t, i))
<1> DEFINE t == Tail(s)
           f == Head(s)
           m == Len(s)
<1>1. /\ f \in Frames /\ f = s[1] /\ 1 \in DOMAIN s /\ m \in Nat \ {0} /\ DOMAIN s = 1..m
      /\ DOMAIN t = 1..(m - 1) /\ \A k \in DOMAIN t : t[k] = s[k + 1] /\ k + 1 \in DOMAIN s
  BY TailIs
<1> HIDE DEF t, f, m
<1>2. ASSUME NEW k \in DOMAIN t PROVE k \in Nat \ {0} /\ 1 < k + 1 /\ k + 1 # 1 /\ ~(k + 1 < 1)
  BY <1>1
<1>3. ASSUME NEW j \in DOMAIN s, j # 1
      PROVE  j - 1 \in DOMAIN t /\ t[j - 1] = s[j] /\ j \in Nat
  <2>1. j \in Nat /\ j - 1 \in DOMAIN t /\ (j - 1) + 1 = j
    BY <1>1, <1>3
  <2> QED
    BY <1>1, <2>1
<1>4. \A i : RunIn(s, i) <=> RunIn(t, i) \/ (f.do = "run" /\ f.id = i)
  <2> TAKE i
  <2>1. ASSUME RunIn(s, i) PROVE RunIn(t, i) \/ (f.do = "run" /\ f.id = i)
    <3>1. PICK j \in DOMAIN s : s[j].do = "run" /\ s[j].id = i
      BY <2>1 DEF RunIn
    <3> QED
      BY <1>1, <1>3, <3>1 DEF RunIn
  <2>2. ASSUME RunIn(t, i) PROVE RunIn(s, i)
    BY <1>1, <2>2 DEF RunIn
  <2>3. ASSUME f.do = "run", f.id = i PROVE RunIn(s, i)
    BY <1>1, <2>3 DEF RunIn
  <2> QED
    BY <2>1, <2>2, <2>3
<1>5. \A i : SizeIn(s, i) <=> SizeIn(t, i) \/ (f.do = "size" /\ f.id = i)
  <2> TAKE i
  <2>1. ASSUME SizeIn(s, i) PROVE SizeIn(t, i) \/ (f.do = "size" /\ f.id = i)
    <3>1. PICK j \in DOMAIN s : s[j].do = "size" /\ s[j].id = i
      BY <2>1 DEF SizeIn
    <3> QED
      BY <1>1, <1>3, <3>1 DEF SizeIn
  <2>2. ASSUME SizeIn(t, i) PROVE SizeIn(s, i)
    BY <1>1, <2>2 DEF SizeIn
  <2>3. ASSUME f.do = "size", f.id = i PROVE SizeIn(s, i)
    BY <1>1, <2>3 DEF SizeIn
  <2> QED
    BY <2>1, <2>2, <2>3
<1>6. ASSUME OneRun(s) PROVE OneRun(t)
  <2> SUFFICES ASSUME NEW a \in DOMAIN t, NEW b \in DOMAIN t, t[a].do = "run", t[b].do = "run",
                      t[a].id = t[b].id
               PROVE  a = b
    BY DEF OneRun
  <2>1. a + 1 = b + 1
    BY <1>1, <1>6 DEF OneRun
  <2> QED
    BY <1>2, <2>1
<1>7. ASSUME OneRun(s), f.do = "run" PROVE ~RunIn(t, f.id)
  BY <1>1, <1>2, <1>7 DEF RunIn, OneRun
<1>8. ASSUME NEW i, RunsFirst(s, i) PROVE RunsFirst(t, i)
  <2> SUFFICES ASSUME NEW a \in DOMAIN t, NEW b \in DOMAIN t, t[a].do = "run", t[a].id = i,
                      t[b].do = "size", t[b].id = i
               PROVE  a < b
    BY DEF RunsFirst
  <2>1. a + 1 < b + 1
    BY <1>1, <1>8 DEF RunsFirst
  <2> QED
    BY <1>2, <2>1
<1>9. ASSUME NEW i, RunsFirst(s, i), f.do = "size", f.id = i PROVE ~RunIn(t, i)
  BY <1>1, <1>2, <1>9 DEF RunIn, RunsFirst
<1>10. ASSUME NEW i, NEW n, LastIn(s, i, n)
       PROVE  LastIn(t, i, n) \/ (f.do = "size" /\ f.id = i /\ f.n = n /\ ~SizeIn(t, i))
  <2>1. PICK k \in DOMAIN s : /\ s[k].do = "size" /\ s[k].id = i /\ s[k].n = n
                            /\ \A j \in DOMAIN s : j > k => ~(s[j].do = "size" /\ s[j].id = i)
    BY <1>10 DEF LastIn
  <2>2. CASE k = 1
    <3>1. ~SizeIn(t, i)
      <4> SUFFICES ASSUME NEW j \in DOMAIN t, t[j].do = "size", t[j].id = i PROVE FALSE
        BY DEF SizeIn
      <4>1. j + 1 \in DOMAIN s /\ j + 1 > 1 /\ s[j + 1] = t[j]
        BY <1>1, <1>2
      <4> QED
        BY <2>1, <2>2, <4>1
    <3> QED
      BY <1>1, <2>1, <2>2, <3>1
  <2>3. CASE k # 1
    <3>1. k - 1 \in DOMAIN t /\ t[k - 1] = s[k] /\ k \in Nat
      BY <1>3, <2>3
    <3>2. ASSUME NEW j \in DOMAIN t, j > k - 1 PROVE ~(t[j].do = "size" /\ t[j].id = i)
      <4>1. j + 1 \in DOMAIN s /\ s[j + 1] = t[j] /\ j \in Nat
        BY <1>1, <1>2
      <4>2. j + 1 > k
        BY <3>1, <3>2, <4>1
      <4> QED
        BY <2>1, <4>1, <4>2
    <3>3. t[k - 1].do = "size" /\ t[k - 1].id = i /\ t[k - 1].n = n
      BY <2>1, <3>1
    <3>4. \A j \in DOMAIN t : j > k - 1 => ~(t[j].do = "size" /\ t[j].id = i)
      BY <3>2
    <3>5. LastIn(t, i, n)
      BY <3>1, <3>3, <3>4 DEF LastIn
    <3> QED
      BY <3>5
  <2> QED
    BY <2>2, <2>3
<1>11. /\ \A k \in DOMAIN t : \E j \in DOMAIN s : t[k] = s[j]
       /\ \E j \in DOMAIN s : f = s[j]
  BY <1>1
<1> QED
  BY <1>1, <1>4, <1>5, <1>6, <1>7, <1>8, <1>9, <1>10, <1>11 DEF t, f

-----------------------------------------------------------------------------
(* One shell at a time.                                                      *)

\* A start is asked for once, wherever the frame is.
LEMMA SameFrames ==
  ASSUME Once, UNCHANGED <<commands, wire>>
  PROVE  Once' /\ \A j : Pending(j)' <=> Pending(j)
BY DEF Once, Pending

LEMMA SentFrame ==
  ASSUME Queues, Once, NEW do, NEW i, NEW n, Sends(do, i, n), do = "run" => ~Pending(i)
  PROVE  Once' /\ \A j : Pending(j)' => Pending(j) \/ (do = "run" /\ j = i)
<1> DEFINE f == [do |-> do, id |-> i, n |-> n]
<1>1. /\ commands \in Seq(Frames) /\ f \in Frames /\ f.do = do /\ f.id = i
      /\ commands' = Append(commands, f) /\ wire' = wire
  BY AFrame DEF Queues, Sends
<1> HIDE DEF f
<1>2. /\ \A j : RunIn(commands', j) <=> RunIn(commands, j) \/ (do = "run" /\ j = i)
      /\ OneRun(commands) /\ (do = "run" => ~RunIn(commands, i)) => OneRun(commands')
  BY <1>1, AppendFrame
<1> QED
  BY <1>1, <1>2 DEF Once, Pending

LEMMA PassedFrame ==
  ASSUME Queues, Once, Pass
  PROVE  Once' /\ \A j : Pending(j)' <=> Pending(j)
<1>1. commands \in Seq(Frames) /\ wire \in Seq(Frames)
  BY DEF Queues
<1>2. PICK k \in DOMAIN commands :
        wire' = Append(wire, commands[k]) /\ commands' = RemoveAt(commands, k)
  BY DEF Pass
<1> DEFINE f == commands[k]
<1>3. f \in Frames /\ f.id \in Ids /\ (f.do = "run" => RunIn(commands, f.id))
  <2>1. f \in Frames
    BY <1>1, ElementIs
  <2> QED
    BY <2>1 DEF Frames, RunIn
<1>4. /\ \A j : RunIn(commands, j) <=> RunIn(commands', j) \/ (f.do = "run" /\ f.id = j)
      /\ OneRun(commands) => OneRun(commands') /\ (f.do = "run" => ~RunIn(commands', f.id))
  BY <1>1, <1>2, RemoveFrame
<1> HIDE DEF f
<1>5. /\ \A j : RunIn(wire', j) <=> RunIn(wire, j) \/ (f.do = "run" /\ f.id = j)
      /\ OneRun(wire) /\ (f.do = "run" => ~RunIn(wire, f.id)) => OneRun(wire')
  BY <1>1, <1>2, <1>3, AppendFrame DEF f
<1> QED
  BY <1>3, <1>4, <1>5 DEF Once, Pending

LEMMA TakenFrame ==
  ASSUME Queues, Once, Takes1
  PROVE  /\ Once' /\ Head(wire).id \in Ids /\ \A j : Pending(j)' => Pending(j)
         /\ Head(wire).do = "run" => /\ Pending(Head(wire).id)
                                     /\ \A j : j = Head(wire).id => ~Pending(j)'
<1> DEFINE f == Head(wire)
<1>1. /\ wire \in Seq(Frames) /\ wire # <<>> /\ wire' = Tail(wire) /\ commands' = commands
  BY DEF Queues, Takes1
<1>2. /\ f \in Frames
      /\ \A i : RunIn(wire, i) <=> RunIn(wire', i) \/ (f.do = "run" /\ f.id = i)
      /\ OneRun(wire) => OneRun(wire') /\ (f.do = "run" => ~RunIn(wire', f.id))
  BY <1>1, TailFrame
<1> HIDE DEF f
<1>3. f.id \in Ids
  BY <1>2 DEF Frames
<1> QED
  BY <1>1, <1>2, <1>3 DEF Once, Pending, f

\* Another shell starts where there is none and none is on its way.
LEMMA StartsFresh ==
  ASSUME Dock, Panels, Current, TerminalsAssumption, Reveal, Start
  PROVE  starting = 0 /\ started = 0
<1>1. minted' # minted
  BY StartIs
<1>2. starting = 0 /\ (started = 0 \/ ~ \E k \in DOMAIN panels : panels[k] = started)
  BY <1>1, RevealIs
<1> QED
  BY <1>2 DEF Current

LEMMA CurrentStays ==
  ASSUME Dock, Panels, Queues, Stream, Current, TerminalsAssumption, [Next]_vars
  PROVE  Current'
<1>1. CASE Click
  <2>1. Reveal /\ started' = started
    BY <1>1 DEF Click
  <2>2. CASE Start
    <3>1. /\ minted' \in Ids /\ starting' = minted'
          /\ \E k \in DOMAIN panels' : panels'[k] = minted'
          /\ \A j \in DOMAIN panels : \E k \in DOMAIN panels' : panels'[k] = panels[j]
      BY <2>2, StartIs
    <3>3. started = 0
      BY <2>1, <2>2, StartsFresh
    <3>4. starting' <= minted'
      BY <3>1 DEF Ids
    <3> QED
      BY <2>1, <3>1, <3>3, <3>4 DEF Current
  <2>3. ASSUME UNCHANGED <<panels, panel, starting, commands, minted>> PROVE Current'
    BY <2>1, <2>3 DEF Current
  <2> QED
    BY <2>1, <2>2, <2>3, RevealIs
<1>2. CASE Answer
  <2>1. PICK a \in answers :
          IF a.id # starting
          THEN UNCHANGED <<panels, panel, active, started, starting, listening>>
          ELSE /\ starting' = 0
               /\ IF a.ok THEN started' = a.id /\ UNCHANGED <<panels, panel, active, listening>>
                          ELSE Release(a.id) /\ UNCHANGED started
    BY <1>2 DEF Answer
  <2>2. a.id \in Ids /\ a.id # 0 /\ minted' = minted
    BY <1>2 DEF Queues, Ids, Answer, ghosts
  <2>3. CASE a.id # starting
    BY <2>1, <2>2, <2>3 DEF Current
  <2>4. CASE a.id = starting /\ a.ok
    BY <2>1, <2>2, <2>4 DEF Current
  <2>5. CASE a.id = starting /\ ~a.ok
    BY <2>1, <2>2, <2>5 DEF Current
  <2> QED
    BY <2>3, <2>4, <2>5
<1>3. CASE GivesUp
  BY <1>3 DEF GivesUp, Current
<1>4. CASE Effect \/ Imported
  <2>1. UNCHANGED <<panels, starting, started, minted>>
    BY <1>4 DEF Effect, Imported, view, ghosts
  <2> QED
    BY <2>1 DEF Current
<1>5. CASE Route
  <2> DEFINE e == Head(events)
  <2>1. events # <<>> /\ panels' = WithPanel(e.id) /\ UNCHANGED <<starting, started, minted>>
    BY <1>5 DEF Route
  <2>2. e \in [id : Ids, chunk : Nat]
    BY <2>1, TailIs DEF Queues
  <2>3. e.id \in Ids
    BY <2>2
  <2> HIDE DEF e
  <2>4. \A j \in DOMAIN panels : \E k \in DOMAIN panels' : panels'[k] = panels[j]
    BY <2>1, <2>3, WithPanelIs
  <2> QED
    BY <2>1, <2>4 DEF Current
<1>6. ASSUME UNCHANGED <<panels, active, starting, started, minted, abandoned, delivered>>
      PROVE  Current'
  BY <1>6 DEF Current
<1> QED
  BY <1>1, <1>2, <1>3, <1>4, <1>5, <1>6, OtherDock DEF Next, Person, Webview, Dispatch

LEMMA QuietLife ==
  ASSUME Asked, Born, \A j \in Ids : Pending(j)' => Pending(j), spawning'.id = spawning.id,
         UNCHANGED <<answers, task, minted, abandoned, starting, started>>
  PROVE  Asked' /\ Born'
<1>1. /\ \A i : Owned(i)' <=> Owned(i)
      /\ \A i : Unborn(i)' <=> Unborn(i)
  BY DEF Owned, Unborn
<1>2. \A i : Waits(i)' <=> Waits(i)
  BY <1>1 DEF Waits
<1>3. Asked'
  BY <1>2 DEF Asked
<1>4. \A i \in Ids : spawning'.id = i => Unborn(i)'
  BY <1>1 DEF Born
<1>5. Born'
  BY <1>1, <1>4 DEF Born, Owned, Unborn
<1> QED
  BY <1>3, <1>5

LEMMA LifeStays ==
  ASSUME Dock, Panels, Queues, Shells, Current, Once, Asked, Born, TerminalsAssumption, [Next]_vars
  PROVE  Once' /\ Asked' /\ Born'
<1>0. /\ task \in [Ids -> {"none", "running", "exited", "released"}]
      /\ minted \in Nat /\ \A i \in Ids : i \in Nat \ {0}
      /\ answers \subseteq [id : Ids, ok : BOOLEAN]
      /\ spawning.id \in Identities
  BY DEF Shells, Dock, Queues, Ids
<1>a. \A a \in answers : a.id \in Ids /\ a.ok \in BOOLEAN
  BY <1>0
<1>1. CASE Click
  <2>1. /\ Reveal /\ UNCHANGED <<answers, abandoned, task, spawning, started>>
    BY <1>1 DEF Click, engine
  <2>2. CASE Start /\ Sends("run", minted', 0)
    <3>1. /\ minted' = minted + 1 /\ minted' \in Ids /\ starting' = minted'
      BY <2>2, StartIs
    <3>2. starting = 0 /\ started = 0
      BY <2>1, <2>2, StartsFresh
    <3>3. \A i \in Ids : Owned(i) => Owned(i)' /\ i # minted'
      BY <1>0, <2>1, <3>1, <3>2 DEF Owned
    <3>4. \A i \in Ids : Unborn(i) => Unborn(i)' /\ i # minted'
      BY <2>1, <3>3 DEF Unborn
    <3>5. \A i \in Ids : Waits(i) => Waits(i)' /\ i # minted'
      BY <2>1, <3>4 DEF Waits
    <3>6. ~Pending(minted')
      BY <3>1, <3>5 DEF Asked
    <3>7. Once' /\ \A j : Pending(j)' => Pending(j) \/ j = minted'
      BY <2>2, <3>6, SentFrame
    <3>8. /\ task[minted'] = "none" /\ spawning.id # minted'
          /\ \A a \in answers : a.id # minted'
      <4>1. task[minted'] = "none"
        BY <3>1, <3>3 DEF Born
      <4>2. spawning.id # minted'
        BY <1>0, <3>1, <3>4 DEF Born
      <4>3. \A a \in answers : a.id # minted'
        BY <1>0, <1>a, <3>1 DEF Born
      <4> QED
        BY <4>1, <4>2, <4>3
    <3>9. \A j : j = minted' => Waits(j)'
      BY <1>0, <2>1, <3>1, <3>8 DEF Waits, Unborn, Owned
    <3>10. Asked'
      BY <3>5, <3>7, <3>9 DEF Asked
    <3>11. \A i \in Ids : spawning'.id = i => Unborn(i)'
      BY <1>0, <2>1, <3>4 DEF Born, Identities
    <3>12. \A a \in answers' : /\ a.id <= minted' /\ (~a.ok => task'[a.id] = "none")
                              /\ \A b \in answers' : b.id = a.id => b = a
      <4>1. \A a \in answers : a.id <= minted' /\ (~a.ok => task[a.id] = "none")
        <5> TAKE a \in answers
        <5>1. a.id <= minted /\ a.id \in Nat /\ (~a.ok => task[a.id] = "none")
          BY <1>0, <1>a DEF Born
        <5> QED
          BY <1>0, <3>1, <5>1
      <4>2. \A a, b \in answers : b.id = a.id => b = a
        BY DEF Born
      <4> QED
        BY <2>1, <4>1, <4>2
    <3>13. \A i \in Ids : task'[i] # "none" => Owned(i)'
      BY <2>1, <3>3 DEF Born
    <3> QED
      BY <3>7, <3>10, <3>11, <3>12, <3>13 DEF Born
  <2>3. CASE UNCHANGED <<commands, wire>>
    <3>1. ~Start
      <4> SUFFICES ASSUME Start PROVE FALSE
        OBVIOUS
      <4>1. commands' = Append(commands, [do |-> "run", id |-> minted', n |-> 0]) /\ minted' \in Ids
        BY StartIs
      <4>2. commands \in Seq(Frames) /\ [do |-> "run", id |-> minted', n |-> 0] \in Frames
        BY <4>1, AFrame DEF Queues
      <4>3. Len(commands') = Len(commands) + 1 /\ Len(commands) \in Nat
        BY <4>1, <4>2, AppendIs
      <4> QED
        BY <2>3, <4>3
    <3>2. UNCHANGED <<starting, minted>>
      BY <2>1, <3>1, RevealIs
    <3> QED
      BY <2>1, <2>3, <3>2, SameFrames, QuietLife
  <2> QED
    BY <1>1, <2>2, <2>3, FramesOf
<1>2. CASE Answer
  <2>1. PICK a \in answers :
          /\ answers' = answers \ {a}
          /\ IF a.id # starting
             THEN UNCHANGED <<panels, panel, active, started, starting, listening>>
             ELSE /\ starting' = 0
                  /\ IF a.ok THEN started' = a.id /\ UNCHANGED <<panels, panel, active, listening>>
                             ELSE Release(a.id) /\ UNCHANGED started
    BY <1>2 DEF Answer
  <2>2. UNCHANGED <<commands, wire, spawning, task, minted, abandoned>>
    BY <1>2 DEF Answer, engine, ghosts
  <2>3. Once' /\ \A j : Pending(j)' <=> Pending(j)
    BY <2>2, SameFrames
  <2>4. a.id \in Ids /\ a.id # 0
    BY <1>0, <1>a
  <2>5. ASSUME NEW i \in Ids, Owned(i), Owned(i)' \/ i = a.id
        PROVE  Unborn(i) => Unborn(i)'
    <3>1. Unborn(i) => i # a.id
      BY DEF Unborn
    <3> QED
      BY <2>1, <2>2, <2>5, <3>1 DEF Unborn
  <2>6. \A i \in Ids : Owned(i) => Owned(i)' \/ (i = a.id /\ task[i] = "none")
    <3>1. CASE a.id # starting
      BY <2>1, <2>2, <3>1 DEF Owned
    <3>2. CASE a.id = starting /\ a.ok
      <4>1. started' = starting /\ started = 0
        BY <2>1, <2>4, <3>2 DEF Current
      <4> QED
        BY <1>0, <2>2, <4>1 DEF Owned
    <3>3. CASE a.id = starting /\ ~a.ok
      <4>1. started' = started /\ task[a.id] = "none"
        BY <2>1, <3>3 DEF Born
      <4> QED
        BY <2>2, <3>3, <4>1 DEF Owned
    <3> QED
      BY <3>1, <3>2, <3>3
  <2>7. \A i \in Ids : Unborn(i) => Unborn(i)'
    BY <2>5, <2>6 DEF Unborn
  <2>8. Asked'
    BY <2>2, <2>3, <2>7 DEF Asked, Waits
  <2>9. \A i \in Ids : spawning'.id = i => Unborn(i)'
    BY <1>0, <2>2, <2>7 DEF Born, Identities
  <2>10. \A b \in answers' : /\ b.id <= minted' /\ (~b.ok => task'[b.id] = "none")
                            /\ \A c \in answers' : c.id = b.id => c = b
    BY <2>1, <2>2 DEF Born
  <2>11. \A i \in Ids : task'[i] # "none" => Owned(i)'
    BY <2>2, <2>6 DEF Born
  <2> QED
    BY <2>3, <2>8, <2>9, <2>10, <2>11 DEF Born
<1>3. CASE GivesUp
  <2>1. /\ starting # 0 /\ starting' = 0 /\ abandoned' = abandoned \cup {starting}
        /\ UNCHANGED <<commands, wire, spawning, task, minted, answers, started>>
    BY <1>3 DEF GivesUp, line, engine
  <2>2. Once' /\ \A j : Pending(j)' <=> Pending(j)
    BY <2>1, SameFrames
  <2>3. \A i \in Ids : Owned(i) => Owned(i)'
    BY <2>1 DEF Owned
  <2>4. \A i \in Ids : Unborn(i) => Unborn(i)'
    BY <2>1, <2>3 DEF Unborn
  <2>5. Asked'
    BY <2>1, <2>2, <2>4 DEF Asked, Waits
  <2>6. \A i \in Ids : spawning'.id = i => Unborn(i)'
    BY <1>0, <2>1, <2>4 DEF Born, Identities
  <2> QED
    BY <2>1, <2>2, <2>3, <2>5, <2>6 DEF Born
<1>4. CASE DispatchRun
  <2> DEFINE h == Head(wire).id
  <2>1. Takes1 /\ spawning = Idle
    BY <1>4, FramesOf DEF Takes1
  <2>2. /\ Head(wire).do = "run"
        /\ UNCHANGED <<task, minted, abandoned, starting, started>>
        /\ \/ answers' = answers \cup {[id |-> h, ok |-> FALSE]} /\ spawning' = spawning
           \/ spawning' = [id |-> h, at |-> "marking"] /\ answers' = answers
    BY <1>4 DEF DispatchRun, NextFrame, Answered, view, ghosts
  <2>3. /\ Once' /\ h \in Ids /\ Pending(h)
        /\ \A j \in Ids : Pending(j)' => Pending(j) /\ j # h
    BY <2>1, <2>2, TakenFrame
  <2> HIDE DEF h
  <2>4. Waits(h) /\ spawning.id = 0
    BY <2>1, <2>3 DEF Asked, Idle
  <2>5. \A i : Owned(i)' <=> Owned(i)
    BY <2>2 DEF Owned
  <2>6. ASSUME answers' = answers \cup {[id |-> h, ok |-> FALSE]}, spawning' = spawning
        PROVE  Asked' /\ Born'
    <3> DEFINE r == [id |-> h, ok |-> FALSE]
    <3>1. r.id = h /\ r.ok = FALSE
      OBVIOUS
    <3> HIDE DEF r
    <3>2. answers' = answers \cup {r}
      BY <2>6 DEF r
    <3>3. \A j \in Ids : Waits(j) /\ j # h => Waits(j)'
      BY <2>2, <2>5, <2>6, <3>1, <3>2 DEF Waits, Unborn
    <3>4. Asked'
      BY <2>3, <3>3 DEF Asked
    <3>5. /\ h <= minted /\ task[h] = "none" /\ \A a \in answers : a.id # h
      BY <2>4 DEF Waits, Unborn, Owned
    <3>6. \A a \in answers' : /\ a.id <= minted' /\ (~a.ok => task'[a.id] = "none")
                             /\ \A b \in answers' : b.id = a.id => b = a
      BY <2>2, <3>1, <3>2, <3>5 DEF Born
    <3> QED
      BY <1>0, <2>2, <2>4, <2>5, <2>6, <3>4, <3>6 DEF Born
  <2>7. ASSUME spawning' = [id |-> h, at |-> "marking"], answers' = answers
        PROVE  Asked' /\ Born'
    <3>1. spawning'.id = h
      BY <2>7
    <3>2. \A j : Unborn(j)' <=> Unborn(j)
      BY <2>2, <2>5, <2>7 DEF Unborn
    <3>3. Asked'
      BY <2>3, <3>1, <3>2 DEF Asked, Waits
    <3>4. \A i \in Ids : spawning'.id = i => Unborn(i)'
      BY <2>4, <3>1, <3>2 DEF Waits
    <3> QED
      BY <2>2, <2>5, <2>7, <3>3, <3>4 DEF Born
  <2> QED
    BY <2>2, <2>3, <2>6, <2>7
<1>5. ASSUME NEW i \in Ids, Reported(i) \/ Began(i) PROVE Once' /\ Asked' /\ Born'
  <2>1. PICK ok \in BOOLEAN :
          /\ answers' = answers \cup {[id |-> i, ok |-> ok]}
          /\ ~ok => task' = task
          /\ ok => task' = [task EXCEPT ![i] = "running"]
    BY <1>5 DEF Reported, Began, Answered
  <2>2. /\ spawning = [id |-> i, at |-> "forked"] /\ spawning' = Idle
        /\ UNCHANGED <<commands, wire, minted, abandoned, starting, started>>
    BY <1>5 DEF Reported, Began, view, ghosts
  <2>3. spawning.id = i /\ i # 0 /\ spawning'.id = 0
    BY <1>0, <2>2 DEF Idle
  <2>4. Once' /\ \A j : Pending(j)' <=> Pending(j)
    BY <2>2, SameFrames
  <2>5. Unborn(i)
    BY <2>3 DEF Born
  <2>6. \A j : Owned(j)' <=> Owned(j)
    BY <2>2 DEF Owned
  <2> DEFINE r == [id |-> i, ok |-> ok]
  <2>7. r.id = i /\ r.ok = ok
    OBVIOUS
  <2> HIDE DEF r
  <2>8. answers' = answers \cup {r}
    BY <2>1 DEF r
  <2>9. /\ \A j \in Ids : j # i => task'[j] = task[j]
        /\ ~ok => task'[i] = "none"
    BY <1>0, <2>1, <2>5 DEF Unborn
  <2>10. \A j \in Ids : Waits(j) => Waits(j)'
    <3> TAKE j \in Ids
    <3>1. Waits(j) => j # i
      BY <2>3 DEF Waits
    <3>2. Waits(j) => Unborn(j)'
      BY <2>6, <2>7, <2>8, <2>9, <3>1 DEF Waits, Unborn
    <3>3. j # 0
      BY <1>0
    <3> QED
      BY <2>3, <3>2, <3>3 DEF Waits
  <2>11. Asked'
    BY <2>4, <2>10 DEF Asked
  <2>12. i <= minted /\ \A a \in answers : a.id # i
    BY <2>5 DEF Unborn, Owned
  <2>13. \A a \in answers' : /\ a.id <= minted' /\ (~a.ok => task'[a.id] = "none")
                            /\ \A b \in answers' : b.id = a.id => b = a
    <3>1. \A a \in answers : a.id <= minted' /\ (~a.ok => task'[a.id] = "none")
      BY <1>a, <2>2, <2>9, <2>12 DEF Born
    <3>2. \A a, b \in answers' : b.id = a.id => b = a
      BY <2>7, <2>8, <2>12 DEF Born
    <3> QED
      BY <2>2, <2>7, <2>8, <2>9, <2>12, <3>1, <3>2
  <2>14. \A j \in Ids : task'[j] # "none" => Owned(j)'
    BY <2>5, <2>6, <2>9 DEF Born, Unborn
  <2> QED
    BY <1>0, <2>3, <2>4, <2>11, <2>13, <2>14 DEF Born
<1>6. ASSUME NEW i \in Ids, Exits(i) \/ ReaderEnds(i) PROVE Once' /\ Asked' /\ Born'
  <2>1. /\ task[i] # "none" /\ \/ task' = [task EXCEPT ![i] = "exited"]
                               \/ task' = [task EXCEPT ![i] = "released"]
        /\ UNCHANGED <<commands, wire, minted, abandoned, starting, started, answers, spawning>>
    BY <1>6 DEF Exits, ReaderEnds, view, ghosts, line
  <2>2. Once' /\ \A j : Pending(j)' <=> Pending(j)
    BY <2>1, SameFrames
  <2>3. \A j \in Ids : task'[j] = "none" <=> task[j] = "none"
    BY <1>0, <2>1
  <2>4. \A j \in Ids : (Owned(j)' <=> Owned(j)) /\ (Unborn(j)' <=> Unborn(j))
    BY <2>1, <2>3 DEF Owned, Unborn
  <2>5. Asked'
    BY <2>1, <2>2, <2>4 DEF Asked, Waits
  <2>6. \A j \in Ids : spawning'.id = j => Unborn(j)'
    BY <1>0, <2>1, <2>4 DEF Born, Identities
  <2> QED
    BY <1>a, <2>1, <2>2, <2>3, <2>4, <2>5, <2>6 DEF Born
<1>7. ASSUME \/ ClickCloses \/ Key \/ Resize \/ Effect \/ Imported \/ Route \/ Pass \/ Marked
             \/ DispatchKey \/ DispatchSize \/ Forked \/ ForkedEnds \/ UNCHANGED vars
             \/ \E shell \in Ids : Reads(shell) \/ Prints(shell)
      PROVE  Once' /\ Asked' /\ Born'
  <2>1. /\ UNCHANGED <<answers, task, minted, abandoned, starting, started>>
        /\ spawning'.id = spawning.id
    <3>1. UNCHANGED <<answers, task, minted, abandoned, starting, started>>
      BY <1>7 DEF ClickCloses, Key, Resize, Effect, Imported, Route, Pass, Marked, DispatchKey,
                  DispatchSize, Forked, ForkedEnds, Reads, Prints, vars, view, line, engine, ghosts
    <3>2. spawning' = spawning \/ spawning' = [spawning EXCEPT !.at = "forked"]
      BY <1>7 DEF ClickCloses, Key, Resize, Effect, Imported, Route, Pass, Marked, DispatchKey,
                  DispatchSize, Forked, ForkedEnds, Reads, Prints, vars, engine
    <3> QED
      BY <3>1, <3>2 DEF Shells
  <2>2. CASE Pass
    BY <2>1, <2>2, PassedFrame, QuietLife
  <2>3. CASE Takes1
    BY <2>1, <2>3, TakenFrame, QuietLife
  <2>4. ASSUME NEW do, NEW i, NEW n, Sends(do, i, n), do # "run"
        PROVE  Once' /\ Asked' /\ Born'
    <3>1. Once' /\ \A j : Pending(j)' => Pending(j)
      BY <2>4, SentFrame
    <3> QED
      BY <2>1, <3>1, QuietLife
  <2>5. CASE UNCHANGED <<commands, wire>>
    BY <2>1, <2>5, SameFrames, QuietLife
  <2> QED
    BY <1>7, <2>2, <2>3, <2>4, <2>5, FramesOf DEF Shell
<1> QED
  BY <1>1, <1>2, <1>3, <1>4, <1>5, <1>6, <1>7 DEF Next, Person, Webview, Dispatch, Shell

-----------------------------------------------------------------------------
(* Sizes, of the shells none of whose commands has overtaken another.        *)

LEMMA PassesOne ==
  ASSUME Queues, Pass
  PROVE  \E k \in DOMAIN commands :
           /\ wire' = Append(wire, commands[k]) /\ commands' = RemoveAt(commands, k)
           /\ commands[k] \in Frames /\ commands[k].id \in Ids
           /\ overtaken \subseteq overtaken'
           /\ commands[k].id \notin overtaken' => FirstOf(commands, k)
<1>1. commands \in Seq(Frames)
  BY DEF Queues
<1>2. PICK k \in DOMAIN commands :
        /\ wire' = Append(wire, commands[k]) /\ commands' = RemoveAt(commands, k)
        /\ overtaken' = overtaken \cup (IF Overtakes(k) THEN {commands[k].id} ELSE {})
  BY DEF Pass
<1>3. commands[k] \in Frames /\ commands[k].id \in Ids
  <2>1. commands[k] \in Frames
    BY <1>1, ElementIs
  <2> QED
    BY <2>1 DEF Frames
<1>4. ~Overtakes(k) => FirstOf(commands, k)
  <2>1. k \in Nat /\ \A j \in DOMAIN commands : j < k => j \in 1..(k - 1)
    BY <1>1
  <2> QED
    BY <2>1 DEF Overtakes, FirstOf
<1> QED
  BY <1>2, <1>3, <1>4

LEMMA OvertakenStays ==
  ASSUME Queues, [Next]_vars
  PROVE  overtaken \subseteq overtaken' /\ (overtaken' = overtaken \/ Pass)
<1>1. Pass => overtaken \subseteq overtaken'
  BY PassesOne
<1>2. overtaken' = overtaken \/ Pass
  BY DEF Next, Person, Webview, Dispatch, Shell, Click, ClickCloses, Key, Resize, Effect, Imported,
         Answer, Route, GivesUp, DispatchRun, Marked, DispatchKey, DispatchSize, Began, Reported,
         Forked, ForkedEnds, Reads, Prints, Exits, ReaderEnds, vars, ghosts
<1> QED
  BY <1>1, <1>2

LEMMA OrderStays ==
  ASSUME Dock, Panels, Queues, Shells, Order, Dock', TerminalsAssumption, [Next]_vars
  PROVE  Order'
<1>0. /\ commands \in Seq(Frames) /\ wire \in Seq(Frames)
      /\ minted \in Nat /\ minted' \in Nat /\ minted <= minted'
  BY MintedGrows DEF Queues
<1>1. /\ \A k \in DOMAIN commands : commands[k].id <= minted' /\ commands[k].id <= minted
      /\ \A k \in DOMAIN wire : wire[k].id <= minted' /\ wire[k].id <= minted
  <2>1. \A n : n \in Ids /\ n <= minted => n <= minted'
    BY <1>0 DEF Ids
  <2>2. /\ \A k \in DOMAIN commands : commands[k].id \in Ids
        /\ \A k \in DOMAIN wire : wire[k].id \in Ids
    <3>1. /\ \A k \in DOMAIN commands : commands[k] \in Frames
          /\ \A k \in DOMAIN wire : wire[k] \in Frames
      BY <1>0, ElementIs
    <3> QED
      BY <3>1 DEF Frames
  <2> QED
    BY <2>1, <2>2 DEF Order
<1>2. CASE UNCHANGED <<commands, wire>>
  <2>1. overtaken \subseteq overtaken'
    BY OvertakenStays
  <2>2. \A i \in Ids : InOrder(i)' <=> InOrder(i)
    BY <1>2 DEF InOrder
  <2> QED
    BY <1>1, <1>2, <2>1, <2>2 DEF Order
<1>3. ASSUME NEW do, NEW i, NEW n, Sends(do, i, n), i <= minted', do = "run" => ~(i <= minted)
      PROVE  Order'
  <2> DEFINE f == [do |-> do, id |-> i, n |-> n]
  <2>1. /\ f \in Frames /\ f.do = do /\ f.id = i /\ commands' = Append(commands, f) /\ wire' = wire
    BY <1>3, AFrame DEF Sends
  <2> HIDE DEF f
  <2>2. /\ \A j : RunIn(commands', j) <=> RunIn(commands, j) \/ (do = "run" /\ i = j)
        /\ \A j : RunsFirst(commands, j) /\ (do = "run" /\ i = j => ~SizeIn(commands, j))
                 => RunsFirst(commands', j)
        /\ \A k \in DOMAIN commands' : commands'[k].id <= minted'
    BY <1>0, <1>1, <1>3, <2>1, AppendFrame
  <2>3. do = "run" => ~SizeIn(commands, i) /\ ~SizeIn(wire, i)
    BY <1>1, <1>3 DEF SizeIn
  <2>4. overtaken \subseteq overtaken'
    BY OvertakenStays
  <2>5. ASSUME NEW j \in Ids, InOrder(j) PROVE InOrder(j)'
    BY <2>1, <2>2, <2>3, <2>5 DEF InOrder
  <2> QED
    BY <1>1, <2>1, <2>2, <2>4, <2>5 DEF Order
<1>4. CASE Pass
  <2>1. PICK k \in DOMAIN commands :
          /\ wire' = Append(wire, commands[k]) /\ commands' = RemoveAt(commands, k)
          /\ commands[k] \in Frames /\ commands[k].id \in Ids
          /\ overtaken \subseteq overtaken'
          /\ commands[k].id \notin overtaken' => FirstOf(commands, k)
    BY <1>4, PassesOne
  <2> DEFINE f == commands[k]
  <2>2. /\ \A j \in DOMAIN commands' : \E i \in DOMAIN commands : commands'[j] = commands[i]
        /\ \A i : RunIn(commands, i) <=> RunIn(commands', i) \/ (f.do = "run" /\ f.id = i)
        /\ \A i : RunsFirst(commands, i) =>
             /\ RunsFirst(commands', i)
             /\ f.do = "size" /\ f.id = i /\ FirstOf(commands, k) => ~RunIn(commands', i)
    BY <1>0, <2>1, RemoveFrame
  <2>3. f \in Frames /\ f.id \in Ids /\ f.id <= minted'
    BY <1>1, <2>1
  <2> HIDE DEF f
  <2>4. /\ \A i : SizeIn(wire', i) <=> SizeIn(wire, i) \/ (f.do = "size" /\ f.id = i)
        /\ \A i : RunsFirst(wire, i) /\ (f.do = "run" /\ f.id = i => ~SizeIn(wire, i))
                 => RunsFirst(wire', i)
        /\ \A j \in DOMAIN wire' : wire'[j].id <= minted'
    BY <1>0, <1>1, <2>1, <2>3, AppendFrame DEF f
  <2>5. ASSUME NEW i \in Ids \ overtaken' PROVE InOrder(i)'
    <3>1. RunsFirst(commands, i) /\ RunsFirst(wire, i) /\ ~(RunIn(commands, i) /\ SizeIn(wire, i))
      BY <2>1 DEF Order, InOrder
    <3>2. f.id = i => FirstOf(commands, k)
      BY <2>1 DEF f
    <3>3. RunsFirst(commands', i) /\ RunsFirst(wire', i)
      BY <2>2, <2>4, <3>1
    <3>4. ~(RunIn(commands', i) /\ SizeIn(wire', i))
      BY <2>2, <2>4, <3>1, <3>2
    <3> QED
      BY <3>3, <3>4 DEF InOrder
  <2>6. \A j \in DOMAIN commands' : commands'[j].id <= minted'
    BY <1>1, <2>2
  <2> QED
    BY <2>4, <2>5, <2>6 DEF Order
<1>5. CASE Takes1
  <2> DEFINE f == Head(wire)
  <2>1. wire # <<>> /\ wire' = Tail(wire) /\ commands' = commands
    BY <1>5 DEF Takes1
  <2>2. /\ \A k \in DOMAIN wire' : \E j \in DOMAIN wire : wire'[k] = wire[j]
        /\ \A i : SizeIn(wire, i) <=> SizeIn(wire', i) \/ (f.do = "size" /\ f.id = i)
        /\ \A i : RunsFirst(wire, i) => RunsFirst(wire', i)
    BY <1>0, <2>1, TailFrame
  <2>3. overtaken \subseteq overtaken'
    BY OvertakenStays
  <2>4. ASSUME NEW i \in Ids, InOrder(i) PROVE InOrder(i)'
    BY <2>1, <2>2, <2>4 DEF InOrder
  <2> QED
    BY <1>1, <2>1, <2>2, <2>3, <2>4 DEF Order
<1>6. Click => (Sends("run", minted', 0) /\ minted' <= minted' /\ ~(minted' <= minted))
                  \/ UNCHANGED <<commands, wire>>
  BY <1>0, FramesOf, StartIs
<1>7. mounted' <= minted' /\ listening' <= minted'
  BY <1>0 DEF Dock
<1>8. Key => listening' = listening
  BY DEF Key, effects
<1>9. \/ UNCHANGED <<commands, wire>> \/ Pass \/ Takes1
      \/ \E do, i, n : Sends(do, i, n) /\ i <= minted' /\ (do = "run" => ~(i <= minted))
  BY <1>6, <1>7, <1>8, FramesOf DEF Next, Person, Webview, Dispatch
<1> QED
  BY <1>2, <1>3, <1>4, <1>5, <1>9

\* What is on its way stays on its way, until the last size is taken.
LEMMA WayStays ==
  ASSUME Queues, Order, NEW i \in Ids, i \notin overtaken, i \notin overtaken', fitted' = fitted
  PROVE  /\ UNCHANGED <<commands, wire>> =>
              (OnItsWay(i) => OnItsWay(i)') /\ (Clear(i) => Clear(i)')
         /\ \A do, j, n : Sends(do, j, n) /\ (do = "key" \/ j # i) =>
              (OnItsWay(i) => OnItsWay(i)') /\ (Clear(i) => Clear(i)')
         /\ Pass => (OnItsWay(i) => OnItsWay(i)') /\ (Clear(i) => Clear(i)')
         /\ Takes1 => /\ Clear(i) => Clear(i)' /\ (Head(wire).id = i => Head(wire).do = "key")
                      /\ OnItsWay(i) =>
                           \/ OnItsWay(i)'
                           \/ /\ Head(wire).do = "size" /\ Head(wire).id = i
                              /\ Head(wire).n = fitted /\ Clear(i)'
<1>0. commands \in Seq(Frames) /\ wire \in Seq(Frames)
  BY DEF Queues
<1>1. ASSUME UNCHANGED <<commands, wire>>
      PROVE  (OnItsWay(i) => OnItsWay(i)') /\ (Clear(i) => Clear(i)')
  BY <1>1 DEF OnItsWay, Clear, Pending
<1>2. ASSUME NEW do, NEW j, NEW n, Sends(do, j, n), do = "key" \/ j # i
      PROVE  (OnItsWay(i) => OnItsWay(i)') /\ (Clear(i) => Clear(i)')
  <2> DEFINE f == [do |-> do, id |-> j, n |-> n]
  <2>1. /\ f \in Frames /\ f.do = do /\ f.id = j /\ commands' = Append(commands, f) /\ wire' = wire
    BY <1>2, AFrame DEF Sends
  <2> HIDE DEF f
  <2>2. /\ RunIn(commands', i) <=> RunIn(commands, i)
        /\ SizeIn(commands', i) <=> SizeIn(commands, i)
        /\ LastIn(commands, i, fitted) => LastIn(commands', i, fitted)
    BY <1>0, <1>2, <2>1, AppendFrame
  <2> QED
    BY <2>1, <2>2 DEF OnItsWay, Clear, Pending
<1>3. ASSUME Pass PROVE (OnItsWay(i) => OnItsWay(i)') /\ (Clear(i) => Clear(i)')
  <2>1. PICK k \in DOMAIN commands :
          /\ wire' = Append(wire, commands[k]) /\ commands' = RemoveAt(commands, k)
          /\ commands[k] \in Frames
          /\ commands[k].id \notin overtaken' => FirstOf(commands, k)
    BY <1>3, PassesOne
  <2> DEFINE f == commands[k]
  <2>2. f.id = i => FirstOf(commands, k)
    BY <2>1
  <2>3. /\ RunIn(commands, i) <=> RunIn(commands', i) \/ (f.do = "run" /\ f.id = i)
        /\ SizeIn(commands, i) <=> SizeIn(commands', i) \/ (f.do = "size" /\ f.id = i)
        /\ LastIn(commands, i, fitted) =>
             \/ LastIn(commands', i, fitted)
             \/ f.do = "size" /\ f.id = i /\ f.n = fitted /\ ~SizeIn(commands', i)
    BY <1>0, <2>1, <2>2, RemoveFrame
  <2>4. f \in Frames /\ wire' = Append(wire, f)
    BY <2>1
  <2> HIDE DEF f
  <2>5. /\ RunIn(wire', i) <=> RunIn(wire, i) \/ (f.do = "run" /\ f.id = i)
        /\ SizeIn(wire', i) <=> SizeIn(wire, i) \/ (f.do = "size" /\ f.id = i)
        /\ f.do = "size" => LastIn(wire', f.id, f.n)
        /\ LastIn(wire, i, fitted) /\ ~(f.do = "size" /\ f.id = i) => LastIn(wire', i, fitted)
    BY <1>0, <2>4, AppendFrame
  <2> QED
    BY <2>3, <2>5 DEF OnItsWay, Clear, Pending
<1>4. ASSUME Takes1
      PROVE  /\ Clear(i) => Clear(i)' /\ (Head(wire).id = i => Head(wire).do = "key")
             /\ OnItsWay(i) =>
                  \/ OnItsWay(i)'
                  \/ /\ Head(wire).do = "size" /\ Head(wire).id = i
                     /\ Head(wire).n = fitted /\ Clear(i)'
  <2> DEFINE f == Head(wire)
  <2>1. wire # <<>> /\ wire' = Tail(wire) /\ commands' = commands
    BY <1>4 DEF Takes1
  <2>2. /\ RunIn(wire, i) <=> RunIn(wire', i) \/ (f.do = "run" /\ f.id = i)
        /\ SizeIn(wire, i) <=> SizeIn(wire', i) \/ (f.do = "size" /\ f.id = i)
        /\ RunsFirst(wire, i) => (f.do = "size" /\ f.id = i => ~RunIn(wire', i))
        /\ LastIn(wire, i, fitted) =>
             \/ LastIn(wire', i, fitted)
             \/ f.do = "size" /\ f.id = i /\ f.n = fitted /\ ~SizeIn(wire', i)
    BY <1>0, <2>1, TailFrame
  <2> HIDE DEF f
  <2>3. ~(RunIn(commands, i) /\ SizeIn(wire, i)) /\ RunsFirst(wire, i)
    BY DEF Order, InOrder
  <2>4. Clear(i) => Clear(i)' /\ (f.id = i => f.do = "key")
    <3>1. Head(wire) \in Frames
      BY <2>1, <1>0, TailIs
    <3>2. f.do \in {"run", "key", "size"}
      BY <3>1 DEF f, Frames
    <3> QED
      BY <2>1, <2>2, <3>2 DEF Clear, Pending
  <2>5. ASSUME OnItsWay(i), ~OnItsWay(i)'
        PROVE  f.do = "size" /\ f.id = i /\ f.n = fitted /\ Clear(i)'
    <3>1. ~LastIn(commands, i, fitted) /\ ~LastIn(wire', i, fitted)
      BY <2>1, <2>5 DEF OnItsWay
    <3>2. ~SizeIn(commands, i) /\ LastIn(wire, i, fitted)
      BY <2>5, <3>1 DEF OnItsWay
    <3>3. f.do = "size" /\ f.id = i /\ f.n = fitted /\ ~SizeIn(wire', i)
      BY <2>2, <3>1, <3>2
    <3>4. ~RunIn(wire', i) /\ ~RunIn(commands, i)
      BY <2>2, <2>3, <3>3
    <3> QED
      BY <2>1, <3>2, <3>3, <3>4 DEF Clear, Pending
  <2> QED
    BY <2>4, <2>5 DEF f
<1> QED
  BY <1>1, <1>2, <1>3, <1>4

LEMMA SizesStay ==
  ASSUME Dock, Panels, Queues, Shells, Order, Sizes, Dock', TerminalsAssumption, [Next]_vars
  PROVE  Sizes'
<1>0. /\ listening \in {0, mounted} /\ listening <= minted /\ minted \in Nat
      /\ \A i \in Ids : i \in Nat \ {0}
      /\ task \in [Ids -> {"none", "running", "exited", "released"}] /\ size \in [Ids -> Nat]
      /\ mounted \in Identities /\ spawning.id \in Identities
  <2>1. listening \in {0, mounted} /\ mounted <= minted /\ minted \in Nat
    BY DEF Dock
  <2>2. listening <= minted
    BY <2>1
  <2> QED
    BY <2>1, <2>2 DEF Shells, Dock, Ids
\* A size is sent: it is the one that was fitted, and the last.
<1>1. ASSUME NEW i \in Ids, Sends("size", i, fitted'), listening' = i PROVE Sizes'
  <2> DEFINE f == [do |-> "size", id |-> i, n |-> fitted']
  <2>1. /\ f \in Frames /\ f.do = "size" /\ f.id = i /\ f.n = fitted'
        /\ commands' = Append(commands, f) /\ commands \in Seq(Frames)
    BY <1>1, AFrame DEF Sends, Queues
  <2> HIDE DEF f
  <2>2. LastIn(commands', i, fitted')
    BY <2>1, AppendFrame
  <2> QED
    BY <1>1, <2>2 DEF Sizes, Told, OnItsWay
<1>2. CASE listening' = 0
  BY <1>2 DEF Sizes
\* Whoever listened goes on to, and what was fitted is as it was.
<1>3. ASSUME listening' = listening, listening # 0,
             \A i \in Ids \ overtaken' : listening = i /\ Told(i) => Told(i)'
      PROVE  Sizes'
  <2> SUFFICES ASSUME listening \notin overtaken' PROVE Sizes'
    BY <1>3 DEF Sizes
  <2>0. listening \notin overtaken
    BY OvertakenStays
  <2>1. PICK i \in Ids : i = listening
    BY <1>0, <1>3 DEF Identities
  <2>2. Told(i)
    BY <1>3, <2>0, <2>1 DEF Sizes
  <2>3. Told(i)'
    BY <1>3, <2>1, <2>2
  <2> QED
    BY <1>3, <2>1, <2>3 DEF Sizes
<1>4. ASSUME NEW i \in Ids, Told(i), OnItsWay(i) => OnItsWay(i)', Clear(i) => Clear(i)', fitted' = fitted,
             Settled(i) => /\ spawning'.id # i /\ size'[i] = size[i]
                           /\ task'[i] = "running" => task[i] = "running"
      PROVE  Told(i)'
  BY <1>4 DEF Told, Settled
<1>5. CASE Effect
  <2>1. CASE Sends("size", mounted', fitted') /\ listening' = mounted'
    <3>1. mounted' \in Ids
      BY <2>1 DEF Sends
    <3>2. PICK i \in Ids : i = mounted'
      BY <3>1
    <3> QED
      BY <1>1, <2>1, <3>2
  <2> QED
    BY <1>2, <1>5, <2>1, FramesOf
<1>6. CASE Imported /\ Sends("size", listening', fitted')
  <2>1. listening' \in Ids
    BY <1>6 DEF Sends
  <2>2. PICK i \in Ids : i = listening'
    BY <2>1
  <2> QED
    BY <1>1, <1>6, <2>1, <2>2
<1> DEFINE others == \/ Click \/ ClickCloses \/ Key \/ Resize \/ Answer \/ GivesUp \/ Route \/ Pass \/ Marked
                     \/ DispatchRun \/ DispatchKey \/ DispatchSize \/ Forked \/ ForkedEnds
                     \/ UNCHANGED vars
                     \/ Imported /\ UNCHANGED <<commands, wire, listening, fitted>>
                     \/ \E i \in Ids : Began(i) \/ Reported(i) \/ Shell(i) \/ ReaderEnds(i)
<1>8. ASSUME others, listening' # 0 PROVE listening' = listening /\ fitted' = fitted
  <2>1. ASSUME \/ Click \/ ClickCloses \/ Key \/ Resize \/ Route \/ Pass \/ Marked \/ DispatchRun \/ DispatchKey
               \/ DispatchSize \/ Forked \/ ForkedEnds \/ UNCHANGED vars
        PROVE  UNCHANGED <<listening, fitted>>
    BY <2>1 DEF Click, ClickCloses, Key, Resize, Route, Pass, Marked, DispatchRun, DispatchKey, DispatchSize,
                Forked, ForkedEnds, vars, effects
  <2>2. ASSUME NEW i \in Ids, Began(i) \/ Reported(i) \/ Shell(i) \/ ReaderEnds(i)
        PROVE  UNCHANGED <<listening, fitted>>
    BY <2>2 DEF Began, Reported, Shell, Reads, Prints, Exits, ReaderEnds, effects
  <2>3. ASSUME Answer \/ GivesUp PROVE fitted' = fitted /\ listening' \in {0, listening}
    BY <2>3 DEF Answer, GivesUp, Release
  <2> QED
    BY <1>8, <2>1, <2>2, <2>3
\* What becomes of the frames.
<1>9. ASSUME others, fitted' = fitted, NEW i \in Ids \ overtaken', i \notin overtaken, i <= minted,
              Told(i), ~DispatchSize, ~DispatchRun
      PROVE  (OnItsWay(i) => OnItsWay(i)') /\ (Clear(i) => Clear(i)')
  <2>1. CASE UNCHANGED <<commands, wire>>
    BY <1>9, <2>1, WayStays
  <2>2. CASE Pass
    BY <1>9, <2>2, WayStays
  <2>3. CASE Key
    BY <1>9, <2>3, FramesOf, WayStays
  <2>4. CASE Click
    <3>1. CASE Start /\ Sends("run", minted', 0)
      <4>1. minted' # i
        BY <1>0, <1>9, <3>1, StartIs
      <4> QED
        BY <1>9, <3>1, <4>1, WayStays
    <3> QED
      BY <2>1, <2>4, <3>1, FramesOf
  <2>5. CASE DispatchKey
    <3>1. Takes1 /\ Head(wire).do = "key"
      BY <2>5, FramesOf DEF DispatchKey, NextFrame
    <3> QED
      BY <1>9, <3>1, WayStays
  <2> QED
    BY <1>9, <2>1, <2>2, <2>3, <2>4, <2>5, FramesOf
\* What becomes of the shell.
<1>10. ASSUME others, ~DispatchSize, ~DispatchRun, NEW i \in Ids, Settled(i)
       PROVE  /\ spawning'.id # i /\ size'[i] = size[i]
              /\ task'[i] = "running" => task[i] = "running"
  <2>1. spawning.id # i /\ i # 0
    BY <1>0, <1>10 DEF Settled
  <2>2. CASE UNCHANGED <<spawning, task, size>>
    BY <2>1, <2>2
  <2>3. CASE Marked
    <3>1. spawning' = [spawning EXCEPT !.at = "forked"] /\ UNCHANGED <<task, size>>
      BY <2>3 DEF Marked
    <3>2. spawning'.id = spawning.id
      BY <3>1 DEF Shells
    <3> QED
      BY <2>1, <3>1, <3>2
  <2>4. ASSUME NEW j \in Ids, Began(j) \/ Reported(j)
        PROVE  /\ spawning'.id # i /\ size'[i] = size[i]
               /\ task'[i] = "running" => task[i] = "running"
    <3>1. /\ spawning = [id |-> j, at |-> "forked"] /\ spawning' = Idle /\ size' = size
          /\ task' = task \/ task' = [task EXCEPT ![j] = "running"]
      BY <2>4 DEF Began, Reported
    <3>2. j # i /\ spawning'.id = 0
      BY <2>1, <3>1 DEF Idle
    <3> QED
      BY <1>0, <2>1, <3>1, <3>2
  <2>5. ASSUME NEW j \in Ids, Exits(j) \/ ReaderEnds(j)
        PROVE  /\ spawning'.id # i /\ size'[i] = size[i]
               /\ task'[i] = "running" => task[i] = "running"
    <3>1. /\ UNCHANGED <<spawning, size>>
          /\ \/ task' = [task EXCEPT ![j] = "exited"] \/ task' = [task EXCEPT ![j] = "released"]
      BY <2>5 DEF Exits, ReaderEnds
    <3> QED
      BY <1>0, <2>1, <3>1
  <2>6. ASSUME \/ Click \/ ClickCloses \/ Key \/ Resize \/ Answer \/ GivesUp \/ Route \/ Pass \/ DispatchKey
               \/ Forked \/ ForkedEnds \/ UNCHANGED vars \/ Imported
               \/ \E j \in Ids : Reads(j) \/ Prints(j)
        PROVE  UNCHANGED <<spawning, task, size>>
    BY <2>6 DEF Click, ClickCloses, Key, Resize, Answer, GivesUp, Route, Pass, DispatchKey, Forked, ForkedEnds,
                Imported, Reads, Prints, vars, engine
  <2> QED
    BY <1>10, <2>2, <2>3, <2>4, <2>5, <2>6 DEF Shell
<1>11. ASSUME DispatchRun, NEW i \in Ids \ overtaken', i \notin overtaken, Told(i) PROVE Told(i)'
  <2>1. Takes1 /\ Head(wire).do = "run" /\ fitted' = fitted
    BY <1>11, FramesOf DEF DispatchRun, NextFrame, effects
  <2>2. /\ spawning' = spawning \/ spawning' = [id |-> Head(wire).id, at |-> "marking"]
        /\ UNCHANGED <<task, size>>
    BY <1>11 DEF DispatchRun
  <2>3. /\ OnItsWay(i) => OnItsWay(i)'
        /\ Clear(i) => Clear(i)' /\ Head(wire).id # i
    BY <1>11, <2>1, WayStays
  <2>4. Settled(i) => spawning'.id # i
    BY <2>2, <2>3 DEF Settled
  <2> QED
    BY <1>4, <1>11, <2>1, <2>2, <2>3, <2>4
<1>12. ASSUME DispatchSize, NEW i \in Ids \ overtaken', i \notin overtaken, Told(i) PROVE Told(i)'
  <2> DEFINE f == Head(wire)
  <2>1. /\ Takes1 /\ f.do = "size" /\ fitted' = fitted /\ UNCHANGED <<spawning, task>>
        /\ spawning.id = 0
    BY <1>12, FramesOf DEF DispatchSize, NextFrame, Idle, effects
  <2>2. size' = IF task[f.id] = "running" THEN [size EXCEPT ![f.id] = f.n] ELSE size
    BY <1>12 DEF DispatchSize, Resizes
  <2>3. /\ Clear(i) => Clear(i)' /\ f.id # i
        /\ OnItsWay(i) => OnItsWay(i)' \/ (f.id = i /\ f.n = fitted /\ Clear(i)')
    BY <1>12, <2>1, WayStays
  <2> HIDE DEF f
  <2>4. f.id # i => size'[i] = size[i]
    BY <1>0, <2>2
  <2>5. CASE OnItsWay(i)'
    BY <2>5 DEF Told
  <2>6. CASE f.id = i /\ f.n = fitted /\ Clear(i)'
    <3>1. task[i] = "running" => size'[i] = fitted
      BY <1>0, <2>2, <2>6
    <3>2. Settled(i)'
      BY <1>0, <2>1, <2>6, <3>1 DEF Settled
    <3> QED
      BY <3>2 DEF Told
  <2>7. CASE Settled(i)
    <3>1. Settled(i)'
      BY <2>1, <2>3, <2>4, <2>7 DEF Settled
    <3> QED
      BY <3>1 DEF Told
  <2> QED
    BY <1>12, <2>3, <2>5, <2>6, <2>7 DEF Told
<1>13. ASSUME others, listening' # 0 PROVE Sizes'
  <2>1. listening' = listening /\ fitted' = fitted /\ listening # 0
    BY <1>8, <1>13
  <2>2. ASSUME NEW i \in Ids \ overtaken', listening = i, Told(i) PROVE Told(i)'
    <3>0. i \notin overtaken
      BY OvertakenStays
    <3>1. i <= minted
      BY <1>0, <2>2
    <3>2. CASE ~DispatchSize /\ ~DispatchRun
      <4>1. (OnItsWay(i) => OnItsWay(i)') /\ (Clear(i) => Clear(i)')
        BY <1>9, <1>13, <2>1, <2>2, <3>0, <3>1, <3>2
      <4>2. Settled(i) => /\ spawning'.id # i /\ size'[i] = size[i]
                          /\ task'[i] = "running" => task[i] = "running"
        BY <1>10, <1>13, <3>2
      <4> HIDE DEF others
      <4> QED
        BY <1>4, <2>1, <2>2, <4>1, <4>2
    <3> HIDE DEF others
    <3> QED
      BY <1>11, <1>12, <2>2, <3>0, <3>2
  <2> HIDE DEF others
  <2> QED
    BY <1>3, <2>1, <2>2
<1>14. others \/ Effect \/ (Imported /\ Sends("size", listening', fitted'))
  BY FramesOf DEF Next, Person, Webview, Dispatch
<1> HIDE DEF others
<1> QED
  BY <1>2, <1>5, <1>6, <1>13, <1>14

-----------------------------------------------------------------------------
(* The invariants, and what they say of a state.                             *)

LEMMA NothingIs ==
  ASSUME NEW S, NEW s, s = <<>>
  PROVE  s \in Seq(S) /\ \A k : k \notin DOMAIN s
<1>1. s \in Seq(S) /\ Len(s) = 0
  OBVIOUS
<1>2. DOMAIN s = 1..0
  BY <1>1
<1> QED
  BY <1>1, <1>2

LEMMA Starts ==
  ASSUME Init, TerminalsAssumption
  PROVE  Invariant /\ SizeInvariant
<1>1. panels = <<>> /\ importing = <<>> /\ commands = <<>> /\ wire = <<>> /\ events = <<>>
  BY DEF Init
<1>2. /\ panels \in Seq(Ids) /\ importing \in Seq([id : Ids, mount : Nat])
      /\ commands \in Seq(Frames) /\ wire \in Seq(Frames)
      /\ events \in Seq([id : Ids, chunk : Nat])
  BY <1>1, NothingIs
<1>3. /\ \A k : /\ k \notin DOMAIN panels /\ k \notin DOMAIN importing
                /\ k \notin DOMAIN commands /\ k \notin DOMAIN wire /\ k \notin DOMAIN events
  BY <1>1, NothingIs
<1>4. Dock
  <2>1. /\ active = 0 /\ starting = 0 /\ started = 0 /\ minted = 0 /\ mounted = 0 /\ listening = 0
        /\ mount = 0
    BY DEF Init
  <2>2. 0 \in 0..MaxShells
    BY DEF TerminalsAssumption
  <2> QED
    BY <1>2, <1>3, <2>1, <2>2 DEF Dock, IsInjective, Identities
<1>5. /\ NewPanel \in APanel /\ NewPanel.pending = <<>> /\ NewPanel.shown = <<>>
      /\ ~NewPanel.built /\ panel = [i \in Ids |-> NewPanel]
  <2>1. panel = [i \in Ids |-> NewPanel]
    BY DEF Init
  <2>2. /\ NewPanel \in APanel /\ NewPanel.pending = <<>> /\ NewPanel.shown = <<>>
        /\ ~NewPanel.built
    BY DEF NewPanel, APanel
  <2> QED
    BY <2>1, <2>2
<1>6. Panels
  BY <1>5 DEF Panels
<1>7. Queues
  <2>1. answers = {} /\ steps = 0 /\ window = 0 /\ fitted = 0
    BY DEF Init
  <2> QED
    BY <1>2, <2>1 DEF Queues
<1>8. /\ spawning = [id |-> 0, at |-> "idle"] /\ task = [i \in Ids |-> "none"] /\ held = {}
      /\ abandoned = {} /\ input = [i \in Ids |-> <<>>] /\ got = [i \in Ids |-> <<>>]
      /\ size = [i \in Ids |-> 0]
  BY DEF Init, Idle
<1>9. Shells
  <2>1. <<>> \in Seq(Nat) /\ Len(<<>>) = 0 /\ 0 <= Room
    BY DEF TerminalsAssumption
  <2>2. /\ input \in [Ids -> Seq(Nat)] /\ got \in [Ids -> Seq(Nat)] /\ size \in [Ids -> Nat]
        /\ \A i \in Ids : input[i] = <<>>
    BY <1>8, <2>1
  <2>3. \A i \in Ids : Len(input[i]) <= Room
    BY <2>1, <2>2
  <2> QED
    BY <1>8, <2>2, <2>3 DEF Shells, Identities
<1>10. Current
  BY DEF Current, Init
<1>11. \A i : ~RunIn(commands, i) /\ ~RunIn(wire, i) /\ ~SizeIn(wire, i)
  BY <1>3 DEF RunIn, SizeIn
<1>12. Once /\ Asked
  BY <1>3, <1>11 DEF Once, OneRun, Asked, Pending
<1>13. Born
  <2>1. \A i \in Ids : spawning.id # i /\ task[i] = "none"
    BY <1>8 DEF Ids
  <2>2. answers = {}
    BY DEF Init
  <2> QED
    BY <2>1, <2>2 DEF Born
<1>14. Stream
  <2>1. printed = [i \in Ids |-> 0] /\ delivered = [i \in Ids |-> 0]
    BY DEF Init
  <2> QED
    BY <1>3, <2>1 DEF Stream, Reaches
<1>15. Newest
  BY <1>5 DEF Newest, UpTo
<1>16. Order /\ Sizes
  <2>1. listening = 0
    BY DEF Init
  <2> QED
    BY <1>3, <1>11, <2>1 DEF Order, InOrder, RunsFirst, Sizes
<1> QED
  BY <1>4, <1>6, <1>7, <1>9, <1>10, <1>12, <1>13, <1>14, <1>15, <1>16 DEF Invariant, SizeInvariant

LEMMA GoesOn ==
  ASSUME Invariant, TerminalsAssumption, [Next]_vars
  PROVE  Invariant'
<1>1. Dock /\ Panels /\ Queues /\ Shells /\ Current /\ Once /\ Asked /\ Born /\ Stream /\ Newest
  BY DEF Invariant
<1>2. Dock' /\ Panels' /\ Newest'
  BY <1>1, DockStays, PanelsStay
<1>3. Queues' /\ Shells' /\ Stream'
  BY <1>1, QueuesStay, ShellsStay, StreamStays
<1>4. Current' /\ Once' /\ Asked' /\ Born'
  BY <1>1, CurrentStays, LifeStays
<1> QED
  BY <1>2, <1>3, <1>4 DEF Invariant

LEMMA SizesGoOn ==
  ASSUME Invariant, SizeInvariant, TerminalsAssumption, [Next]_vars
  PROVE  SizeInvariant'
<1>1. Dock /\ Panels /\ Queues /\ Shells /\ Stream /\ Order /\ Sizes
  BY DEF Invariant, SizeInvariant
<1>2. Dock'
  BY <1>1, DockStays
<1> QED
  BY <1>1, <1>2, OrderStays, SizesStay DEF SizeInvariant

LEMMA Types ==
  ASSUME Dock, Panels, Shells
  PROVE  TypeOK
<1>1. ToSet(panels) = {panels[k] : k \in DOMAIN panels}
  BY DEF ToSet
<1>2. ToSet(panels) \subseteq Ids /\ IsInjective(panels)
  BY <1>1, ElementIs DEF Dock
<1>3. active \in ToSet(panels) \cup {0}
  BY <1>1 DEF Dock
<1>4. /\ starting \in Ids \cup {0} /\ started \in Ids \cup {0}
      /\ mounted \in Ids \cup {0} /\ listening \in {0, mounted}
  BY DEF Dock, Identities
<1>5. /\ \A i \in Ids : task[i] \in {"none", "running", "exited", "released"}
      /\ spawning.at \in {"idle", "marking", "forked"}
  BY DEF Shells
<1>6. \A i \in Ids : Len(input[i]) <= Room /\ (panel[i].built => panel[i].pending = <<>>)
  BY DEF Shells, Panels
<1>7. held \subseteq Ids
  BY DEF Shells
<1> QED
  BY <1>2, <1>3, <1>4, <1>5, <1>6, <1>7 DEF TypeOK

\* What runs and was not given up on is what is starting or what is started, and never both.
LEMMA OneCurrent ==
  ASSUME Current, Born
  PROVE  Cardinality({i \in Ids : task[i] # "none"} \ abandoned) <= 1
<1> DEFINE current == IF starting # 0 THEN starting ELSE started
           alive == {i \in Ids : task[i] # "none"} \ abandoned
<1>1. ASSUME NEW i \in alive PROVE i = current
  <2>1. i \in Ids /\ task[i] # "none" /\ i \notin abandoned /\ i # 0
    BY DEF Ids
  <2>2. i = starting \/ i = started
    BY <2>1 DEF Born, Owned
  <2>3. starting # 0 => started = 0
    BY DEF Current
  <2> QED
    BY <2>1, <2>2, <2>3
<1> HIDE DEF current, alive
<1>2. IsFiniteSet({current}) /\ Cardinality({current}) = 1
  BY FS_Singleton
<1>3. alive \in SUBSET {current}
  BY <1>1
<1>4. Cardinality(alive) <= Cardinality({current})
  BY <1>2, <1>3, FS_Subset
<1> QED
  BY <1>2, <1>4 DEF alive

LEMMA NewestShown ==
  ASSUME Dock, Panels, Newest
  PROVE  TheNewestIsShown
<1> SUFFICES ASSUME NEW i \in ToSet(panels), Transcript(i) # <<>>
             PROVE  /\ Last(Transcript(i)) = delivered[i]
                    /\ \A k \in 1..(Len(Transcript(i)) - 1) :
                         Transcript(i)[k + 1] = Transcript(i)[k] + 1
  BY DEF TheNewestIsShown
<1>1. i \in Ids
  BY ElementIs DEF ToSet, Dock
<1>2. panel[i] \in APanel /\ (panel[i].shown = <<>> \/ panel[i].pending = <<>>)
  BY <1>1 DEF Panels
<1>3. panel[i].shown \in Seq(Nat) /\ panel[i].pending \in Seq(Nat)
  BY <1>2 DEF APanel
<1>4. Transcript(i) = panel[i].shown \/ Transcript(i) = panel[i].pending
  <2>1. \A s \in Seq(Nat) : s \o <<>> = s /\ <<>> \o s = s
    OBVIOUS
  <2> QED
    BY <1>2, <1>3, <2>1 DEF Transcript
<1>5. UpTo(Transcript(i), delivered[i])
  BY <1>1, <1>4 DEF Newest
<1> QED
  BY <1>5 DEF UpTo, Last

LEMMA SizesSettled ==
  ASSUME Sizes
  PROVE  SizeSettles
<1> SUFFICES ASSUME NEW i \in Ids \ overtaken, commands = <<>>, wire = <<>>, listening = i,
                    task[i] = "running"
             PROVE  size[i] = fitted
  BY DEF SizeSettles
<1>1. i # 0
  BY DEF Ids
<1>2. Told(i)
  BY <1>1 DEF Sizes
<1>3. ~OnItsWay(i)
  BY DEF OnItsWay, LastIn
<1> QED
  BY <1>2, <1>3 DEF Told, Settled

-----------------------------------------------------------------------------
(* The end of a shell.                                                       *)

About(i) == {k \in DOMAIN events : events[k].id = i}
HasPanel(i) == \E k \in DOMAIN panels : panels[k] = i

\* The end is told once the reader has it, and nothing is told of the shell behind it; once
\* it has arrived, the panel says so for as long as there is one.
EndOf(i) ==
  /\ task[i] # "released" => \A k \in About(i) : events[k].chunk # 0
  /\ \A j, k \in About(i) : j < k => events[j].chunk # 0
  /\ task[i] = "released" =>
       \/ \E k \in About(i) : events[k].chunk = 0
       \/ About(i) = {} /\ (panel[i].ended \/ ~HasPanel(i))
Ends == \A i \in Ids : EndOf(i)

\* Whatever does not arrive leaves a panel as ended as it was, or takes it away; a panel that
\* is new is of a shell that has not come to be.
LEMMA EndedStays ==
  ASSUME Dock, Panels, Queues, Current, Born, [Next]_vars, ~Route, NEW i \in Ids, task[i] = "released",
         panel[i].ended \/ ~HasPanel(i)
  PROVE  panel'[i].ended \/ ~HasPanel(i)'
<1>0. panel \in [Ids -> APanel] /\ minted \in Nat /\ i \in Nat /\ minted + 1 # i
  <2>1. i <= minted
    BY DEF Born, Owned
  <2>2. minted \in Nat /\ i \in Nat
    BY DEF Dock, Ids
  <2> QED
    BY <2>1, <2>2 DEF Panels
<1>1. CASE UNCHANGED <<panel, panels>>
  BY <1>1 DEF HasPanel
<1>2. ASSUME NEW j \in Ids, Release(j) PROVE panel'[i].ended \/ ~HasPanel(i)'
  <2>1. /\ panel' = [panel EXCEPT ![j] = NewPanel]
        /\ \A k \in DOMAIN panels' : \E l \in DOMAIN panels : panels'[k] = panels[l]
    BY <1>2, ReleaseIs
  <2>2. CASE i # j
    BY <1>0, <2>1, <2>2 DEF HasPanel
  <2>3. CASE i = j
    <3>1. panels \in Seq(Ids) /\ \A a, b \in DOMAIN panels : panels[a] = panels[b] => a = b
      BY DEF Dock, IsInjective
    <3>2. CASE ~Contains(panels, i)
      BY <2>1, <3>1, <3>2, ContainsIs DEF HasPanel
    <3>3. CASE Contains(panels, i)
      <4> DEFINE at == CHOOSE k \in DOMAIN panels : panels[k] = i
      <4>1. at \in DOMAIN panels /\ panels[at] = i
        BY <3>1, <3>3, ContainsIs
      <4>2. panels' = RemoveAt(panels, at)
        BY <1>2, <2>3, <3>3 DEF Release
      <4> HIDE DEF at
      <4>3. /\ DOMAIN panels = 1..Len(panels) /\ Len(panels) \in Nat \ {0}
            /\ DOMAIN panels' = 1..(Len(panels) - 1)
            /\ \A k \in 1..(Len(panels) - 1) :
                 panels'[k] = IF k < at THEN panels[k] ELSE panels[k + 1]
        BY <3>1, <4>1, <4>2, RemoveIs
      <4>4. ASSUME NEW k \in DOMAIN panels' PROVE panels'[k] # i
        <5>1. /\ k \in DOMAIN panels /\ k + 1 \in DOMAIN panels /\ k \in Nat /\ at \in Nat
              /\ panels'[k] = IF k < at THEN panels[k] ELSE panels[k + 1]
          BY <4>1, <4>3
        <5>2. k < at => k # at
          BY <5>1
        <5>3. ~(k < at) => k + 1 # at
          BY <5>1
        <5> QED
          BY <3>1, <4>1, <5>1, <5>2, <5>3
      <4> QED
        BY <4>4 DEF HasPanel
    <3> QED
      BY <3>2, <3>3
  <2> QED
    BY <2>2, <2>3
<1>3. ASSUME Start PROVE panel'[i].ended \/ ~HasPanel(i)'
  <2>1. /\ minted' = minted + 1 /\ minted' \in Ids /\ panels' = Append(panels, minted')
        /\ panel' = [panel EXCEPT ![minted'] = NewPanel]
    BY <1>3, StartIs, TerminalsAssumption DEF Start
  <2>2. panel'[i] = panel[i]
    BY <1>0, <2>1
  <2>3. panels \in Seq(Ids)
    BY DEF Dock
  <2>4. /\ DOMAIN panels = 1..Len(panels) /\ Len(panels) \in Nat
        /\ DOMAIN panels' = 1..(Len(panels) + 1) /\ panels'[Len(panels) + 1] = minted'
        /\ \A k \in DOMAIN panels : panels'[k] = panels[k]
    BY <2>1, <2>3, AppendIs
  <2>5. HasPanel(i)' => HasPanel(i)
    BY <1>0, <2>1, <2>4 DEF HasPanel
  <2> QED
    BY <2>2, <2>5
<1>4. ASSUME Imported PROVE panel'[i].ended \/ ~HasPanel(i)'
  <2>1. panel' = panel \/ \E j \in Ids : panel' = [panel EXCEPT ![j] = Built(panel[j])]
    <3>1. importing \in Seq([id : Ids, mount : Nat]) /\ importing # <<>>
      BY <1>4 DEF Imported, Dock
    <3>2. Head(importing) \in [id : Ids, mount : Nat]
      BY <3>1, TailIs
    <3>3. Head(importing).id \in Ids
      BY <3>2
    <3> QED
      BY <1>4, <3>3 DEF Imported
  <2>2. \A j \in Ids : Built(panel[j]).ended = panel[j].ended
    BY <1>0 DEF Built, APanel
  <2>3. panel'[i].ended = panel[i].ended
    BY <1>0, <2>1, <2>2
  <2> QED
    BY <1>4, <2>3 DEF Imported, HasPanel
<1>5. CASE Click
  BY <1>1, <1>3, <1>5 DEF Click, Reveal
<1>6. CASE Answer
  <2>1. PICK a \in answers : Release(a.id) \/ UNCHANGED <<panel, panels>>
    BY <1>6 DEF Answer
  <2>2. a.id \in Ids
    BY DEF Queues
  <2> QED
    BY <1>1, <1>2, <2>1, <2>2
<1>7. CASE GivesUp
  <2>1. starting \in Ids /\ Release(starting)
    BY <1>7 DEF GivesUp, Dock, Identities
  <2> QED
    BY <1>2, <2>1
<1> QED
  BY <1>1, <1>4, <1>5, <1>6, <1>7
  DEF Next, Person, Webview, Dispatch, Shell, ClickCloses, Key, Resize, Effect, Pass, DispatchRun,
      Marked, DispatchKey, DispatchSize, Began, Reported, Forked, ForkedEnds, Reads, Prints, Exits,
      ReaderEnds, vars, view

\* Where neither what is on its way nor a shell's state changes for a shell but by Began or Exits.
LEMMA QuietEnds ==
  ASSUME Dock, Panels, Queues, Shells, Current, Born, [Next]_vars, ~Route, NEW i \in Ids, EndOf(i),
         task'[i] = task[i] \/ (task[i] # "released" /\ task'[i] # "released"),
         About(i)' = About(i), \A k \in About(i) : events'[k] = events[k]
  PROVE  EndOf(i)'
<1>1. task'[i] = "released" => task[i] = "released"
  OBVIOUS
<1>2. ASSUME task[i] = "released", panel[i].ended \/ ~HasPanel(i)
      PROVE  panel'[i].ended \/ ~HasPanel(i)'
  BY <1>2, EndedStays
<1>3. /\ task'[i] # "released" => \A k \in About(i)' : events'[k].chunk # 0
      /\ \A j, k \in About(i)' : j < k => events'[j].chunk # 0
  BY DEF EndOf
<1>4. task'[i] = "released" => \/ \E k \in About(i)' : events'[k].chunk = 0
                               \/ About(i)' = {} /\ (panel'[i].ended \/ ~HasPanel(i)')
  BY <1>1, <1>2 DEF EndOf
<1> QED
  BY <1>3, <1>4 DEF EndOf

\* Something more is told of a shell.
LEMMA ToldOf ==
  ASSUME Queues, NEW i \in Ids, NEW j \in Ids, NEW chunk \in Nat, Tells(j, chunk)
  PROVE  /\ \A k \in About(i) : k \in About(i)' /\ events'[k] = events[k] /\ k <= Len(events)
         /\ Len(events) \in Nat /\ \A k \in About(i) : k \in Nat
         /\ i # j => About(i)' = About(i)
         /\ i = j => /\ About(i)' = About(i) \cup {Len(events) + 1}
                     /\ events'[Len(events) + 1].chunk = chunk
<1>1. /\ DOMAIN events = 1..Len(events) /\ Len(events) \in Nat
      /\ DOMAIN events' = 1..(Len(events) + 1)
      /\ \A k \in DOMAIN events : events'[k] = events[k]
      /\ events'[Len(events) + 1].id = j /\ events'[Len(events) + 1].chunk = chunk
  BY AnEvent
<1>2. \A k \in About(i) : k \in About(i)' /\ events'[k] = events[k] /\ k <= Len(events) /\ k \in Nat
  BY <1>1 DEF About
<1>3. \A k \in About(i)' : k \in About(i) \/ (k = Len(events) + 1 /\ i = j)
  BY <1>1 DEF About
<1>4. i = j => Len(events) + 1 \in About(i)'
  BY <1>1 DEF About
<1> QED
  BY <1>1, <1>2, <1>3, <1>4

\* What becomes of a shell: an end is told by the reader, and nothing is printed behind it.
LEMMA EndsStay ==
  ASSUME Invariant, Ends, [Next]_vars
  PROVE  Ends'
<1> SUFFICES ASSUME NEW i \in Ids PROVE EndOf(i)'
  BY DEF Ends
<1>0. /\ Dock /\ Panels /\ Queues /\ Shells /\ Current /\ Born /\ Stream /\ EndOf(i)
      /\ task \in [Ids -> {"none", "running", "exited", "released"}]
      /\ events \in Seq([id : Ids, chunk : Nat])
  BY DEF Invariant, Ends, Shells, Queues
<1>1. CASE Route
  <2> DEFINE h == Head(events)
  <2>1. /\ h \in [id : Ids, chunk : Nat] /\ h = events[1] /\ 1 \in DOMAIN events
        /\ DOMAIN events = 1..Len(events) /\ Len(events) \in Nat \ {0}
        /\ DOMAIN events' = 1..(Len(events) - 1)
        /\ \A k \in DOMAIN events' : events'[k] = events[k + 1] /\ k + 1 \in DOMAIN events
    BY <1>0, <1>1, TailIs DEF Route
  <2>2. /\ task' = task /\ panels' = WithPanel(h.id)
        /\ panel' = [panel EXCEPT ![h.id] =
                       IF h.chunk = 0 THEN [PanelOf(h.id) EXCEPT !.ended = TRUE]
                                      ELSE Written(PanelOf(h.id), h.chunk)]
    BY <1>1 DEF Route, engine
  <2> HIDE DEF h
  <2>3. h.id \in Ids
    BY <2>1
  <2>4. \A k \in About(i)' : k + 1 \in About(i) /\ events'[k] = events[k + 1] /\ k \in Nat
    BY <2>1 DEF About
  <2>5. \A k \in About(i) : k \in Nat /\ (k # 1 => k - 1 \in About(i)' /\ events'[k - 1] = events[k])
    BY <2>1 DEF About
  <2>6. \A j, k \in About(i)' : j < k => events'[j].chunk # 0
    <3> SUFFICES ASSUME NEW j \in About(i)', NEW k \in About(i)', j < k
                 PROVE  events'[j].chunk # 0
      OBVIOUS
    <3>1. j + 1 \in About(i) /\ k + 1 \in About(i) /\ j + 1 < k + 1 /\ events'[j] = events[j + 1]
      BY <2>4
    <3> QED
      BY <1>0, <3>1 DEF EndOf
  <2>7. task'[i] # "released" => \A k \in About(i)' : events'[k].chunk # 0
    BY <1>0, <2>2, <2>4 DEF EndOf
  <2>8. ASSUME task[i] = "released"
        PROVE  \/ \E k \in About(i)' : events'[k].chunk = 0
               \/ About(i)' = {} /\ (panel'[i].ended \/ ~HasPanel(i)')
    <3>1. ASSUME NEW k \in About(i), events[k].chunk = 0, k # 1
          PROVE  \E m \in About(i)' : events'[m].chunk = 0
      BY <2>5, <3>1
    <3>2. ASSUME 1 \in About(i), events[1].chunk = 0
          PROVE  About(i)' = {} /\ panel'[i].ended
      <4>1. \A k \in About(i)' : FALSE
        <5> SUFFICES ASSUME NEW k \in About(i)' PROVE FALSE
          OBVIOUS
        <5>1. k + 1 \in About(i) /\ 1 < k + 1
          BY <2>1, <2>4 DEF About
        <5> QED
          BY <1>0, <3>2, <5>1 DEF EndOf
      <4>2. h.id = i /\ h.chunk = 0
        BY <2>1, <3>2 DEF About
      <4>3. PanelOf(i) \in APanel
        BY <1>0 DEF PanelOf, Panels, NewPanel, APanel
      <4>4. [PanelOf(i) EXCEPT !.ended = TRUE].ended
        BY <4>3 DEF APanel
      <4>5. panel'[i] = [PanelOf(i) EXCEPT !.ended = TRUE]
        BY <1>0, <2>2, <4>2 DEF Panels
      <4> QED
        BY <4>1, <4>4, <4>5
    <3>3. ASSUME About(i) = {}, panel[i].ended \/ ~HasPanel(i)
          PROVE  About(i)' = {} /\ (panel'[i].ended \/ ~HasPanel(i)')
      <4>1. About(i)' = {}
        BY <2>4, <3>3
      <4>2. h.id # i
        BY <2>1, <3>3 DEF About
      <4>3. panel'[i] = panel[i]
        BY <1>0, <2>2, <4>2 DEF Panels
      <4>4. \A k \in DOMAIN panels' :
              panels'[k] = h.id \/ \E j \in DOMAIN panels : panels'[k] = panels[j]
        BY <1>0, <2>2, <2>3, WithPanelIs
      <4>5. HasPanel(i)' => HasPanel(i)
        BY <4>2, <4>4 DEF HasPanel
      <4> QED
        BY <3>3, <4>1, <4>3, <4>5
    <3> QED
      BY <1>0, <2>8, <3>1, <3>2, <3>3 DEF EndOf
  <2> QED
    BY <2>2, <2>6, <2>7, <2>8 DEF EndOf
<1>2. ASSUME NEW j \in Ids, ReaderEnds(j) PROVE EndOf(i)'
  <2>1. /\ Tells(j, 0) /\ task[j] = "exited" /\ task' = [task EXCEPT ![j] = "released"]
        /\ ~Route
    <3>1. Len(events') # Len(events) - 1
      BY <1>0, <1>2, AppendIs, AnEvent DEF ReaderEnds, Tells
    <3> QED
      BY <1>0, <1>2, <3>1, TailIs DEF ReaderEnds, Tells, Route
  <2>2. CASE i # j
    <3>1. About(i)' = About(i) /\ \A k \in About(i) : events'[k] = events[k]
      BY <1>0, <2>1, <2>2, ToldOf
    <3>2. task'[i] = task[i]
      BY <1>0, <2>1, <2>2
    <3> QED
      BY <1>0, <2>1, <3>1, <3>2, QuietEnds
  <2>3. CASE i = j
    <3> DEFINE n == Len(events)
    <3>1. /\ n \in Nat /\ About(i)' = About(i) \cup {n + 1} /\ events'[n + 1].chunk = 0
          /\ \A k \in About(i) : events'[k] = events[k] /\ k <= n /\ k \in Nat
      BY <1>0, <2>1, <2>3, ToldOf
    <3>2. \A k \in About(i) : events[k].chunk # 0
      BY <1>0, <2>1, <2>3 DEF EndOf
    <3>3. task'[i] = "released"
      BY <1>0, <2>1, <2>3
    <3> HIDE DEF n
    <3>4. \A a, b \in About(i)' : a < b => events'[a].chunk # 0
      BY <3>1, <3>2
    <3> QED
      BY <3>1, <3>3, <3>4 DEF EndOf
  <2> QED
    BY <2>2, <2>3
<1>3. ASSUME NEW j \in Ids, Prints(j) PROVE EndOf(i)'
  <2>1. /\ Tells(j, printed'[j]) /\ task[j] = "running" /\ task' = task
        /\ printed'[j] = printed[j] + 1 /\ printed[j] \in Nat /\ printed' # printed
    BY <1>0, <1>3 DEF Prints, Tells, Stream, engine
  <2>2. ~Route
    BY <2>1 DEF Route
  <2>3. printed'[j] \in Nat /\ printed'[j] # 0
    BY <2>1
  <2>4. CASE i # j
    <3>1. About(i)' = About(i) /\ \A k \in About(i) : events'[k] = events[k]
      BY <1>0, <2>1, <2>3, <2>4, ToldOf
    <3> QED
      BY <1>0, <2>1, <2>2, <3>1, QuietEnds
  <2>5. CASE i = j
    <3> DEFINE n == Len(events)
    <3>1. /\ n \in Nat /\ About(i)' = About(i) \cup {n + 1} /\ events'[n + 1].chunk # 0
          /\ \A k \in About(i) : events'[k] = events[k]
      BY <1>0, <2>1, <2>3, <2>5, ToldOf
    <3>2. \A k \in About(i) : events[k].chunk # 0
      BY <1>0, <2>1, <2>5 DEF EndOf
    <3>3. \A k \in About(i)' : events'[k].chunk # 0
      BY <3>1, <3>2
    <3>4. task'[i] # "released"
      BY <2>1, <2>5
    <3> QED
      BY <3>3, <3>4 DEF EndOf
  <2> QED
    BY <2>4, <2>5
<1>4. ASSUME ~Route, \A j \in Ids : ~ReaderEnds(j) /\ ~Prints(j) PROVE EndOf(i)'
  <2>1. events' = events
    BY <1>4
    DEF Next, Person, Webview, Dispatch, Shell, Click, ClickCloses, Key, Resize, Effect, Imported,
        Answer, GivesUp, Pass, DispatchRun, Marked, DispatchKey, DispatchSize, Began, Reported,
        Forked, ForkedEnds, Reads, Exits, vars, line
  <2>2. \/ task' = task
        \/ \E j \in Ids : Began(j) \/ Exits(j)
    BY <1>4
    DEF Next, Person, Webview, Dispatch, Shell, Click, ClickCloses, Key, Resize, Effect, Imported,
        Answer, GivesUp, Pass, DispatchRun, Marked, DispatchKey, DispatchSize, Reported,
        Forked, ForkedEnds, Reads, vars, engine
  <2>3. ASSUME NEW j \in Ids, Began(j) \/ Exits(j)
        PROVE  task'[i] = task[i] \/ (task[i] # "released" /\ task'[i] # "released")
    <3>1. CASE Began(j)
      <4>1. spawning.id = j /\ task' = [task EXCEPT ![j] = "running"]
        BY <3>1 DEF Began
      <4>2. task[j] = "none"
        BY <1>0, <4>1 DEF Born, Unborn
      <4> QED
        BY <1>0, <4>1, <4>2
    <3>2. CASE Exits(j)
      <4>1. task[j] = "running" /\ task' = [task EXCEPT ![j] = "exited"]
        BY <3>2 DEF Exits
      <4> QED
        BY <1>0, <4>1
    <3> QED
      BY <2>3, <3>1, <3>2
  <2>4. task'[i] = task[i] \/ (task[i] # "released" /\ task'[i] # "released")
    BY <2>2, <2>3
  <2>5. About(i)' = About(i) /\ \A k \in About(i) : events'[k] = events[k]
    BY <2>1 DEF About
  <2> QED
    BY <1>0, <1>4, <2>4, <2>5, QuietEnds
<1> QED
  BY <1>1, <1>2, <1>3, <1>4

-----------------------------------------------------------------------------
(* The theorems.                                                             *)

LEMMA Always ==
  Spec => []Invariant
<1>1. Init => Invariant
  BY Starts, TerminalsAssumption
<1>2. Invariant /\ [Next]_vars => Invariant'
  BY GoesOn, TerminalsAssumption
<1> QED
  BY <1>1, <1>2, PTL DEF Spec

\* One shell at a time, whatever is clicked, answered, refused or given up on: a shell that
\* has come to be, and whose start was not given up on, is the one start.ts waits for or the
\* one it holds, and never is there one of each.
THEOREM OneAtATime ==
  Spec => []OneShell
<1>1. Invariant => OneShell
  <2> SUFFICES ASSUME Invariant PROVE OneShell
    OBVIOUS
  <2>1. TypeOK
    BY Types DEF Invariant
  <2>2. Cardinality({i \in Ids : task[i] # "none"} \ abandoned) <= 1
    BY OneCurrent DEF Invariant
  <2> QED
    BY <2>1, <2>2 DEF OneShell
<1> QED
  BY <1>1, Always, PTL

\* A panel has the last of what arrived for it, in order and without a gap: what is dropped is
\* the oldest, what waits for a terminal is written to it when it is built, and what the engine
\* tells is one unbroken line from the last chunk routed to the last printed.
THEOREM TheLastIsShown ==
  Spec => []TheNewestIsShown
<1>1. Invariant => TheNewestIsShown
  BY NewestShown DEF Invariant
<1> QED
  BY <1>1, Always, PTL

\* Once nothing is on its way, the shell on screen lays out to the size its terminal was fitted to,
\* unless one of its own commands has overtaken another: the last size sent to it is the one that
\* was fitted, and is behind the request to start it.
THEOREM TheSizeSettles ==
  Spec => []SizeSettles
<1>1. Init => Invariant /\ SizeInvariant
  BY Starts, TerminalsAssumption
<1>2. Invariant /\ SizeInvariant /\ [Next]_vars => Invariant' /\ SizeInvariant'
  BY GoesOn, SizesGoOn, TerminalsAssumption
<1>3. SizeInvariant => SizeSettles
  BY SizesSettled DEF SizeInvariant
<1> QED
  BY <1>1, <1>2, <1>3, PTL DEF Spec

\* The end of a shell is not lost between its reader and its panel: once told, it is on its way
\* behind all that was printed, or the panel, if there is one, says so (what EndIsShown rests on;
\* that the reader comes to its end, and that what is told is routed, is left to TLC).
THEOREM NoEndIsLost ==
  Spec => []Ends
<1>1. Init => Ends
  <2> SUFFICES ASSUME Init, NEW i \in Ids PROVE EndOf(i)
    BY DEF Ends
  <2>1. events = <<>> /\ task[i] = "none"
    BY DEF Init
  <2>2. \A k \in About(i) : FALSE
    BY <2>1, NothingIs DEF About
  <2> QED
    BY <2>1, <2>2 DEF EndOf
<1>2. Invariant /\ Ends /\ [Next]_vars => Ends'
  BY EndsStay
<1> QED
  BY <1>1, <1>2, Always, PTL DEF Spec

=============================================================================
