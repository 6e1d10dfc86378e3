------------------------------ MODULE Terminals ------------------------------
(***************************************************************************)
(* The dock's terminal, from the click that starts a shell to the shell's  *)
(* pseudo-terminal and back: the panels (terminals.svelte.ts, start.ts,    *)
(* engine.ts, TerminalPanel.svelte), the commands and requests between     *)
(* (sink.ts, task_commands.rs, remote_tasks.rs), and how the engine        *)
(* starts, writes to, resizes and reads a task (rpc.rs, use_cases/task.rs, *)
(* pty_runner.rs). The connection is up throughout: TaskService has what   *)
(* becomes of a task's output when it is not, and the stopping of tasks.   *)
(*                                                                         *)
(* A shell is named by the number of its identity; its output is chunks 1, *)
(* 2, ..., keys are numbered as they are typed, and a size is the number   *)
(* of the window's size, 0 being 80 by 24.                                 *)
(***************************************************************************)
EXTENDS Naturals, Sequences, FiniteSets, SequencesExt

CONSTANTS
  MaxShells,     \* bound: identities minted
  MaxSteps,      \* bound: clicks, keys, new sizes of the window, chunks printed, ends
                 \* of shells, and processes forked while descriptors are being made
  PendingMax,    \* PENDING_BYTES, in chunks
  Room           \* keys a pseudo-terminal holds before they are read

\* What is kept for a terminal is at least its newest chunk.
TerminalsAssumption ==
  /\ MaxShells \in Nat /\ MaxSteps \in Nat /\ Room \in Nat /\ PendingMax \in Nat \ {0}
ASSUME TerminalsAssumption

VARIABLES
  panels,        \* Terminals.panels: their identities
  panel,         \* the panel of each
  active,        \* Terminals.active
  started, starting,      \* of start.ts; starting is the identity, 0 for false
  visible, tab,           \* layout.output.visible, dockTab
  mounted,       \* whose effect is alive, 0 for nobody's
  mount,         \* how many effects there have been
  importing,     \* calls of attach that wait for the library: [id, mount]
  listening,     \* whose terminal has its handlers
  window,        \* the size a terminal would fit
  fitted,        \* the size the terminal on screen was fitted to
  commands,      \* commands the webview has sent and the core is at
  wire,          \* frames on their way to the engine
  events,        \* notifications on their way to the webview
  answers,       \* starts that are answered: [id, ok]
  spawning,      \* the dispatching thread is creating a task: [id, at]
  task,          \* what each shell is at
  input, got,    \* keys in the pseudo-terminal; keys the shell has read
  size,          \* the pseudo-terminal's
  held,          \* shells whose descriptors another process of the engine holds
  steps,
  printed, delivered,     \* chunks of each that were printed, and routed
  abandoned,     \* shells whose start was not answered in time
  overtaken,     \* shells one of whose commands arrived before an earlier one
  minted         \* identities handed out

view == <<panels, panel, active, started, starting, visible, tab>>
effects == <<mounted, mount, importing, listening, fitted>>
line == <<commands, wire, events, answers>>
engine == <<spawning, task, input, got, size, held>>
ghosts == <<printed, delivered, abandoned, overtaken, minted>>
vars == <<view, effects, window, line, engine, steps, ghosts>>

Ids == 1..MaxShells
Step == steps < MaxSteps /\ steps' = steps + 1
-----------------------------------------------------------------------------
(* TerminalPanel and Terminals.                                              *)

\* A panel: what waits for a terminal, what its terminal holds, if one is built.
NewPanel == [pending |-> <<>>, shown |-> <<>>, built |-> FALSE, ended |-> FALSE]

\* panel: the existing one, or a new one at the end.
WithPanel(i) == IF Contains(panels, i) THEN panels ELSE Append(panels, i)
PanelOf(i) == IF Contains(panels, i) THEN panel[i] ELSE NewPanel

\* The oldest chunks go, never the last.
Kept_Wrong(chunks) == IF Len(chunks) > PendingMax THEN SubSeq(chunks, 1, PendingMax) ELSE chunks
Kept(chunks) == IF Len(chunks) > PendingMax
                THEN SubSeq(chunks, Len(chunks) - PendingMax + 1, Len(chunks)) ELSE chunks
Written(p, chunk) == IF p.built THEN [p EXCEPT !.shown = Append(@, chunk)]
                                ELSE [p EXCEPT !.pending = Kept(Append(@, chunk))]

\* The terminal is built anew, whether or not another call has built one meanwhile.
Built(p) == [p EXCEPT !.pending = <<>>, !.shown = p.pending, !.built = TRUE]

\* release: what is shown falls back to the first that is left.
Release(i) ==
  LET at == CHOOSE k \in DOMAIN panels : panels[k] = i
      rest == IF Contains(panels, i) THEN RemoveAt(panels, at) ELSE panels
  IN /\ panels' = rest /\ panel' = [panel EXCEPT ![i] = NewPanel]
     /\ active' = IF active # i THEN active ELSE IF rest = <<>> THEN 0 ELSE rest[1]
     /\ listening' = IF listening = i THEN 0 ELSE listening
-----------------------------------------------------------------------------
(* A click on a tab of the dock, and the start of a shell.                   *)

Send(frame) == commands' = Append(commands, frame)
HasTerminal == started # 0 /\ Contains(panels, started)

\* A new identity, with a panel to look at while the shell starts.
Start ==
  /\ minted < MaxShells /\ minted' = minted + 1
  /\ starting' = minted' /\ active' = minted' /\ panels' = Append(panels, minted')
  /\ panel' = [panel EXCEPT ![minted'] = NewPanel]
  /\ Send([do |-> "run", id |-> minted', n |-> 0])

\* revealTerminal, up to the answer. The size is that of a panel nothing has measured.
Reveal_Wrong ==
  IF HasTerminal
  THEN active' = started /\ UNCHANGED <<panels, panel, starting, commands, minted>>
  ELSE Start
Reveal ==
  IF HasTerminal
  THEN active' = started /\ UNCHANGED <<panels, panel, starting, commands, minted>>
  ELSE IF starting # 0
  THEN UNCHANGED <<active, panels, panel, starting, commands, minted>>
  ELSE Start

\* selectDockTab: the current tab of an open dock closes it.
ClickCloses == /\ Step /\ visible /\ visible' = FALSE
               /\ UNCHANGED <<panels, panel, active, started, starting, tab, effects, window,
                              line, engine, ghosts>>
Click == /\ Step /\ tab' = "terminal" /\ visible' = TRUE /\ ~(visible /\ tab = "terminal")
         /\ Reveal
         /\ UNCHANGED <<started, effects, window, wire, events, answers, engine,
                        printed, delivered, abandoned, overtaken>>

\* The start is answered; a refusal, and no answer in time, releases the panel.
Answer ==
  \E a \in answers :
    /\ answers' = answers \ {a}
    /\ IF a.id # starting
       THEN UNCHANGED <<panels, panel, active, started, starting, listening>>
       ELSE /\ starting' = 0
            /\ IF a.ok THEN started' = a.id /\ UNCHANGED <<panels, panel, active, listening>>
                       ELSE Release(a.id) /\ UNCHANGED started
    /\ UNCHANGED <<visible, tab, mounted, mount, importing, fitted, window, commands, wire, events,
                   engine, steps, ghosts>>

GivesUp ==
  /\ starting # 0 /\ starting' = 0 /\ Release(starting)
  /\ abandoned' = abandoned \cup {starting}
  /\ UNCHANGED <<started, visible, tab, mounted, mount, importing, fitted, window, line, engine,
                 steps, printed, delivered, overtaken, minted>>
-----------------------------------------------------------------------------
(* The panel's effect: it is torn down and run again when what the dock      *)
(* shows is another, and attach waits for the library where there is no      *)
(* terminal yet.                                                             *)

Wanted == IF visible THEN active ELSE 0

\* Once attached, the terminal is fitted, the engine told its size, and the handlers are
\* set. Nothing else fits a terminal that has been built.
Fitted(i) == [do |-> "size", id |-> i, n |-> window]
Attached(i) == listening' = i /\ fitted' = window /\ Send(Fitted(i))

Effect ==
  /\ mounted # Wanted /\ mounted' = Wanted /\ mount' = mount + 1
  /\ IF Wanted = 0
     THEN listening' = 0 /\ UNCHANGED <<importing, fitted, commands>>
     ELSE IF panel[Wanted].built
     THEN Attached(Wanted) /\ UNCHANGED importing
     ELSE /\ importing' = Append(importing, [id |-> Wanted, mount |-> mount'])
          /\ listening' = 0 /\ UNCHANGED <<fitted, commands>>
  /\ UNCHANGED <<view, window, wire, events, answers, engine, steps, ghosts>>

\* A call whose effect is gone builds its terminal all the same, and sets no handlers.
\* One for a panel that was released builds it for nobody.
Imported_Wrong ==
  /\ importing # <<>> /\ importing' = Tail(importing)
  /\ LET call == Head(importing)
     IN /\ panel' = IF Contains(panels, call.id)
                    THEN [panel EXCEPT ![call.id] = Built(@)] ELSE panel
        /\ IF call.mount = mount /\ mounted = call.id
           THEN listening' = call.id /\ fitted' = window ELSE UNCHANGED <<listening, fitted>>
  /\ UNCHANGED <<panels, active, started, starting, visible, tab, mounted, mount, window, commands,
                 wire, events, answers, engine, steps, ghosts>>
Imported ==
  /\ importing # <<>> /\ importing' = Tail(importing)
  /\ LET call == Head(importing)
     IN /\ panel' = IF Contains(panels, call.id)
                    THEN [panel EXCEPT ![call.id] = Built(@)] ELSE panel
        /\ IF call.mount = mount /\ mounted = call.id
           THEN Attached(call.id) ELSE UNCHANGED <<listening, fitted, commands>>
  /\ UNCHANGED <<panels, active, started, starting, visible, tab, mounted, mount, window, wire,
                 events, answers, engine, steps, ghosts>>

\* A key, to a terminal whose task is not known to have ended. Keys are numbered by
\* the step that types them.
Key == /\ Step /\ listening # 0 /\ ~panel[listening].ended
       /\ Send([do |-> "key", id |-> listening, n |-> steps'])
       /\ UNCHANGED <<view, effects, window, wire, events, answers, engine, ghosts>>

\* The window or the dock gets another size: no terminal is fitted to it.
Resize == /\ Step /\ window' = steps'
          /\ UNCHANGED <<view, effects, line, engine, ghosts>>
-----------------------------------------------------------------------------
(* What the engine tells of its own accord.                                  *)

\* routeNotification: output shows its panel, an ending only records it.
Route ==
  /\ events # <<>> /\ events' = Tail(events)
  /\ LET e == Head(events)
         p == PanelOf(e.id)
     IN /\ panels' = WithPanel(e.id)
        /\ IF e.chunk = 0
           THEN /\ panel' = [panel EXCEPT ![e.id] = [p EXCEPT !.ended = TRUE]]
                /\ UNCHANGED <<active, delivered>>
           ELSE /\ panel' = [panel EXCEPT ![e.id] = Written(p, e.chunk)]
                /\ active' = e.id /\ delivered' = [delivered EXCEPT ![e.id] = e.chunk]
  /\ UNCHANGED <<started, starting, visible, tab, effects, window, commands, wire, answers, engine,
                 steps, printed, abandoned, overtaken, minted>>
-----------------------------------------------------------------------------
(* The core: every command is a task of its own, which puts its frame on     *)
(* the connection's queue when the runtime comes to it.                      *)

Overtakes(k) == \E j \in 1..(k - 1) : commands[j].id = commands[k].id
Pass == \E k \in DOMAIN commands :
          /\ wire' = Append(wire, commands[k]) /\ commands' = RemoveAt(commands, k)
          /\ overtaken' = overtaken \cup (IF Overtakes(k) THEN {commands[k].id} ELSE {})
          /\ UNCHANGED <<view, effects, window, events, answers, engine, steps, printed, delivered,
                         abandoned, minted>>
-----------------------------------------------------------------------------
(* The engine: one thread dispatches, and waits for a task to have started   *)
(* and for its pseudo-terminal to take the keys.                             *)

Idle == [id |-> 0, at |-> "idle"]
NextFrame(do) == spawning = Idle /\ wire # <<>> /\ Head(wire).do = do
Answered(i, ok) == answers' = answers \cup {[id |-> i, ok |-> ok]}

\* execution/runTask: refused at once where the workspace or the path is, and a pseudo-
\* terminal and a status pipe made otherwise.
DispatchRun ==
  /\ NextFrame("run") /\ wire' = Tail(wire)
  /\ \/ Answered(Head(wire).id, FALSE) /\ UNCHANGED spawning
     \/ spawning' = [id |-> Head(wire).id, at |-> "marking"] /\ UNCHANGED answers
  /\ UNCHANGED <<view, effects, window, commands, events, task, input, got, size, held, steps, ghosts>>

\* A process another thread forks before the descriptors are marked keeps them.
Forked == /\ Step /\ spawning.at = "marking"
          /\ held' = held \cup {spawning.id}
          /\ UNCHANGED <<view, effects, window, line, spawning, task, input, got, size, ghosts>>
ForkedEnds == /\ held # {} /\ held' = {}
              /\ UNCHANGED <<view, effects, window, line, spawning, task, input, got, size, steps, ghosts>>

Marked == /\ spawning.at = "marking" /\ spawning' = [spawning EXCEPT !.at = "forked"]
          /\ UNCHANGED <<view, effects, window, line, task, input, got, size, held, steps,
                         ghosts>>

\* exec_outcome: the child reports why it could not become the command; the status pipe
\* ending without a report is that it has, once nobody holds it.
Reported(i) == /\ spawning = [id |-> i, at |-> "forked"] /\ spawning' = Idle /\ Answered(i, FALSE)
               /\ UNCHANGED <<view, effects, window, commands, wire, events, task, input, got, size,
                              held, steps, ghosts>>
Began(i) == /\ spawning = [id |-> i, at |-> "forked"] /\ i \notin held /\ spawning' = Idle
            /\ Answered(i, TRUE) /\ task' = [task EXCEPT ![i] = "running"]
            /\ UNCHANGED <<view, effects, window, commands, wire, events, input, got, size, held,
                           steps, ghosts>>

\* execution/writeStdin: a task that is gone takes nothing; one that does not read
\* makes everything behind wait. Keys reach it whole.
Takes(i, key) == Len(input[i]) < Room /\ input' = [input EXCEPT ![i] = Append(@, key)]
DispatchKey ==
  /\ NextFrame("key") /\ wire' = Tail(wire)
  /\ IF task[Head(wire).id] = "running"
     THEN Takes(Head(wire).id, Head(wire).n) ELSE UNCHANGED input
  /\ UNCHANGED <<view, effects, window, commands, events, answers, spawning, task, got, size, held,
                 steps, ghosts>>

Resizes(i, n) == size' = [size EXCEPT ![i] = n]
DispatchSize ==
  /\ NextFrame("size") /\ wire' = Tail(wire)
  /\ IF task[Head(wire).id] = "running"
     THEN Resizes(Head(wire).id, Head(wire).n) ELSE UNCHANGED size
  /\ UNCHANGED <<view, effects, window, commands, events, answers, spawning, task, input, got, held,
                 steps, ghosts>>

\* The shell reads, prints and ends. Its reader has the end once nobody holds the
\* terminal, and tells it behind the output.
Reads(i) == /\ task[i] = "running" /\ input[i] # <<>>
            /\ got' = [got EXCEPT ![i] = Append(@, Head(input[i]))]
            /\ input' = [input EXCEPT ![i] = Tail(@)]
            /\ UNCHANGED <<view, effects, window, line, spawning, task, size, held, steps,
                           ghosts>>
Prints(i) == /\ Step /\ task[i] = "running"
             /\ printed' = [printed EXCEPT ![i] = @ + 1]
             /\ events' = Append(events, [id |-> i, chunk |-> printed'[i]])
             /\ UNCHANGED <<view, effects, window, commands, wire, answers, engine, delivered, abandoned,
                            overtaken, minted>>
Exits(i) == /\ Step /\ task[i] = "running" /\ task' = [task EXCEPT ![i] = "exited"]
            /\ UNCHANGED <<view, effects, window, line, spawning, input, got, size, held, ghosts>>
ReaderEnds_Wrong(i) ==
  /\ task[i] = "exited" /\ i \in held /\ task' = [task EXCEPT ![i] = "released"]
  /\ events' = Append(events, [id |-> i, chunk |-> 0])
  /\ UNCHANGED <<view, effects, window, commands, wire, answers, spawning, input, got, size, held,
                 steps, ghosts>>
ReaderEnds(i) ==
  /\ task[i] = "exited" /\ i \notin held /\ task' = [task EXCEPT ![i] = "released"]
  /\ events' = Append(events, [id |-> i, chunk |-> 0])
  /\ UNCHANGED <<view, effects, window, commands, wire, answers, spawning, input, got, size, held,
                 steps, ghosts>>
-----------------------------------------------------------------------------
Init ==
  /\ panels = <<>> /\ panel = [i \in Ids |-> NewPanel] /\ active = 0
  /\ started = 0 /\ starting = 0 /\ visible = TRUE /\ tab = ""
  /\ mounted = 0 /\ mount = 0 /\ importing = <<>> /\ listening = 0
  /\ window = 0 /\ fitted = 0
  /\ commands = <<>> /\ wire = <<>> /\ events = <<>> /\ answers = {}
  /\ spawning = Idle /\ task = [i \in Ids |-> "none"]
  /\ input = [i \in Ids |-> <<>>] /\ got = input /\ size = [i \in Ids |-> 0]
  /\ held = {} /\ steps = 0
  /\ printed = [i \in Ids |-> 0] /\ delivered = printed /\ abandoned = {} /\ overtaken = {}
  /\ minted = 0

Person == Click \/ ClickCloses \/ Key \/ Resize
Webview == Effect \/ Imported \/ Answer \/ Route
Dispatch == \/ DispatchRun \/ Marked \/ DispatchKey \/ DispatchSize
            \/ \E i \in Ids : Began(i) \/ Reported(i)
Shell(i) == Reads(i) \/ Prints(i) \/ Exits(i)

Next == \/ Person \/ Webview \/ GivesUp \/ Pass \/ Dispatch \/ Forked \/ ForkedEnds
        \/ \E i \in Ids : Shell(i) \/ ReaderEnds(i)

\* The webview, the core and the engine go on; a start is answered or given up; a
\* process forked in passing ends. Nothing is assumed of people and shells.
Spec == /\ Init /\ [][Next]_vars
        /\ WF_vars(Webview) /\ WF_vars(GivesUp) /\ WF_vars(Pass) /\ WF_vars(Dispatch)
        /\ WF_vars(ForkedEnds) /\ \A i \in Ids : WF_vars(ReaderEnds(i))
-----------------------------------------------------------------------------
(* Properties.                                                               *)

Transcript(i) == panel[i].shown \o panel[i].pending

\* Types; a panel is listed once and keeps nothing back once its terminal is built.
TypeOK ==
  /\ ToSet(panels) \subseteq Ids /\ IsInjective(panels)
  /\ active \in ToSet(panels) \cup {0} /\ starting \in Ids \cup {0} /\ started \in Ids \cup {0}
  /\ \A i \in Ids : /\ task[i] \in {"none", "running", "exited", "released"}
                    /\ Len(input[i]) <= Room
                    /\ panel[i].built => panel[i].pending = <<>>
  /\ spawning.at \in {"idle", "marking", "forked"}
  /\ held \subseteq Ids /\ mounted \in Ids \cup {0} /\ listening \in {0, mounted}

\* A panel has the last of what arrived for it, in order and without a gap, whether or
\* not it was on screen and however often it was mounted.
TheNewestIsShown ==
  \A i \in ToSet(panels) :
    LET all == Transcript(i)
    IN all # <<>> => /\ Last(all) = delivered[i]
                     /\ \A k \in 1..(Len(all) - 1) : all[k + 1] = all[k] + 1

\* One shell at a time: another is started only when the one before was refused, or its
\* start was given up on. (And the state is as TypeOK has it.)
OneShell == TypeOK /\ Cardinality({i \in Ids : task[i] # "none"} \ abandoned) <= 1

\* With nothing on its way, the shell on screen lays out to the size its terminal was
\* fitted to, whatever was fitted, hidden and shown before. Not so for a shell one of whose
\* commands has overtaken another.
SizeSettles ==
  \A i \in Ids \ overtaken :
    commands = <<>> /\ wire = <<>> /\ importing = <<>> /\ mounted = Wanted /\ listening = i
      /\ task[i] = "running" => size[i] = fitted

\* A shell that has ended says so in its panel, if it has one.
EndIsShown == \A i \in Ids : task[i] = "exited" ~> panel[i].ended \/ ~Contains(panels, i)

\* What terminals.svelte.ts says of hiding the dock and showing it again.
HidingLosesNothing ==
  \A i \in ToSet(panels) : delivered[i] <= PendingMax /\ i \notin abandoned
                             => Len(Transcript(i)) = delivered[i]

\* What the specification of terminals has: when the panel is resized, the process observes
\* the new size.
ResizeIsObserved ==
  \A i \in Ids \ overtaken :
    commands = <<>> /\ wire = <<>> /\ importing = <<>> /\ mounted = Wanted /\ listening = i
      /\ task[i] = "running" => size[i] = window

\* What typing needs: the shell reads what was typed in its terminal in the order it was
\* typed.
KeysInOrder ==
  \A i \in Ids : LET keys == got[i] \o input[i]
                 IN \A k \in 1..(Len(keys) - 1) : keys[k] < keys[k + 1]
=============================================================================
