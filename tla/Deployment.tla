------------------------------ MODULE Deployment ------------------------------
(***************************************************************************)
(* Getting a client to an engine: the two phases of connecting and the     *)
(* passphrase between them (connect.rs, askpass/ipc.rs, spawner.rs), then  *)
(* the handshake with the engine that is there, or the deployment of one   *)
(* (bootstrap.rs, deploy/mod.rs) into the directory all clients of the     *)
(* host's developer share.                                                 *)
(*                                                                         *)
(* A release of the engine is one artifact, known by its digest. Its       *)
(* protocol and its version are values of their own: two releases may      *)
(* share either. A version is numbered after a release that has it, and    *)
(* is what an engine says of itself and what its file is named after. A    *)
(* file is what has been written of it where it belongs: what is opened    *)
(* for writing is emptied for whoever writes to it already, and they       *)
(* follow it when it is renamed.                                           *)
(***************************************************************************)
EXTENDS Naturals

CONSTANTS
  Clients,
  Releases,
  Worlds,        \* what each client carries, what the releases are, what the host can
                 \* run, and what is in place at first
  Chunks,        \* CHUNKs of an artifact
  MaxStart,      \* MAX_START_ATTEMPTS
  MaxSteps       \* bound: passphrases typed, and things that go wrong: connections,
                 \* commands and chunks lost, clients killed, engines that do not answer

ASSUME ReleasesAssumption == Releases \subseteq Nat \ {0}
ASSUME WorldsAssumption ==
  Worlds \subseteq [carries : [Clients -> Releases], protocol : [Releases -> Nat],
                    version : [Releases -> Releases], runnable : SUBSET Releases,
                    first : Releases \cup {0}]
ASSUME BoundAssumption == MaxStart \in Nat \ {0} /\ Chunks \in Nat

VARIABLES
  world,         \* one of Worlds, all along
  pc,            \* where each client is
  armed,         \* whether AskpassChannel.armed of each holds a passphrase
  given,         \* how many times the one typed for this attempt was given to ssh
  asked,         \* questions of this attempt
  previous,      \* the version that is replaced, 0 for none
  tries,         \* handshakes with what was deployed
  output,        \* the file each client's cat writes, and how far it is: [to, at]
  staged,        \* .staged-<digest>, of each release: [of, has, shared]
  final,         \* ide-engine-<version>, of each version
  lingering,     \* commands nobody waits for, that the host is still to run
  holder,        \* the release that was last given each version's name
  mixed,         \* versions whose name two releases had, or a file that two wrote
  steps

phase == <<pc, previous, tries>>
secrets == <<armed, given, asked>>
files == <<staged, final, holder, mixed>>
host == <<files, output, lingering>>
deployVars == <<world, phase, secrets, host, steps>>

carries  == world.carries
protocol == world.protocol    \* EngineArtifact.protocol_version
version  == world.version
runnable == world.runnable
Mine(c)  == version[carries[c]]
Whole == 1..Chunks
NoFile == [of |-> 0, has |-> {}, shared |-> FALSE]
Closed == [to |-> "none", at |-> 0]
Step == steps < MaxSteps /\ steps' = steps + 1
Goes(c, to) == pc' = [pc EXCEPT ![c] = to]

Outcomes == {"ready", "refused", "picker", "cancelled", "failed"}
\* What answers to a name, if it runs here.
Starts(v) == final[v].of \in runnable /\ final[v].has = Whole
-----------------------------------------------------------------------------
(* connect: a silent attempt, and one with a passphrase when the credential  *)
(* alone was refused. An attempt has connected when ssh is still there after *)
(* SETTLE; ssh that finds no engine says so.                                 *)

Attempt(c) == /\ pc[c] = "idle" /\ Goes(c, "silent")
              /\ previous' = [previous EXCEPT ![c] = 0] /\ tries' = [tries EXCEPT ![c] = 0]
              /\ UNCHANGED <<secrets, host, world, steps>>

\* The questions of an attempt end with it; what was not asked for stays armed.
SshEnds(c) == given' = [given EXCEPT ![c] = 0] /\ asked' = [asked EXCEPT ![c] = 0]

AttemptEnds(c) ==
  /\ pc[c] \in {"silent", "assisted"} /\ SshEnds(c)
  /\ \/ (\E v \in Releases : final[v] # NoFile) /\ Goes(c, "greeting")
     \/ (\A v \in Releases : final[v] = NoFile) /\ Goes(c, "looking")
     \/ Goes(c, "failed")
  /\ UNCHANGED <<previous, tries, armed, host, world, steps>>

\* may_prompt_for_credential, and whether there is a helper to prompt for.
CredentialRefused(c) ==
  /\ \/ pc[c] = "silent" /\ (Goes(c, "prompting") \/ Goes(c, "picker"))
     \/ pc[c] = "assisted" /\ Goes(c, "picker")
  /\ SshEnds(c) /\ UNCHANGED <<previous, tries, armed, host, world, steps>>

\* What is typed replaces what an attempt that was not asked for it has left.
Arm(c) == armed' = [armed EXCEPT ![c] = 1]

\* The prompt is answered, dismissed, or has nobody to appear to.
Prompted(c) ==
  /\ pc[c] = "prompting"
  /\ \/ Step /\ Goes(c, "assisted") /\ Arm(c)
     \/ (Goes(c, "cancelled") \/ Goes(c, "picker")) /\ UNCHANGED <<armed, steps>>
  /\ UNCHANGED <<previous, tries, given, asked, host, world>>

\* answer: the helper of ssh asks, up to three times, and is given what is armed.
Answered(c) ==
  /\ pc[c] = "assisted" /\ asked[c] < 3 /\ asked' = [asked EXCEPT ![c] = @ + 1]
  /\ given' = [given EXCEPT ![c] = @ + armed[c]] /\ armed' = [armed EXCEPT ![c] = 0]
  /\ UNCHANGED <<phase, host, world, steps>>
-----------------------------------------------------------------------------
(* Bootstrap.                                                                *)

Verdict(theirs, ours) == IF theirs = ours THEN "ready"
                         ELSE IF theirs > ours THEN "refused" ELSE "looking"

\* establish: what answers is an engine that is in place. The client decides: its own
\* protocol is used, an older one replaced, a newer one refused.
Establish(c) ==
  /\ pc[c] = "greeting"
  /\ \/ \E v \in Releases :
          /\ Starts(v)
          /\ LET theirs == protocol[final[v].of]
                 ours == protocol[carries[c]]
             IN  /\ previous' = [previous EXCEPT ![c] = IF theirs < ours THEN v ELSE 0]
                 /\ Goes(c, Verdict(theirs, ours))
     \/ Goes(c, "failed") /\ UNCHANGED previous
  /\ UNCHANGED <<tries, secrets, host, world, steps>>

\* select_artifact: no build for this architecture, or the one that is shipped.
Select(c) == /\ pc[c] = "looking" /\ (Goes(c, "checking") \/ Goes(c, "failed"))
             /\ UNCHANGED <<previous, tries, secrets, host, world, steps>>

\* deploy_then_establish: a bounded number of handshakes with what has its engine's name.
\* replace: what it superseded is retired only if one was completed.
GaveUp_Wrong(c) == Goes(c, IF previous[c] # 0 THEN "retiring" ELSE "failed")
GaveUp(c) == Goes(c, "failed")
Tried_Wrong(c) == UNCHANGED tries
Tried(c) == tries' = [tries EXCEPT ![c] = @ + 1]
Handshake(c) ==
  /\ pc[c] = "starting"
  /\ \/ /\ Starts(Mine(c)) /\ Goes(c, IF previous[c] # 0 THEN "retiring" ELSE "ready")
        /\ UNCHANGED <<tries, steps>>
     \/ /\ Tried(c) /\ IF tries'[c] = MaxStart THEN GaveUp(c) ELSE UNCHANGED pc
        /\ IF Starts(Mine(c)) THEN Step ELSE UNCHANGED steps
  /\ UNCHANGED <<world, previous, secrets, host>>
-----------------------------------------------------------------------------
(* The host's directory.                                                     *)

\* Who writes to a file follows it.
Follow(followers, from, to) ==
  output' = [d \in Clients |-> IF d \in followers /\ output[d].to = from
                               THEN [output[d] EXCEPT !.to = to] ELSE output[d]]
Stagers(r) == {d \in Clients : carries[d] = r}
Named(v)   == {d \in Clients : Mine(d) = v}

\* Somebody sends, compares or renames what is staged, or is still to rename it.
AtWork(r) == \/ \E d \in Stagers(r) : pc[d] \in {"sending", "verifying", "promoting"}
             \/ [at |-> "promoting", what |-> r] \in lingering

\* cat > staged: the file of that name is emptied, or a new one made.
Empty(r) == /\ staged' = [staged EXCEPT ![r] = [of |-> r, has |-> {}, shared |-> AtWork(r)]]
            /\ UNCHANGED <<final, holder, mixed>>

\* mv staged final, of whatever is staged by then and whatever has the name.
Rename(r) ==
  LET v == version[r]
  IN /\ staged' = [staged EXCEPT ![r] = NoFile] /\ final' = [final EXCEPT ![v] = staged[r]]
     /\ output' = [d \in Clients |->
          CASE d \in Named(v) /\ output[d].to = "final" -> [output[d] EXCEPT !.to = "nowhere"]
            [] d \in Stagers(r) /\ output[d].to = "staged" -> [output[d] EXCEPT !.to = "final"]
            [] OTHER -> output[d]]
     /\ holder' = [holder EXCEPT ![v] = r]
     /\ mixed' = IF staged[r].shared \/ holder[v] \notin {0, r} THEN mixed \cup {v} ELSE mixed

\* rm -f
Unstage(r) == /\ staged' = [staged EXCEPT ![r] = NoFile] /\ Follow(Stagers(r), "staged", "nowhere")
              /\ UNCHANGED <<final, holder, mixed>>
Remove(v)  == /\ final' = [final EXCEPT ![v] = NoFile] /\ Follow(Named(v), "final", "nowhere")
              /\ UNCHANGED <<staged, holder, mixed>>

\* The command a client is at, by the client's place and what it is about.
Command(c) == [at |-> pc[c], what |-> IF pc[c] = "retiring" THEN previous[c] ELSE carries[c]]
Changing == {"opening", "promoting", "discarding", "retiring"}
Leaves(c) == \/ UNCHANGED lingering
             \/ pc[c] \in Changing /\ lingering' = lingering \cup {Command(c)}

\* A command whose reply was lost, or whose client was killed, is run after all.
Late == \E m \in lingering :
  /\ lingering' = lingering \ {m}
  /\ \/ m.at = "opening" /\ Empty(m.what) /\ UNCHANGED output
     \/ m.at = "promoting" /\ staged[m.what] # NoFile /\ Rename(m.what)
     \/ m.at = "promoting" /\ staged[m.what] = NoFile /\ UNCHANGED <<files, output>>
     \/ m.at = "discarding" /\ Unstage(m.what)
     \/ m.at = "retiring" /\ Remove(m.what)
  /\ UNCHANGED <<world, phase, secrets, steps>>
-----------------------------------------------------------------------------
(* SshStreamDeployer.deploy: every step is a command of its own on the host, *)
(* and any of them can fail.                                                 *)

\* Is it in place already? Not to be told is as if it were not.
Shipped(c) == final[Mine(c)].of = carries[c] /\ final[Mine(c)].has = Whole
Check(c) == /\ pc[c] = "checking"
            /\ \/ Shipped(c) /\ Goes(c, "starting") /\ UNCHANGED steps
               \/ Shipped(c) /\ Goes(c, "opening") /\ Step
               \/ ~Shipped(c) /\ Goes(c, "opening") /\ UNCHANGED steps
            /\ UNCHANGED <<world, previous, tries, secrets, host>>

Open(c) == /\ pc[c] = "opening" /\ Goes(c, "sending") /\ Empty(carries[c])
           /\ output' = [output EXCEPT ![c] = [to |-> "staged", at |-> 0]]
           /\ UNCHANGED <<world, previous, tries, secrets, lingering, steps>>

\* A chunk is written at this cat's own place in the file, or damaged on the way.
Write(c) ==
  /\ pc[c] = "sending" /\ output[c].at < Chunks
  /\ output' = [output EXCEPT ![c].at = @ + 1]
  /\ \E damaged \in BOOLEAN :
       LET Written(f) == [f EXCEPT !.has = IF damaged THEN @ \ {output'[c].at}
                                                      ELSE @ \cup {output'[c].at}]
       IN  /\ IF damaged THEN Step ELSE UNCHANGED steps
           /\ staged' = IF output[c].to = "staged"
                        THEN [staged EXCEPT ![carries[c]] = Written(@)] ELSE staged
           /\ final' = IF output[c].to = "final"
                       THEN [final EXCEPT ![Mine(c)] = Written(@)] ELSE final
  /\ UNCHANGED <<world, phase, secrets, holder, mixed, lingering>>

Sent(c) == /\ pc[c] = "sending" /\ output[c].at = Chunks /\ Goes(c, "verifying")
           /\ output' = [output EXCEPT ![c] = Closed]
           /\ UNCHANGED <<world, previous, tries, secrets, files, lingering, steps>>

\* What landed is compared with what was shipped; if it differs it is removed.
Intact_Wrong(c) == staged[carries[c]] # NoFile
Intact(c) == staged[carries[c]] # NoFile /\ staged[carries[c]].has = Whole
Verify(c) == /\ pc[c] = "verifying" /\ Goes(c, IF Intact(c) THEN "promoting" ELSE "discarding")
             /\ UNCHANGED <<world, previous, tries, secrets, host, steps>>

\* Whether a removal succeeds is not looked at.
Discard(c) == /\ pc[c] = "discarding" /\ Goes(c, "failed")
              /\ \/ Unstage(carries[c]) /\ UNCHANGED <<lingering, steps>>
                 \/ Leaves(c) /\ Step /\ UNCHANGED <<files, output>>
              /\ UNCHANGED <<world, previous, tries, secrets>>

Promote(c) == /\ pc[c] = "promoting"
              /\ IF staged[carries[c]] = NoFile
                 THEN Goes(c, "failed") /\ UNCHANGED <<files, output>>
                 ELSE Goes(c, "starting") /\ Rename(carries[c])
              /\ UNCHANGED <<world, previous, tries, secrets, lingering, steps>>

\* retire_previous: what has the version's name by now, the client's own engine if that is
\* its version too. Not being able to is not a failure.
Retire(c) == /\ pc[c] = "retiring" /\ Goes(c, "ready")
             /\ \/ Remove(previous[c]) /\ UNCHANGED <<lingering, steps>>
                \/ Leaves(c) /\ Step /\ UNCHANGED <<files, output>>
             /\ UNCHANGED <<world, previous, tries, secrets>>

\* A command is not run, the connection or the reply is lost, the disk is full: what was
\* written stays, and the command may be run yet.
CommandFails(c) ==
  /\ pc[c] \in {"opening", "sending", "verifying", "promoting"} /\ Step /\ Goes(c, "failed")
  /\ output' = [output EXCEPT ![c] = Closed] /\ Leaves(c)
  /\ UNCHANGED <<world, previous, tries, secrets, files>>

\* The client is killed at work, or asked to connect again.
Again(c) == /\ Step /\ pc[c] # "idle" /\ Goes(c, "idle")
            /\ output' = [output EXCEPT ![c] = Closed] /\ Leaves(c)
            /\ armed' = IF pc[c] \in Outcomes THEN armed ELSE [armed EXCEPT ![c] = 0]
            /\ SshEnds(c) /\ UNCHANGED <<world, previous, tries, files>>
-----------------------------------------------------------------------------
Deploying(c) == \/ Select(c) \/ Check(c) \/ Open(c) \/ Write(c) \/ Sent(c) \/ Verify(c)
                \/ Discard(c) \/ Promote(c) \/ Handshake(c) \/ Retire(c)
Connecting(c) == Attempt(c) \/ AttemptEnds(c) \/ CredentialRefused(c) \/ Answered(c)

\* A host where nobody ever deployed, or where one release is in place.
DeployInit ==
  /\ world \in Worlds
  /\ pc = [c \in Clients |-> "idle"] /\ previous = [c \in Clients |-> 0] /\ tries = previous
  /\ armed = previous /\ given = previous /\ asked = previous
  /\ output = [c \in Clients |-> Closed] /\ lingering = {} /\ mixed = {} /\ steps = 0
  /\ staged = [r \in Releases |-> NoFile]
  /\ holder = [v \in Releases |->
                 IF world.first # 0 /\ v = version[world.first] THEN world.first ELSE 0]
  /\ final = [v \in Releases |-> IF holder[v] = 0 THEN NoFile
                                 ELSE [of |-> holder[v], has |-> Whole, shared |-> FALSE]]

DeployNext == \/ \E c \in Clients : \/ Connecting(c) \/ Prompted(c) \/ Establish(c)
                                  \/ Deploying(c)
                                  \/ CommandFails(c) \/ Again(c)
              \/ Late

\* The commands of a deployment end, as TCP and ServerAlive see to.
DeploySpec == /\ DeployInit /\ [][DeployNext]_deployVars
              /\ \A c \in Clients : WF_deployVars(Deploying(c))
-----------------------------------------------------------------------------
(* Properties.                                                               *)

\* Who sends has a file open, and nobody else; a passphrase is given to ssh once, however
\* often it asks.
DeployTypeOK ==
  /\ pc \in [Clients -> Outcomes \cup {"idle", "silent", "prompting", "assisted", "greeting",
                                   "looking", "checking", "opening", "sending", "verifying",
                                   "discarding", "promoting", "starting", "retiring"}]
  /\ \A r \in Releases : staged[r] # NoFile => staged[r].of = r /\ staged[r].has \subseteq Whole
  /\ \A v \in Releases : final[v] # NoFile => version[final[v].of] = v
  /\ lingering \subseteq [at : Changing, what : Releases]
  /\ \A c \in Clients : /\ tries[c] <= MaxStart /\ given[c] <= 1
                        /\ pc[c] = "sending" <=> output[c].to # "none"

\* FR-006 of specs/004: what has an engine's name is all of the engine, at any time: through
\* transfers that break, clients that are killed and commands that are run late. Not so
\* where a file was emptied, to be sent again, while somebody was at work on it.
NothingPartialRuns ==
  DeployTypeOK /\ \A v \in Releases : final[v] # NoFile /\ ~final[v].shared => final[v].has = Whole

\* FR-021b: a host that has an engine that runs has one from then on, whichever releases
\* are deployed to replace it, and whether or not they run there. Not so from when one
\* version's name has been given to two releases, or to a file that was emptied as above.
AnEngineStays ==
  [][(\E v \in Releases : Starts(v)) => (\E v \in Releases : Starts(v)') \/ mixed' # {}]_deployVars

\* A deployment comes to an end, with an engine that never answers too (FR-022).
DeploymentEnds == \A c \in Clients : pc[c] = "checking" ~> pc[c] \in Outcomes \cup {"idle"}
-----------------------------------------------------------------------------
(* What FR-006, FR-021a and FR-021b say without their exceptions, and what   *)
(* they rest on. None of these holds.                                        *)

\* Two clients send one release: what the one has compared is emptied by the other, and
\* then renamed.
NothingPartialEver == \A v \in Releases : final[v] # NoFile => final[v].has = Whole

\* The engine that is replaced is not written over, by one that does not run here either.
AnEngineAlwaysStays ==
  [][(\E v \in Releases : Starts(v)) => (\E v \in Releases : Starts(v)')]_deployVars

\* What a client retires is not its own engine, which has just answered it.
AnotherIsRetired == \A c \in Clients : pc[c] = "retiring" => previous[c] # Mine(c)
=============================================================================
