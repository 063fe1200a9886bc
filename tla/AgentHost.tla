------------------------------ MODULE AgentHost -------------------------------
(***************************************************************************)
(* The agent host process (packages/agent-host/src/host/host.ts) for one   *)
(* session, and the agent its driver runs: what the host does with a frame *)
(* of the bridge, and what the agent may do meanwhile.                     *)
(***************************************************************************)
EXTENDS Naturals, Sequences, FiniteSets, SequencesExt

(***************************************************************************)
(* The two pipes between the bridge and the agent host, and the frames in  *)
(* them.  A reply carries the call it answers: ids only match the two up.  *)
(* Acknowledgements the bridge does nothing with are left out.             *)
(***************************************************************************)
CONSTANTS
  Requests,  \* request ids an agent uses for what it asks the user
  MaxPipe    \* bound: frames waiting in a pipe before the host writes more

VARIABLES
  toHost,    \* frames from the bridge
  toBridge   \* frames from the host

pipes == <<toHost, toBridge>>

Initialize == [kind |-> "initialize"]
StartSession(resume) == [kind |-> "start", resume |-> resume]
Prompt(i) == [kind |-> "prompt", input |-> i]
Interrupt == [kind |-> "interrupt"]
EndSession == [kind |-> "end"]
DeleteConversation(c) == [kind |-> "delete", conv |-> c]
Outcome(id) == [kind |-> "outcome", id |-> id]

Initialized(install) == [kind |-> "initialized", install |-> install]
StartError == [kind |-> "start-error"]
Deleted(c, ok) == [kind |-> "deleted", conv |-> c, ok |-> ok]
AgentChanged(install) == [kind |-> "agent-changed", install |-> install]
Ready == [kind |-> "ready"]
Info(c) == [kind |-> "info", conv |-> c]
Turn(t) == [kind |-> "turn", state |-> t]
Ended(error, lost) == [kind |-> "ended", error |-> error, lost |-> lost]
Ask(id, r, n) == [kind |-> "ask", id |-> id, req |-> r, questions |-> n]

------------------------------------------------------------------------------

CONSTANTS
  Installs,     \* install states the agent takes: of {"ready", "installing", "failed"}
  Scenes,       \* bounds: turns, requests to the user with the sizes of the question
                \* groups asked (0 is a permission or plan card), inputs and
                \* interrupts from the phones
  MaxDeaths,    \* bound: agents that stop by themselves or fail to start
  MaxHostFails  \* bound: host processes that die

VARIABLES
  scene,    \* the one this behaviour plays
  alive,    \* the process runs
  install,  \* the agent's install state
  slot,     \* the session's slot is open: its agent runs
  begun,    \* what the agent has said: "nothing", "ready", "running", "idle"
  conv,     \* the conversation it writes; 0 when none
  convs,    \* conversations started so far
  deleted,  \* conversations deleted
  pending,  \* ids of requests the host waits on
  asked,    \* requests sent so far, which numbers them
  got,      \* inputs that reached an agent, in order
  tries,    \* agents started since one last ran a turn to its end
  turns, deaths, fails

hostVars == <<alive, install, slot, begun, conv, convs, deleted, pending, asked, got, tries, turns, deaths, fails>>

HostInit ==
  /\ scene \in Scenes /\ alive = FALSE /\ install \in Installs /\ slot = FALSE /\ begun = "nothing"
  /\ conv = 0 /\ convs = 0 /\ deleted = {} /\ pending = {} /\ asked = 0 /\ got = <<>>
  /\ tries = 0 /\ turns = 0 /\ deaths = 0 /\ fails = 0

HostTypeOK ==
  /\ alive \in BOOLEAN /\ install \in Installs /\ slot \in BOOLEAN
  /\ begun \in {"nothing", "ready", "running", "idle"}
  /\ conv \in 0..convs /\ deleted \subseteq 1..convs /\ pending \subseteq 1..asked
  /\ {asked, tries, turns, deaths, fails} \subseteq Nat /\ got \in Seq(Nat)

write(frames) == toBridge' = toBridge \o frames
Reads(kind) == alive /\ toHost # <<>> /\ Head(toHost).kind = kind /\ toHost' = Tail(toHost)

(***************************************************************************)
(* handleLine                                                              *)
(***************************************************************************)
OnInitialize ==
  /\ Reads("initialize") /\ write(<<Initialized(install)>>)
  /\ UNCHANGED hostVars

\* startSession: refused when the agent is not installed or the session runs
\* already, or by the driver itself.
OnStart ==
  /\ Reads("start")
  /\ \/ /\ install # "ready" \/ slot
        /\ write(<<StartError>>) /\ UNCHANGED hostVars
     \/ /\ install = "ready" /\ ~ slot /\ deaths < MaxDeaths
        /\ write(<<StartError>>) /\ deaths' = deaths + 1
        /\ UNCHANGED <<alive, install, slot, begun, conv, convs, deleted, pending, asked, got, tries, turns, fails>>
     \/ /\ install = "ready" /\ ~ slot
        /\ slot' = TRUE /\ begun' = "nothing" /\ tries' = tries + 1
        /\ conv' = IF Head(toHost).resume = 0 THEN convs + 1 ELSE Head(toHost).resume
        /\ convs' = IF Head(toHost).resume = 0 THEN convs + 1 ELSE convs
        /\ UNCHANGED <<alive, install, deleted, pending, asked, got, turns, deaths, fails, toBridge>>

OnPrompt ==
  /\ Reads("prompt")
  /\ got' = IF slot THEN Append(got, Head(toHost).input) ELSE got
  /\ UNCHANGED <<alive, install, slot, begun, conv, convs, deleted, pending, asked, tries, turns, deaths, fails, toBridge>>

\* The agent ends its turn when it likes, so an interrupt changes nothing here.
OnInterrupt ==
  /\ Reads("interrupt") /\ UNCHANGED <<hostVars, toBridge>>

OnEnd ==
  /\ Reads("end")
  /\ slot' = FALSE /\ begun' = "nothing" /\ conv' = 0 /\ pending' = {}
  /\ UNCHANGED <<alive, install, convs, deleted, asked, got, tries, turns, deaths, fails, toBridge>>

\* delete-conversation: refused while the session runs, and by an agent that
\* is not installed, which has no driver (Agents.driver).
CanDelete == ~ slot /\ install = "ready"

OnDelete ==
  /\ Reads("delete") /\ write(<<Deleted(Head(toHost).conv, CanDelete)>>)
  /\ deleted' = IF CanDelete THEN deleted \cup {Head(toHost).conv} ELSE deleted
  /\ UNCHANGED <<alive, install, slot, begun, conv, convs, pending, asked, got, tries, turns, deaths, fails>>

OnOutcome ==
  /\ Reads("outcome") /\ pending' = pending \ {Head(toHost).id}
  /\ UNCHANGED <<alive, install, slot, begun, conv, convs, deleted, asked, got, tries, turns, deaths, fails, toBridge>>

(***************************************************************************)
(* The agent, through its driver's context (contextFor, emit, request).    *)
(***************************************************************************)
Room == alive /\ Len(toBridge) < MaxPipe

AgentReady ==
  /\ Room /\ slot /\ begun = "nothing" /\ begun' = "ready"
  /\ write(<<Ready, Info(conv)>>)
  /\ UNCHANGED <<alive, install, slot, conv, convs, deleted, pending, asked, got, tries, turns, deaths, fails, toHost>>

\* An agent may say what it already is: idle as soon as it comes up.
AgentTurn ==
  /\ Room /\ slot /\ begun # "nothing"
  /\ \/ /\ begun # "running" /\ turns < scene.turns
        /\ begun' = "running" /\ turns' = turns + 1 /\ write(<<Turn("running")>>) /\ UNCHANGED tries
     \/ /\ begun = "running"
        /\ begun' = "idle" /\ tries' = 0 /\ write(<<Turn("idle")>>) /\ UNCHANGED turns
     \/ /\ begun = "ready"
        /\ begun' = "idle" /\ write(<<Turn("idle")>>) /\ UNCHANGED <<tries, turns>>
  /\ UNCHANGED <<alive, install, slot, conv, convs, deleted, pending, asked, got, deaths, fails, toHost>>

AgentAsks ==
  /\ Room /\ slot /\ begun # "nothing" /\ asked < scene.asks
  /\ asked' = asked + 1 /\ pending' = pending \cup {asked'}
  /\ \E r \in Requests, n \in scene.questions : write(<<Ask(asked', r, n)>>)
  /\ UNCHANGED <<alive, install, slot, begun, conv, convs, deleted, got, tries, turns, deaths, fails, toHost>>

\* `ended`: the last event of a session, and its requests are cancelled.  An
\* agent that does not find the conversation says so.
AgentEnds ==
  /\ Room /\ slot /\ deaths < MaxDeaths
  /\ \E error, lost \in BOOLEAN :
       /\ lost => error /\ begun = "nothing"
       /\ write(<<Ended(error, lost)>>)
  /\ deaths' = deaths + 1 /\ slot' = FALSE /\ begun' = "nothing" /\ conv' = 0 /\ pending' = {}
  /\ UNCHANGED <<alive, install, convs, deleted, asked, got, tries, turns, fails, toHost>>

\* A removal tells the bridge the agent is gone, then ends its sessions; an
\* install begins, and ends one way or the other.
InstallChanges ==
  /\ Room
  /\ \E i \in Installs :
       /\ <<install, i>> \in {<<"ready", "failed">>, <<"failed", "installing">>,
                             <<"installing", "ready">>, <<"installing", "failed">>}
       /\ install' = i
       /\ write(<<AgentChanged(i)>> \o IF slot THEN <<Ended(TRUE, FALSE)>> ELSE <<>>)
  /\ slot' = FALSE /\ begun' = "nothing" /\ conv' = 0 /\ pending' = {}
  /\ UNCHANGED <<alive, convs, deleted, asked, got, tries, turns, deaths, fails, toHost>>

(***************************************************************************)
(* The process: what it wrote is still read; what it was sent is lost.     *)
(***************************************************************************)
HostGone ==
  /\ alive' = FALSE /\ slot' = FALSE /\ begun' = "nothing" /\ conv' = 0 /\ pending' = {}

HostDies ==
  /\ alive /\ fails < MaxHostFails /\ fails' = fails + 1
  /\ HostGone /\ toHost' = <<>>
  /\ UNCHANGED <<install, convs, deleted, asked, got, tries, turns, deaths, toBridge>>

HostActs ==
  \/ OnInitialize \/ OnStart \/ OnPrompt \/ OnInterrupt \/ OnEnd \/ OnDelete \/ OnOutcome
  \/ AgentReady \/ AgentTurn \/ AgentAsks \/ AgentEnds \/ InstallChanges
===============================================================================
