------------------------------ MODULE SessionLife -----------------------------
(***************************************************************************)
(* A session from its creation to its end: the bridge's engine and the     *)
(* agent host joined by their pipes, either of which may stop, with the    *)
(* supervisor that starts the host again (crates/bridge-runtime/src/       *)
(* host.rs) and phones that ask at any time.                               *)
(***************************************************************************)
EXTENDS AgentHost, SessionEngine

vars == <<scene, pipes, hostVars, engineVars>>

\* The engine handles an input and sends what it gathered.
Handles(e) ==
  /\ b.running
  /\ b' = [flush(e) EXCEPT !.out = <<>>]
  /\ toHost' = IF alive THEN toHost \o e.out ELSE <<>>

Init ==
  /\ HostInit /\ toHost = <<>> /\ toBridge = <<>>
  /\ b = [Idle EXCEPT !.running = TRUE] /\ disk = Absent
  /\ inputs = 0 /\ interrupts = 0

(***************************************************************************)
(* The supervisor.  A new host looks anew for what is installed.  Its      *)
(* frames are read to the end before its exit is reported, and the backoff *)
(* is long enough for the engine to hear of it.                            *)
(***************************************************************************)
HostStarts ==
  /\ ~ alive /\ ~ b.up /\ b.running
  /\ b' = [on_host_up(b) EXCEPT !.out = <<>>]
  /\ toHost' = on_host_up(b).out /\ alive' = TRUE /\ install' \in Installs
  /\ UNCHANGED <<toBridge, slot, begun, conv, convs, deleted, pending, asked, got, tries, turns, deaths, fails,
                 disk, inputs, interrupts>>

HostReportedDown ==
  /\ ~ alive /\ b.up /\ toBridge = <<>>
  /\ Handles(on_host_down(b))
  /\ UNCHANGED <<toBridge, hostVars, disk, inputs, interrupts>>

BridgeReads ==
  /\ toBridge # <<>> /\ Handles(on_host_frame(b, Head(toBridge)))
  /\ toBridge' = Tail(toBridge)
  /\ UNCHANGED <<hostVars, disk, inputs, interrupts>>

CardTimesOut ==
  /\ \E c \in Cards(b) : Handles(close_card(b, c.req))
  /\ UNCHANGED <<toBridge, hostVars, disk, inputs, interrupts>>

(***************************************************************************)
(* Phones.                                                                 *)
(***************************************************************************)
PhoneCreates ==
  /\ b.told = "nothing" /\ Handles(on_create_session(b))
  /\ UNCHANGED <<toBridge, hostVars, disk, inputs, interrupts>>

PhoneCloses ==
  /\ "close" \in Stops /\ b.told \notin {"nothing", "closed"} /\ Handles(on_close_session(b))
  /\ UNCHANGED <<toBridge, hostVars, disk, inputs, interrupts>>

PhoneSends ==
  /\ inputs < scene.inputs /\ inputs' = inputs + 1 /\ b.known
  /\ Handles(send_input(b, inputs'))
  /\ UNCHANGED <<toBridge, hostVars, disk, interrupts>>

PhoneAnswers ==
  /\ \E c \in Cards(b) :
       \/ c.left = {} /\ Handles(close_card(b, c.req))
       \/ \E i \in c.left : Handles(answer_question(b, c.req, i))
  /\ UNCHANGED <<toBridge, hostVars, disk, inputs, interrupts>>

PhoneInterrupts ==
  /\ interrupts < scene.interrupts /\ interrupts' = interrupts + 1 /\ HasRun(b)
  /\ Handles(interrupt(b))
  /\ UNCHANGED <<toBridge, hostVars, disk, inputs>>

(***************************************************************************)
(* The bridge stops, and its host with it; the writer thread.              *)
(***************************************************************************)
WriteRegistry ==
  /\ b.running /\ disk # b.stored /\ disk' = b.stored
  /\ UNCHANGED <<pipes, hostVars, b, inputs, interrupts>>

BridgeShutsDown ==
  /\ "shutdown" \in Stops /\ b.running /\ fails < MaxHostFails
  /\ b' = [shutdown(b) EXCEPT !.out = <<>>] /\ disk' = flush(b).stored
  /\ HostGone /\ fails' = fails + 1 /\ toHost' = <<>> /\ toBridge' = <<>>
  /\ UNCHANGED <<install, convs, deleted, asked, got, tries, turns, deaths, inputs, interrupts>>

BridgeCrashes ==
  /\ "crash" \in Stops /\ b.running /\ fails < MaxHostFails
  /\ b' = Stopped(b)
  /\ HostGone /\ fails' = fails + 1 /\ toHost' = <<>> /\ toBridge' = <<>>
  /\ UNCHANGED <<install, convs, deleted, asked, got, tries, turns, deaths, disk, inputs, interrupts>>

BridgeStarts ==
  /\ ~ b.running /\ b' = start(b) /\ tries' = 0
  /\ UNCHANGED <<pipes, alive, install, slot, begun, conv, convs, deleted, pending, asked, got, turns, deaths, fails,
                 disk, inputs, interrupts>>

EngineActs ==
  \/ BridgeReads \/ HostReportedDown \/ CardTimesOut
  \/ PhoneCreates \/ PhoneCloses \/ PhoneSends \/ PhoneAnswers \/ PhoneInterrupts

Next ==
  /\ \/ HostActs /\ UNCHANGED engineVars
     \/ HostDies /\ UNCHANGED engineVars
     \/ EngineActs
     \/ HostStarts \/ WriteRegistry \/ BridgeShutsDown \/ BridgeCrashes \/ BridgeStarts
  /\ UNCHANGED scene

Spec == Init /\ [][Next]_vars

(***************************************************************************)
(* Fairness: both processes handle what waits in their pipes, the          *)
(* supervisor and the service manager start what stopped, timers fire, and *)
(* a started agent becomes ready or stops.                                 *)
(***************************************************************************)
HostReads == OnInitialize \/ OnStart \/ OnPrompt \/ OnInterrupt \/ OnEnd \/ OnDelete \/ OnOutcome

Fairness ==
  /\ WF_vars(HostReads /\ UNCHANGED <<engineVars, scene>>)
  /\ WF_vars(AgentReady /\ UNCHANGED <<engineVars, scene>>)
  /\ WF_vars(BridgeReads /\ UNCHANGED scene) /\ WF_vars(HostReportedDown /\ UNCHANGED scene)
  /\ WF_vars(HostStarts /\ UNCHANGED scene) /\ WF_vars(BridgeStarts /\ UNCHANGED scene)
  /\ WF_vars(CardTimesOut /\ UNCHANGED scene)
  /\ SF_vars(InstallChanges /\ install = "installing" /\ UNCHANGED <<engineVars, scene>>)

FairSpec == Spec /\ Fairness

(***************************************************************************)
(* The scenes: inputs around a question; a request asked again, beside an  *)
(* input and beside an interrupt; and one of everything, with a turn.      *)
(***************************************************************************)
Scene(turns1, asks, questions, inputs1, interrupts1) ==
  [turns |-> turns1, asks |-> asks, questions |-> questions, inputs |-> inputs1, interrupts |-> interrupts1]

SafeScenes ==
  {Scene(0, 1, {2}, 2, 0), Scene(0, 2, {0, 2}, 1, 0), Scene(0, 2, {0}, 0, 1), Scene(1, 1, {0, 2}, 1, 1)}

LiveScenes == {Scene(0, 1, {0}, 0, 0)}

(***************************************************************************)
(* Properties.                                                             *)
(***************************************************************************)
Quiet == b.running /\ b.up /\ b.initialized /\ alive /\ toHost = <<>> /\ toBridge = <<>>

\* Every variable keeps its type, and a session that does not run has no card.
TypeOK ==
  /\ HostTypeOK
  /\ b.run.phase \in {"none", "pending", "ready"} /\ b.run.restarts \in 0..MaxRestarts
  /\ b.run.queued \in Seq(1..inputs) /\ b.open \subseteq Requests /\ b.out = <<>>
  /\ \A c \in Cards(b) : c.req \in Requests /\ c.host \in 1..asked
  /\ HasRun(b) => b.known
  /\ b.run.started => b.initialized

\* Whenever both pipes are empty, the bridge holds a session for running exactly
\* when its agent runs: no agent is left behind by a close, a restart or a
\* refused start, and none that died is still shown (spawn, close_runner,
\* on_agent_ended, startSession).
RunningAgrees == Quiet => (b.run.started <=> slot)

\* Whenever both pipes are empty, the host waits for an answer exactly to the
\* requests that have a card: no agent waits for ever (open_card, cancel_cards,
\* cancelSessionRequests).
CardsAgree == Quiet => pending = {c.host : c \in Cards(b)}

\* A request in the transcript without its `resolved` entry has a card that can
\* still be answered.
OpenHasCard == b.running => b.open = {c.req : c \in Cards(b)}

Orphans(e) == e.open \ {c.req : c \in Cards(e)}

\* A running bridge never drops a card without its `resolved` entry, its orderly
\* shutdown included; and no card is without its request in the transcript
\* (cancel_cards, end_session, shutdown).
NoneOrphaned ==
  [][b.running => Orphans(b') \subseteq Orphans(b) /\ {c.req : c \in Cards(b)} \subseteq b.open]_vars

\* The agents of one session receive its inputs in the order they were sent and
\* each at most once, restarts and queueing included (send_input, spawn).
InputsInOrder == \A i, j \in DOMAIN got : i < j => got[i] < got[j]

\* No more than MAX_RESTARTS restarts in a row without a turn run to its end: an
\* agent that only reports idle when it comes up does not earn the budget back
\* (restart_or_end, the Turn event).
RestartBudget == tries <= MaxRestarts + 1

\* A delete of a conversation is never refused because its session still runs
\* (on_close_session ends the session first).
DeletesFindNoSession == toHost # <<>> /\ Head(toHost).kind = "delete" => ~ slot

\* A session promised to the phone becomes ready or fails, unless it is closed
\* or the bridge stops before it is ready, which forgets it (on_create_session,
\* start, which takes up the sessions of the registry).
CreationSettles == b.told = "pending" ~> b.told # "pending" \/ b.unmade

\* The comment on on_create_session, "never a session that silently never
\* appears": not so when the bridge stops while a creation is pending.
NeverSilent == b.told = "pending" ~> b.told # "pending"

\* Every card is closed in the end (the card timer).
CardCloses == Cards(b) # {} ~> Cards(b) = {}

\* The conversation of a closed session is deleted in the end, host deaths
\* included, unless its agent is not installed when the host is asked, which
\* the log says, or the bridge stops before (on_close_session, on_host_down).
ConversationDeleted ==
  \A c \in 1..2 : c \in b.deletes \cup b.calls ~> c \in deleted \cup b.refused \cup b.forgot

\* The engine and its host agree on what runs, which cards wait, which restarts
\* are left and what was typed in which order; conversations are deleted only
\* once no session holds them; and no card is dropped without its answer.
SessionsAgree ==
  /\ [](TypeOK /\ RunningAgrees /\ CardsAgree /\ InputsInOrder /\ RestartBudget /\ DeletesFindNoSession)
  /\ NoneOrphaned

\* And what was asked of it comes to an end: a creation, a card, a deletion.
SessionsSettle == CreationSettles /\ CardCloses /\ ConversationDeleted
===============================================================================
