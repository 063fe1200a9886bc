----------------------------- MODULE SessionEngine ----------------------------
(***************************************************************************)
(* One session in the bridge's engine: created, started, restarted and     *)
(* ended (crates/bridge-core/src/engine/host.rs), the cards waiting on the *)
(* user and the input for its agent (engine/phone.rs, session.rs).         *)
(*                                                                         *)
(* The engine is one value, and a handler a function from it to the next;  *)
(* `out` gathers the frames a handler sends to the agent host.             *)
(***************************************************************************)
EXTENDS AgentHost

CONSTANTS
  MaxRestarts,  \* MAX_RESTARTS
  Stops         \* subset of {"close", "shutdown", "crash"}: what ends the session

VARIABLES
  b,        \* the engine
  disk,     \* the session's record in the registry file
  inputs,   \* inputs handled, which numbers them
  interrupts

engineVars == <<b, disk, inputs, interrupts>>

NoRun == [phase |-> "none", start |-> "create", started |-> FALSE, restarts |-> 0,
          turn |-> "idle", queued |-> <<>>, cards |-> <<>>]

Runner(phase, start) == [NoRun EXCEPT !.phase = phase, !.start = start]

Record(state, native, previous) == [state |-> state, native |-> native, previous |-> previous]
Absent == Record("absent", 0, 0)

Idle == [running |-> FALSE, up |-> FALSE, initialized |-> FALSE, install |-> "failed",
         known |-> FALSE, listed |-> FALSE, run |-> NoRun, native |-> 0, previous |-> 0,
         deletes |-> {}, calls |-> {}, stored |-> Absent, told |-> "nothing",
         open |-> {}, out |-> <<>>, refused |-> {}, forgot |-> {}, unmade |-> FALSE]

HasRun(e) == e.run.phase # "none"
Cards(e) == ToSet(e.run.cards)
CardOf(e, r) == CHOOSE c \in Cards(e) : c.req = r
HasCard(e, r) == \E c \in Cards(e) : c.req = r

\* `call` and `reply`: nothing is sent while the host is down.
Send(e, frames) == IF e.up THEN [e EXCEPT !.out = @ \o frames] ELSE e

(***************************************************************************)
(* Cards.  `open` holds the requests whose transcript entry has no         *)
(* `resolved` entry yet.                                                   *)
(***************************************************************************)
WithoutCard(e, r) == SelectSeq(e.run.cards, LAMBDA c : c.req # r)

open_card(e, m) ==
  LET card == [req |-> m.req, host |-> m.id, left |-> 1..m.questions]
      old == IF HasCard(e, m.req) THEN Send(e, <<Outcome(CardOf(e, m.req).host)>>) ELSE e
  IN  [old EXCEPT !.run.cards = Append(WithoutCard(e, m.req), card), !.open = @ \cup {m.req}]

close_card(e, r) ==
  IF HasCard(e, r)
  THEN [Send(e, <<Outcome(CardOf(e, r).host)>>)
          EXCEPT !.run.cards = WithoutCard(e, r), !.open = @ \ {r}]
  ELSE e

cancel_cards(e) ==
  [Send(e, [i \in DOMAIN e.run.cards |-> Outcome(e.run.cards[i].host)])
     EXCEPT !.run.cards = <<>>, !.open = @ \ {c.req : c \in Cards(e)}]

\* Question `i` answered; the card closes with the last one.
answer_question(e, r, i) ==
  LET mine == CardOf(e, r)
      left == mine.left \ {i}
  IN  IF left = {} THEN close_card(e, r)
      ELSE [e EXCEPT !.run.cards = [n \in DOMAIN @ |-> IF @[n] = mine THEN [mine EXCEPT !.left = left] ELSE @[n]]]

Question(c) == c.left # {}

(***************************************************************************)
(* Ending and starting.                                                    *)
(***************************************************************************)

end_session(e) == [cancel_cards(e) EXCEPT !.run = NoRun]
session_died(e) == end_session(e)

fail_creation(e) == [cancel_cards(e) EXCEPT !.run = NoRun, !.known = FALSE, !.told = "failed"]

start_failed(e) ==
  CASE ~ HasRun(e) -> e
    [] e.run.phase = "pending" -> fail_creation(e)
    [] OTHER -> session_died(e)

ResumeTarget(e) == IF e.run.start = "create" THEN 0 ELSE e.native

StartNow(e) ==
  [Send(e, <<StartSession(ResumeTarget(e))>> \o [i \in DOMAIN e.run.queued |-> Prompt(e.run.queued[i])])
     EXCEPT !.run.started = TRUE, !.run.queued = <<>>]

spawn(e) ==
  CASE ~ e.initialized \/ e.install = "installing" -> e
    [] e.install = "failed" -> start_failed(e)
    [] OTHER -> StartNow(e)

SpawnWaiting(e) == IF HasRun(e) /\ ~ e.run.started THEN spawn(e) ELSE e

drop_resume_target(e, lost) ==
  IF lost /\ e.native # 0 THEN [e EXCEPT !.previous = e.native, !.native = 0] ELSE e

\* Mutant: the interrupted turn still counts as running.
RestartedMidTurn(e) == [e EXCEPT !.run.restarts = @ + 1, !.run.start = "restart"]

Restarted(e) == [e EXCEPT !.run.restarts = @ + 1, !.run.start = "restart", !.run.turn = "idle"]

restart_or_end(e, lost) ==
  IF e.run.restarts >= MaxRestarts
  THEN session_died(drop_resume_target(e, lost))
  ELSE spawn(drop_resume_target(cancel_cards(Restarted(e)), lost))

on_agent_ended(e, error, lost) ==
  LET stopped == [e EXCEPT !.run.started = FALSE]
  IN  CASE ~ HasRun(e) -> e
        [] e.run.phase = "pending" -> fail_creation(stopped)
        [] ~ error -> end_session(stopped)
        [] OTHER -> restart_or_end(stopped, lost)

close_runner(e) ==
  [Send(cancel_cards(e), IF e.run.started THEN <<EndSession>> ELSE <<>>) EXCEPT !.run = NoRun]

delete_conversations(e, cs) ==
  IF e.initialized
  THEN [Send(e, SetToSeq({DeleteConversation(c) : c \in cs})) EXCEPT !.calls = @ \cup cs]
  ELSE [e EXCEPT !.deletes = @ \cup cs]

(***************************************************************************)
(* The link to the host.                                                   *)
(***************************************************************************)
on_host_up(e) == Send([e EXCEPT !.up = TRUE, !.initialized = FALSE], <<Initialize>>)

LinkLost(e) == [e EXCEPT !.up = FALSE, !.initialized = FALSE, !.deletes = @ \cup e.calls, !.calls = {}]

on_host_down(e) == IF e.run.started THEN on_agent_ended(LinkLost(e), TRUE, FALSE) ELSE LinkLost(e)

on_initialized(e, fresh) ==
  LET started == SpawnWaiting([e EXCEPT !.install = fresh, !.initialized = TRUE])
  IN  delete_conversations([started EXCEPT !.deletes = {}], started.deletes)

\* Mutant: an install that failed starts nothing, so it fails nothing either.
StartsWhenReady(e, fresh) ==
  LET known == [e EXCEPT !.install = fresh]
  IN  IF e.initialized /\ fresh = "ready" THEN SpawnWaiting(known) ELSE known

on_agent_changed(e, fresh) ==
  LET known == [e EXCEPT !.install = fresh]
  IN  IF e.initialized /\ fresh # "installing" THEN SpawnWaiting(known) ELSE known

(***************************************************************************)
(* Session events; those of a session that is not running are dropped.     *)
(***************************************************************************)
on_ready(e) ==
  IF e.run.phase = "pending"
  THEN [e EXCEPT !.run.phase = "ready", !.listed = TRUE, !.told = "ready"]
  ELSE e

on_turn(e, t) ==
  [e EXCEPT !.run.turn = t,
            !.run.restarts = IF t = "idle" /\ e.run.turn = "running" THEN 0 ELSE @]

on_session_event(e, m) ==
  CASE ~ e.run.started -> e
    [] m.kind = "ready" -> on_ready(e)
    [] m.kind = "info" -> [e EXCEPT !.native = m.conv]
    [] m.kind = "turn" -> on_turn(e, m.state)
    [] m.kind = "ended" -> on_agent_ended(e, m.error, m.lost)

on_host_request(e, m) ==
  IF e.run.started THEN open_card(e, m) ELSE Send(e, <<Outcome(m.id)>>)

\* The reply to a delete is only logged; `refused` are those logged as failed.
on_deleted(e, c, ok) ==
  [e EXCEPT !.calls = @ \ {c}, !.refused = IF ok THEN @ ELSE @ \cup {c}]

on_host_frame(e, m) ==
  CASE m.kind = "initialized" -> on_initialized(e, m.install)
    [] m.kind = "start-error" -> start_failed(e)
    [] m.kind = "deleted" -> on_deleted(e, m.conv, m.ok)
    [] m.kind = "agent-changed" -> on_agent_changed(e, m.install)
    [] m.kind = "ask" -> on_host_request(e, m)
    [] OTHER -> on_session_event(e, m)

(***************************************************************************)
(* What phones ask for.                                                    *)
(***************************************************************************)
on_create_session(e) ==
  IF e.install # "ready"
  THEN [e EXCEPT !.told = "failed"]
  ELSE spawn([e EXCEPT !.told = "pending", !.known = TRUE, !.run = Runner("pending", "create")])

on_close_session(e) ==
  LET closed == [close_runner(e) EXCEPT !.known = FALSE, !.listed = FALSE, !.native = 0, !.previous = 0,
                                        !.open = {}, !.told = "closed"]
  IN  delete_conversations(closed, {e.native, e.previous} \ {0})

\* Input is the answer of the question asked last, when there is one.
send_input(e, i) ==
  LET asking == SelectSeq(e.run.cards, Question)
      mine == asking[Len(asking)]
  IN  CASE ~ HasRun(e) -> e
        [] asking # <<>> -> answer_question(e, mine.req, Min(mine.left))
        [] e.run.started -> Send(e, <<Prompt(i)>>)
        [] OTHER -> [e EXCEPT !.run.queued = Append(@, i)]

interrupt(e) ==
  IF HasRun(e)
  THEN cancel_cards(Send(e, IF e.run.started THEN <<Interrupt>> ELSE <<>>))
  ELSE e

\* What is in memory only goes with the process: deletes that wait for the
\* host (`forgot`) and a creation that was not ready (`unmade`).
Stopped(e) ==
  [e EXCEPT !.running = FALSE, !.forgot = @ \cup e.deletes \cup e.calls,
            !.unmade = @ \/ e.told = "pending"]

shutdown(e) == Stopped(close_runner(e))

\* A start from the registry: listed sessions wait for the host.
start(e) ==
  [Idle EXCEPT !.running = TRUE, !.told = e.told, !.open = e.open, !.stored = disk,
               !.refused = e.refused, !.forgot = e.forgot, !.unmade = e.unmade,
               !.known = (disk.state = "listed"), !.listed = (disk.state = "listed"),
               !.native = disk.native, !.previous = disk.previous,
               !.run = IF disk.state = "listed" THEN Runner("ready", "resume") ELSE NoRun]

\* `flush`: the registry is stored again whenever the session's record changed.
flush(e) ==
  [e EXCEPT !.stored = CASE e.listed -> Record("listed", e.native, e.previous)
                         [] e.told = "closed" -> Record("removed", 0, 0)
                         [] OTHER -> Absent]
===============================================================================
