------------------------------- MODULE Options -------------------------------
(***************************************************************************)
(* The options of one session (mode, effort, model, persona) and its       *)
(* commit mark: what the agent runs with, what the bridge's record says,   *)
(* what a restart starts it with, and what the phone shows.  The phone     *)
(* asks for a change, the agent may refuse it or change its own mode, the  *)
(* host may die with changes in flight, and the bridge's messages may      *)
(* reach the phone late.                                                   *)
(***************************************************************************)
EXTENDS Naturals, Sequences, SequencesExt, TLC

CONSTANTS Values,        \* what an option can be set to
          AgentDefault,  \* what the agent runs with when it is told nothing
          OptionScenes   \* records: the options the phone sets, whether it is there, and bounds on the
                         \* changes it asks for, the agent's own, deaths of the host, commits and heartbeats

VARIABLES
  rec,       \* SessionRecord: each option, "" until known, and `committed`
  run,       \* [started, base]: the session runs in the host; the HEAD it was started on, 0 before it is known
  agent,     \* [up, options]: what the agent really runs with
  toHost,    \* frames in the pipe to the host
  toBridge,  \* frames in the pipe from the host, its end last
  optionCalls,     \* requests waiting for the host's reply
  toPhone,   \* messages on their way to the phone
  shown,     \* [info, rev, list]: the phone's copy, the newest list's rev, and whether it came last
  rev,       \* the rev of the last list published
  gitHead,      \* HEAD in the session's directory
  reads,     \* answers to ReadGitHead on their way
  optionScene, optionsAsked, own, deaths, beats

optionVars == <<rec, run, agent, toHost, toBridge, optionCalls, toPhone, shown, rev, gitHead, reads, optionScene, optionsAsked, own, deaths, beats>>
counts == <<optionScene, optionsAsked, own, deaths, beats>>
SessionOption == {"mode", "effort", "model", "persona"}
\* What an agent says of itself (InfoUpdate): its effort is not in it.
Reported == SessionOption \ {"effort"}
\* What a refused change confirms: the value still in force, of these.
ConfirmedAnyway == {"effort", "model"}
\* A created session has its agent's default mode, and default effort if it has one.
Records0 == [mode : {AgentDefault}, effort : {"", AgentDefault}, model : {""}, persona : {""}, committed : {FALSE}]
SetOption(option, value) == [kind |-> "set", option |-> option, value |-> value]
StartSession == [kind |-> "start", mode |-> rec.mode, effort |-> rec.effort, model |-> rec.model, persona |-> rec.persona]
OptionReply(call, ok) == [kind |-> "reply", call |-> call, ok |-> ok]
InfoUpdate(options) == [kind |-> "info", options |-> options]
Down == [kind |-> "down"]
OptionConfirmed(option, value) == [kind |-> "confirmed", option |-> option, value |-> value]
RemoteSessionInfo(mode, effort, model, persona, committed) ==
  [mode |-> mode, effort |-> effort, model |-> model, persona |-> persona, committed |-> committed]
remote_info(record) == RemoteSessionInfo(record.mode, record.effort, record.model, record.persona, record.committed)
SessionList(n, record) == [kind |-> "list", rev |-> n, info |-> remote_info(record)]

OptionsInit ==
  /\ rec \in Records0 /\ run = [started |-> FALSE, base |-> 0]
  /\ agent = [up |-> FALSE, options |-> [o \in SessionOption |-> AgentDefault]]
  /\ toHost = <<>> /\ toBridge = <<>> /\ optionCalls = {} /\ toPhone = {}
  /\ shown = [info |-> RemoteSessionInfo("", "", "", "", FALSE), rev |-> 0, list |-> FALSE] /\ rev = 0
  /\ gitHead = 1 /\ reads = {}
  /\ optionScene \in OptionScenes /\ optionsAsked = 0 /\ own = 0 /\ deaths = 0 /\ beats = 0

\* spawn: the session starts in the host with what its record says; HEAD is
\* read unless a commit was already seen or it is known.
spawn ==
  /\ ~run.started /\ run' = [run EXCEPT !.started = TRUE]
  /\ toHost' = Append(toHost, StartSession)
  /\ reads' = reads \cup (IF ~rec.committed /\ run.base = 0 THEN {gitHead} ELSE {})
  /\ UNCHANGED <<rec, agent, toBridge, optionCalls, toPhone, shown, rev, gitHead, counts>>

\* The phone asks; what the agent does not offer is refused without a word.
on_set_option(option, value) ==
  /\ option \in optionScene.options /\ optionsAsked < optionScene.sets /\ optionsAsked' = optionsAsked + 1
  /\ LET offered == value \in Values /\ run.started
         call == [n |-> optionsAsked', option |-> option, value |-> value]
     IN IF offered
        THEN optionCalls' = optionCalls \cup {call} /\ toHost' = Append(toHost, SetOption(option, value) @@ [call |-> call])
        ELSE UNCHANGED <<optionCalls, toHost>>
  /\ UNCHANGED <<rec, run, agent, toBridge, toPhone, shown, rev, gitHead, reads, optionScene, own, deaths, beats>>

-----------------------------------------------------------------------------
(* The agent, behind the host (external to the bridge). *)

Told(options) == [o \in SessionOption |-> IF options[o] = "" THEN AgentDefault ELSE options[o]]
\* A started agent runs with what it is told and says what it runs as.
AgentStarts ==
  /\ toHost # <<>> /\ Head(toHost).kind = "start" /\ toHost' = Tail(toHost)
  /\ agent' = [up |-> TRUE, options |-> Told([o \in SessionOption |-> Head(toHost)[o]])]
  /\ toBridge' = Append(toBridge, InfoUpdate([o \in Reported |-> agent'.options[o]]))
  /\ UNCHANGED <<rec, run, optionCalls, toPhone, shown, rev, gitHead, reads, counts>>
AgentSets(ok) ==
  /\ toHost # <<>> /\ Head(toHost).kind = "set" /\ toHost' = Tail(toHost)
  /\ agent' = IF ok THEN [agent EXCEPT !.options[Head(toHost).option] = Head(toHost).value] ELSE agent
  /\ toBridge' = Append(toBridge, OptionReply(Head(toHost).call, ok))
  /\ UNCHANGED <<rec, run, optionCalls, toPhone, shown, rev, gitHead, reads, counts>>
\* It enters plan mode, or a plan's approval switches it.
AgentSwitches(value) ==
  /\ agent.up /\ own < optionScene.own /\ own' = own + 1 /\ value # agent.options["mode"]
  /\ agent' = [agent EXCEPT !.options["mode"] = value]
  /\ toBridge' = Append(toBridge, InfoUpdate([o \in {"mode"} |-> value]))
  /\ UNCHANGED <<rec, run, toHost, optionCalls, toPhone, shown, rev, gitHead, reads, optionScene, optionsAsked, deaths, beats>>
\* The host dies: what it had written is still read, what was sent is lost.
HostDies ==
  /\ run.started /\ Down \notin ToSet(toBridge) /\ deaths < optionScene.deaths /\ deaths' = deaths + 1
  /\ agent' = [agent EXCEPT !.up = FALSE] /\ toHost' = <<>>
  /\ toBridge' = Append(toBridge, Down)
  /\ UNCHANGED <<rec, run, optionCalls, toPhone, shown, rev, gitHead, reads, optionScene, optionsAsked, own, beats>>
Commits == gitHead < optionScene.heads /\ gitHead' = gitHead + 1 /\ UNCHANGED <<rec, run, agent, toHost, toBridge, optionCalls, toPhone, shown, rev, reads, counts>>

-----------------------------------------------------------------------------
(* The bridge reads the host. *)

Reads == toBridge # <<>> /\ toBridge' = Tail(toBridge)
\* publish_all, and flush after it: a changed record goes out in a new list.
Out(messages) == toPhone' = IF optionScene.present THEN toPhone \cup messages ELSE {}
Confirms(options, value) == {OptionConfirmed(o, value[o]) : o \in options}
Records(record, listed, confirmed) ==
  /\ rec' = record
  /\ rev' = IF listed THEN rev + 1 ELSE rev
  /\ Out(confirmed \cup (IF listed THEN {SessionList(rev', record)} ELSE {}))

\* Done: recorded and confirmed.  Refused: a mode or persona confirms nothing,
\* an effort or a model confirms the value still in force.
\* Mutant: a refusal is recorded like a success.
OptionReplyRecordsAny(call, ok) ==
  LET new == [rec EXCEPT ![call.option] = call.value] IN Records(new, TRUE, Confirms({call.option}, new))
on_option_reply(call, ok) ==
  LET new == IF ok THEN [rec EXCEPT ![call.option] = call.value] ELSE rec
  IN Records(new, ok, Confirms(IF ok \/ (call.option \in ConfirmedAnyway /\ rec[call.option] # "") THEN {call.option} ELSE {}, new))
ReadReply ==
  /\ Reads /\ Head(toBridge).kind = "reply"
  /\ LET reply == Head(toBridge)
     IN IF reply.call \in optionCalls
        THEN optionCalls' = optionCalls \ {reply.call} /\ on_option_reply(reply.call, reply.ok)
        ELSE UNCHANGED <<optionCalls, rec, toPhone, rev>>
  /\ UNCHANGED <<run, agent, toHost, shown, gitHead, reads, counts>>
\* What the agent says of itself is recorded; a changed mode or persona is
\* confirmed like a reply.
on_info ==
  /\ Reads /\ Head(toBridge).kind = "info"
  /\ LET said == Head(toBridge).options
         new == {o \in DOMAIN said : said[o] # rec[o]}
     IN Records([o \in DOMAIN rec |-> IF o \in new THEN said[o] ELSE rec[o]], new # {}, Confirms(new \cap {"mode", "persona"}, said))
  /\ UNCHANGED <<run, agent, toHost, optionCalls, shown, gitHead, reads, counts>>
\* on_host_down: every change in flight is answered as refused; the session
\* is started again by `spawn`.
OptionsHostDown ==
  /\ Reads /\ Head(toBridge).kind = "down"
  /\ optionCalls' = {} /\ run' = [run EXCEPT !.started = FALSE] /\ toHost' = <<>>
  /\ Out(Confirms({c.option : c \in {c \in optionCalls : c.option \in ConfirmedAnyway /\ rec[c.option] # ""}}, rec))
  /\ UNCHANGED <<rec, agent, shown, rev, gitHead, reads, counts>>

\* The read of HEAD, periodic or after a command that commits, and its answer:
\* the first is what the session started on, another one later is a commit.
poll_git ==
  /\ ~rec.committed /\ (run.base # 0 \/ run.started) /\ reads' = reads \cup {gitHead}
  /\ reads' # reads
  /\ UNCHANGED <<rec, run, agent, toHost, toBridge, optionCalls, toPhone, shown, rev, gitHead, counts>>
on_git_head(h) ==
  /\ h \in reads /\ reads' = reads \ {h}
  /\ LET commit == ~rec.committed /\ run.base \notin {0, h}
     IN Records([rec EXCEPT !.committed = @ \/ commit], commit, {})
  /\ run' = IF ~rec.committed /\ run.base = 0 THEN [run EXCEPT !.base = h] ELSE run
  /\ UNCHANGED <<agent, toHost, toBridge, optionCalls, shown, gitHead, counts>>

Heartbeat ==
  /\ beats < optionScene.beats /\ beats' = beats + 1 /\ rev' = rev + 1 /\ Out({SessionList(rev', rec)})
  /\ UNCHANGED <<rec, run, agent, toHost, toBridge, optionCalls, shown, gitHead, reads, optionScene, optionsAsked, own, deaths>>

-----------------------------------------------------------------------------
(* The phone. *)

\* A confirmation patches what is shown; a list older than the newest is not
\* taken.
update_session_info(m) ==
  /\ m \in toPhone /\ m.kind = "confirmed" /\ toPhone' = toPhone \ {m}
  /\ shown' = [shown EXCEPT !.info[m.option] = m.value, !.list = FALSE]
  /\ UNCHANGED <<rec, run, agent, toHost, toBridge, optionCalls, rev, gitHead, reads, counts>>
TakeList(m) ==
  /\ m \in toPhone /\ m.kind = "list" /\ toPhone' = toPhone \ {m}
  /\ shown' = IF m.rev < shown.rev THEN shown ELSE [info |-> m.info, rev |-> m.rev, list |-> TRUE]
  /\ UNCHANGED <<rec, run, agent, toHost, toBridge, optionCalls, rev, gitHead, reads, counts>>

OptionsNext ==
  \/ spawn \/ \E o \in SessionOption, v \in Values : on_set_option(o, v)
  \/ AgentStarts \/ (\E ok \in BOOLEAN : AgentSets(ok)) \/ (\E v \in Values : AgentSwitches(v)) \/ HostDies \/ Commits
  \/ ReadReply \/ on_info \/ OptionsHostDown \/ poll_git \/ (\E h \in reads : on_git_head(h)) \/ Heartbeat
  \/ \E m \in toPhone : update_session_info(m) \/ TakeList(m)
OptionsSpec == OptionsInit /\ [][OptionsNext]_optionVars

-----------------------------------------------------------------------------
Settled == run.started /\ agent.up /\ toHost = <<>> /\ toBridge = <<>> /\ optionCalls = {}

\* Once everything between the bridge and the agent was read, the record says
\* what the agent runs with, whatever was refused, switched by the agent or
\* lost with a host (an effort, which no agent reports, unless none was ever
\* chosen); the commit mark is only set when HEAD moved; and a phone
\* whose newest list came last shows the record, whatever came before it.
OptionsAgree ==
  /\ Settled => /\ \A o \in Reported : rec[o] = agent.options[o]
                /\ rec.effort \in {"", agent.options.effort}
  /\ rec.committed => gitHead > 1
  /\ (shown.list /\ shown.rev = rev) => shown.info = remote_info(rec)
=============================================================================
