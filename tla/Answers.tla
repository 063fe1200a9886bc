-------------------------------- MODULE Answers --------------------------------
(* The settings pages of a machine: its agents, plugins, MCP servers, saved   *)
(* permission rules and accounts, and the lists its composer asks for (models,*)
(* slash commands, personas).  The phone marks what a change names busy   *)
(* and gives up on it after a deadline (stores/machines.rs); the bridge       *)
(* refuses it or hands it to the agent host (engine/phone.rs, mcp.rs,         *)
(* permission_rules.rs, accounts.rs) and relays the host's answer, or the     *)
(* host's end (engine/host.rs).                                               *)
EXTENDS Naturals, Sequences, FiniteSets

CONSTANTS AnswerScenes,   \* bounds: [changes, hostStops] of a behaviour
          MaxSent,        \* bound: requests sent
          MaxSignIns,     \* MAX_SIGN_INS
          FastTimeout,    \* SETTINGS_ANSWER_TIMEOUT_MS, in ticks
          SlowTimeout     \* SLOW_SETTINGS_ANSWER_TIMEOUT_MS, in ticks

VARIABLES answerScene,
          busy,           \* the `busy` lists: [family, target]
          note,           \* the failure or error shown for a family
          unanswered,     \* MachinesState::unanswered: change -> ticks left, NotWaiting when absent
          signIn,         \* AgentAccounts::sign_in: [on, attempt, status], attempt 0 before it is known
          commands,       \* requests on their way to the bridge: [n, change]
          hostUp,         \* HostState::up
          calls,          \* HostState::calls, for these requests
          signIns,        \* Engine::sign_ins: attempts, oldest first; an attempt is its request's number
          watching,       \* external: the sign-ins the host waits on
          messages,       \* the bridge's messages on their way to the phone
          sent,           \* history: requests sent
          taken,          \* history: requests the bridge took
          replies,        \* history: request -> times the bridge answered it
          forgotten,      \* history: sign-ins pushed out by MAX_SIGN_INS
          told            \* history: change -> its answer was read since it was last sent

pageVars == <<busy, note, unanswered, signIn, told>>
bridgeVars == <<hostUp, calls, signIns, watching, taken, replies, forgotten>>
answerVars == <<answerScene, pageVars, bridgeVars, commands, messages, sent>>

(* Unanswered: the change, what it names, and whether its work is slow.  A    *)
(* read names nothing: it leaves nothing busy and is never given up on.       *)
Families == {"plugin", "agent", "mcp", "rules", "account", "session", "models", "commands", "personas"}
Change(family, action, targets, slow) == [family |-> family, action |-> action, targets |-> targets, slow |-> slow]
Read(family) == Change(family, "list", {}, FALSE)
NoSignIn == [on |-> FALSE, attempt |-> 0, status |-> "none"]

Waits(c) == c.targets # {}
Timeout(c) == IF c.slow THEN SlowTimeout ELSE FastTimeout
NotWaiting == SlowTimeout + 1
Changes == {c \in answerScene.changes : Waits(c)}
Named(c) == {[family |-> c.family, target |-> t] : t \in c.targets}
BusyOf(family) == {x \in busy : x.family = family}

AnswersInit ==
    /\ answerScene \in AnswerScenes
    /\ busy = {} /\ note = [f \in Families |-> "none"] /\ signIn = NoSignIn
    /\ unanswered = [c \in Changes |-> NotWaiting]
    /\ commands = {} /\ hostUp = TRUE /\ calls = {} /\ signIns = <<>> /\ watching = {} /\ messages = {}
    /\ sent = 0 /\ taken = {} /\ replies = [n \in 1..MaxSent |-> 0] /\ forgotten = {}
    /\ told = [c \in Changes |-> FALSE]

(* --- the phone sends -------------------------------------------------------- *)

Send(c) ==
    /\ sent < MaxSent /\ sent' = sent + 1
    /\ commands' = commands \cup {[n |-> sent + 1, change |-> c]}
    /\ UNCHANGED <<answerScene, bridgeVars, messages>>

(* record_unanswered: the same change sent again has its deadline replaced.   *)
RecordUnanswered(c) == unanswered' = [unanswered EXCEPT ![c] = Timeout(c)] /\ told' = [told EXCEPT ![c] = FALSE]

MarkBusy(c) == busy' = busy \cup Named(c)

PluginActionSent(c) ==
    /\ c.family = "plugin" /\ MarkBusy(c) /\ RecordUnanswered(c)
    /\ note' = [note EXCEPT !["plugin"] = IF @ = "done" THEN "none" ELSE @] /\ UNCHANGED signIn

AgentActionSent(c) ==
    /\ c.family = "agent" /\ MarkBusy(c) /\ RecordUnanswered(c)
    /\ note' = [note EXCEPT !["agent"] = "none"] /\ UNCHANGED signIn

McpActionSent(c) == c.family = "mcp" /\ MarkBusy(c) /\ RecordUnanswered(c) /\ UNCHANGED <<note, signIn>>

PermissionRulesRemoveSent(c) == c.family = "rules" /\ MarkBusy(c) /\ RecordUnanswered(c) /\ UNCHANGED <<note, signIn>>

AccountActionSent(c) ==
    /\ c.family = "account" /\ MarkBusy(c) /\ RecordUnanswered(c) /\ UNCHANGED note
    /\ signIn' = IF c.action = "sign in" THEN [on |-> TRUE, attempt |-> 0, status |-> "started"] ELSE signIn

SessionMcpToggleSent(c) == c.family = "session" /\ MarkBusy(c) /\ RecordUnanswered(c) /\ UNCHANGED <<note, signIn>>

(* The intents of the settings pages.                                         *)
SendChange(c) ==
    /\ Waits(c) /\ Send(c)
    /\ \/ PluginActionSent(c) \/ AgentActionSent(c) \/ McpActionSent(c)
       \/ PermissionRulesRemoveSent(c) \/ AccountActionSent(c) \/ SessionMcpToggleSent(c)

(* Intent::McpAction with a server the phone itself refuses: its own ack.     *)
RefusedHere(c) ==
    /\ c.family = "mcp" /\ c.action = "add"
    /\ busy' = busy \ Named(c) /\ note' = [note EXCEPT !["mcp"] = "failed"]
    /\ told' = [told EXCEPT ![c] = TRUE]
    /\ UNCHANGED <<answerScene, unanswered, signIn, bridgeVars, commands, messages, sent>>

SendRead(c) == ~Waits(c) /\ Send(c) /\ UNCHANGED pageVars

DismissSignIn ==
    /\ signIn.on /\ signIn' = NoSignIn
    /\ UNCHANGED <<answerScene, busy, note, unanswered, told, bridgeVars, commands, messages, sent>>

(* --- the bridge takes a request ------------------------------------------------ *)

Message(r, kind, status) == [n |-> r.n, change |-> r.change, kind |-> kind, status |-> status]
Ack(r, ok) == Message(r, "ack", IF ok THEN "ok" ELSE "error")
List(r, ok) == Message(r, "list", IF ok THEN "ok" ELSE "error")
SignIn(r, status) == Message(r, "sign-in", status)

PublishAnswer(ms, ns) ==
    /\ messages' = messages \cup ms
    /\ replies' = [n \in 1..MaxSent |-> replies[n] + (IF n \in ns THEN 1 ELSE 0)]

(* Mutant: with the host down a request is dropped.                           *)
CallOrDrop(r, refused, answer) ==
    /\ taken' = taken \cup {r.n}
    /\ IF refused THEN PublishAnswer({answer}, {r.n}) /\ UNCHANGED calls
       ELSE calls' = (IF hostUp THEN calls \cup {r} ELSE calls) /\ UNCHANGED <<messages, replies>>

(* Engine::call, or the refusal when the request is at fault or the host is   *)
(* down.                                                                      *)
CallOr(r, refused, answer) ==
    /\ taken' = taken \cup {r.n}
    /\ IF refused \/ ~hostUp
       THEN PublishAnswer({answer}, {r.n}) /\ UNCHANGED calls
       ELSE calls' = calls \cup {r} /\ UNCHANGED <<messages, replies>>

Is(r, family, wait) == r.change.family = family /\ Waits(r.change) = wait

OnPluginsRequest(r, unusable) == Is(r, "plugin", FALSE) /\ CallOr(r, unusable, List(r, FALSE))
OnPluginAction(r, refused) == Is(r, "plugin", TRUE) /\ CallOr(r, refused, Ack(r, FALSE))
OnAgentAction(r, unknown) == Is(r, "agent", TRUE) /\ CallOr(r, unknown, Ack(r, FALSE))
OnMcpRequest(r, unusable) == Is(r, "mcp", FALSE) /\ CallOr(r, unusable, List(r, FALSE))
OnMcpAction(r, refused) == Is(r, "mcp", TRUE) /\ CallOr(r, refused, Ack(r, FALSE))
OnSessionMcpRequest(r, unusable) == Is(r, "session", FALSE) /\ CallOr(r, unusable, List(r, FALSE))
OnSessionMcpToggle(r, refused) == Is(r, "session", TRUE) /\ CallOr(r, refused, List(r, FALSE))
OnPermissionRulesRequest(r, unusable) == Is(r, "rules", FALSE) /\ CallOr(r, unusable, List(r, FALSE))
OnPermissionRulesRemove(r, refused) == Is(r, "rules", TRUE) /\ CallOr(r, refused, List(r, FALSE))
OnAccountsRequest(r, unusable) == Is(r, "account", FALSE) /\ CallOr(r, unusable, List(r, FALSE))
OnAccountAction(r, refused) ==
    /\ Is(r, "account", TRUE)
    /\ CallOr(r, refused, IF r.change.action = "sign in" THEN SignIn(r, "failed") ELSE List(r, FALSE))

OnModelsRequest(r, unusable) == Is(r, "models", FALSE) /\ CallOr(r, unusable, List(r, FALSE))
OnCommandsRequest(r, unusable) == Is(r, "commands", FALSE) /\ CallOr(r, unusable, List(r, FALSE))
OnPersonasRequest(r, unusable) == Is(r, "personas", FALSE) /\ CallOr(r, unusable, List(r, FALSE))

(* dispatch, for these requests.                                              *)
TakeRequest(r, refused) ==
    /\ r \in commands /\ commands' = commands \ {r}
    /\ \/ OnPluginsRequest(r, refused) \/ OnPluginAction(r, refused) \/ OnAgentAction(r, refused)
       \/ OnMcpRequest(r, refused) \/ OnMcpAction(r, refused)
       \/ OnSessionMcpRequest(r, refused) \/ OnSessionMcpToggle(r, refused)
       \/ OnPermissionRulesRequest(r, refused) \/ OnPermissionRulesRemove(r, refused)
       \/ OnAccountsRequest(r, refused) \/ OnAccountAction(r, refused)
       \/ OnModelsRequest(r, refused) \/ OnCommandsRequest(r, refused) \/ OnPersonasRequest(r, refused)
    /\ UNCHANGED <<answerScene, pageVars, hostUp, signIns, watching, forgotten, sent>>

RequestLost(r) ==
    /\ r \in commands /\ commands' = commands \ {r}
    /\ UNCHANGED <<answerScene, pageVars, bridgeVars, messages, sent>>

(* --- the host answers ------------------------------------------------------------ *)

(* An action that was done is acked, then the new list goes out.              *)
OnPluginsReply(r, ok) == {List(r, ok)}
OnPluginActionReply(r, ok) == {Ack(r, ok)} \cup (IF ok THEN {List(r, TRUE)} ELSE {})
OnMcpReply(r, ok) == {List(r, ok)}
OnMcpActionReply(r, ok) == {Ack(r, ok)} \cup (IF ok THEN {List(r, TRUE)} ELSE {})
OnAgentActionReply(r, ok) == {Ack(r, ok)}
OnSessionMcpReply(r, ok) == {List(r, ok)}
OnPermissionRulesReply(r, ok) == {List(r, ok)}
OnAccountsReply(r, ok) == {List(r, ok)}
OnAccountActionReply(r, ok) ==
    IF r.change.action = "sign in" THEN {SignIn(r, IF ok THEN "started" ELSE "failed")} ELSE {List(r, ok)}

(* An empty list is an answer too: it goes out with the reason.               *)
OnModelsReply(r, ok) == {List(r, ok)}
OnCommandsReply(r, ok) == {List(r, ok)}
OnPersonasReply(r, ok) == {List(r, ok)}

(* on_reply *)
Reply(r, ok) ==
    CASE r.change.family = "plugin" -> IF Waits(r.change) THEN OnPluginActionReply(r, ok) ELSE OnPluginsReply(r, ok)
      [] r.change.family = "agent" -> OnAgentActionReply(r, ok)
      [] r.change.family = "mcp" -> IF Waits(r.change) THEN OnMcpActionReply(r, ok) ELSE OnMcpReply(r, ok)
      [] r.change.family = "session" -> OnSessionMcpReply(r, ok)
      [] r.change.family = "rules" -> OnPermissionRulesReply(r, ok)
      [] r.change.family = "models" -> OnModelsReply(r, ok)
      [] r.change.family = "commands" -> OnCommandsReply(r, ok)
      [] r.change.family = "personas" -> OnPersonasReply(r, ok)
      [] r.change.family = "account" -> IF Waits(r.change) THEN OnAccountActionReply(r, ok) ELSE OnAccountsReply(r, ok)

(* remember_sign_in *)
Remembered(n) ==
    LET room == IF Len(signIns) >= MaxSignIns THEN Tail(signIns) ELSE signIns
    IN  Append(room, n)

(* on_host_frame, a reply: the call leaves the table with its answer.         *)
HostReplies(r, ok) ==
    /\ r \in calls /\ calls' = calls \ {r}
    /\ PublishAnswer(Reply(r, ok), {r.n})
    /\ IF ok /\ r.change.action = "sign in"
       THEN /\ signIns' = Remembered(r.n) /\ watching' = watching \cup {r.n}
            /\ forgotten' = forgotten \cup (IF Len(signIns) >= MaxSignIns THEN {Head(signIns)} ELSE {})
       ELSE UNCHANGED <<signIns, watching, forgotten>>
    /\ UNCHANGED <<answerScene, pageVars, commands, hostUp, sent, taken>>

SignInOf(n, status) == [n |-> n, change |-> CHOOSE c \in Changes : c.action = "sign in", kind |-> "sign-in", status |-> status]

(* on_account_sign_in_ended: one the bridge forgot has no one waiting.        *)
SignInEnds(n, status) ==
    /\ n \in watching /\ watching' = watching \ {n}
    /\ signIns' = SelectSeq(signIns, LAMBDA k : k # n)
    /\ messages' = IF \E i \in DOMAIN signIns : signIns[i] = n THEN messages \cup {SignInOf(n, status)} ELSE messages
    /\ UNCHANGED <<answerScene, pageVars, commands, hostUp, calls, sent, taken, replies, forgotten>>

(* on_host_down, fail_sign_ins: every call and every sign-in is answered with *)
(* the host's end.                                                            *)
HostDown ==
    /\ answerScene.hostStops /\ hostUp
    /\ hostUp' = FALSE /\ calls' = {} /\ signIns' = <<>> /\ watching' = {}
    /\ PublishAnswer(UNION {Reply(r, FALSE) : r \in calls} \cup {SignInOf(signIns[i], "failed") : i \in DOMAIN signIns},
               {r.n : r \in calls})
    /\ UNCHANGED <<answerScene, pageVars, commands, sent, taken, forgotten>>

HostUp ==
    /\ ~hostUp /\ hostUp' = TRUE
    /\ UNCHANGED <<answerScene, pageVars, commands, calls, signIns, watching, messages, sent, taken, replies, forgotten>>

(* --- the phone hears ----------------------------------------------------------- *)

Hears(m, kind, family) == m.kind = kind /\ m.change.family = family
NowTold(m) == told' = IF Waits(m.change) THEN [told EXCEPT ![m.change] = TRUE] ELSE told
Noted(family, new) == note' = [note EXCEPT ![family] = new]

(* A good list clears the note left by giving up, never a reported failure.   *)
GoodListNote(m, family) == Noted(family, IF m.status = "ok" /\ note[family] = "no answer" THEN "none" ELSE note[family])
AckNote(m, family) == Noted(family, IF m.status = "ok" THEN "done" ELSE "failed")
ListNote(m, family) == Noted(family, IF m.status = "ok" THEN "none" ELSE "failed")

ApplyPlugins(m) == Hears(m, "list", "plugin") /\ GoodListNote(m, "plugin") /\ UNCHANGED <<busy, signIn, told>>
ApplyPluginAck(m) ==
    Hears(m, "ack", "plugin") /\ busy' = busy \ Named(m.change) /\ AckNote(m, "plugin") /\ NowTold(m) /\ UNCHANGED signIn
ApplyAgentAck(m) ==
    Hears(m, "ack", "agent") /\ busy' = busy \ Named(m.change) /\ AckNote(m, "agent") /\ NowTold(m) /\ UNCHANGED signIn
ApplyMcp(m) == Hears(m, "list", "mcp") /\ GoodListNote(m, "mcp") /\ UNCHANGED <<busy, signIn, told>>
ApplyMcpAck(m) ==
    Hears(m, "ack", "mcp") /\ busy' = busy \ Named(m.change) /\ AckNote(m, "mcp") /\ NowTold(m) /\ UNCHANGED signIn

(* The families without acks: any list settles every change in flight.        *)
ApplyPermissionRules(m) ==
    Hears(m, "list", "rules") /\ busy' = busy \ BusyOf("rules") /\ ListNote(m, "rules") /\ NowTold(m) /\ UNCHANGED signIn
ApplyAccounts(m) ==
    Hears(m, "list", "account") /\ busy' = busy \ BusyOf("account") /\ ListNote(m, "account") /\ NowTold(m) /\ UNCHANGED signIn
ApplySessionMcp(m) ==
    Hears(m, "list", "session") /\ busy' = busy \ BusyOf("session") /\ ListNote(m, "session") /\ NowTold(m) /\ UNCHANGED signIn

ApplyModels(m) == Hears(m, "list", "models") /\ ListNote(m, "models") /\ UNCHANGED <<busy, signIn, told>>
ApplyCommands(m) == Hears(m, "list", "commands") /\ ListNote(m, "commands") /\ UNCHANGED <<busy, signIn, told>>
ApplyPersonas(m) == Hears(m, "list", "personas") /\ ListNote(m, "personas") /\ UNCHANGED <<busy, signIn, told>>

(* apply_account_sign_in: of an attempt other than the one followed, nothing. *)
ApplyAccountSignIn(m) ==
    /\ Hears(m, "sign-in", "account") /\ busy' = busy \ Named(m.change) /\ NowTold(m)
    /\ Noted("account", IF note["account"] = "no answer" THEN "none" ELSE note["account"])
    /\ signIn' = IF ~signIn.on \/ (signIn.attempt # 0 /\ signIn.attempt # m.n) THEN signIn
                 ELSE [on |-> TRUE, status |-> m.status, attempt |-> IF m.status = "started" THEN m.n ELSE signIn.attempt]

(* A sign-in that completed added a connection: its page asks for the list.   *)
AskAfter(m) ==
    IF m.status = "complete" /\ sent < MaxSent
    THEN sent' = sent + 1 /\ commands' = commands \cup {[n |-> sent + 1, change |-> Read("account")]}
    ELSE UNCHANGED <<sent, commands>>

(* on_bridge_message, for these messages.                                     *)
HearMessage(m) ==
    /\ m \in messages /\ messages' = messages \ {m}
    /\ \/ ApplyPlugins(m) \/ ApplyPluginAck(m) \/ ApplyAgentAck(m) \/ ApplyMcp(m) \/ ApplyMcpAck(m)
       \/ ApplyPermissionRules(m) \/ ApplyAccounts(m) \/ ApplySessionMcp(m) \/ ApplyAccountSignIn(m)
       \/ ApplyModels(m) \/ ApplyCommands(m) \/ ApplyPersonas(m)
    /\ AskAfter(m)
    /\ UNCHANGED <<answerScene, unanswered, bridgeVars>>

MessageLost(m) ==
    /\ m \in messages /\ messages' = messages \ {m}
    /\ UNCHANGED <<answerScene, pageVars, commands, bridgeVars, sent>>

(* Msg::UnansweredDeadline: expire_unanswered; the timer is armed for the     *)
(* earliest deadline.                                                         *)
DueChanges == {c \in Changes : unanswered[c] = 0}

(* settle_unanswered: only what is still busy is reported.                    *)
StillBusy(c) == Named(c) \cap busy # {}
NeverTakenUp == \E c \in DueChanges : c.action = "sign in" /\ StillBusy(c) /\ signIn.status = "started" /\ signIn.attempt = 0

GiveUp ==
    /\ DueChanges # {}
    /\ unanswered' = [c \in Changes |-> IF c \in DueChanges THEN NotWaiting ELSE unanswered[c]]
    /\ busy' = busy \ UNION {Named(c) : c \in DueChanges}
    /\ note' = [f \in Families |-> IF \E c \in DueChanges : c.family = f /\ StillBusy(c) THEN "no answer" ELSE note[f]]
    /\ signIn' = IF signIn.on /\ NeverTakenUp THEN [signIn EXCEPT !.status = "failed"] ELSE signIn
    /\ UNCHANGED <<answerScene, told, commands, bridgeVars, messages, sent>>

AnswersTick ==
    /\ DueChanges = {}
    /\ unanswered' = [c \in Changes |-> IF unanswered[c] = NotWaiting THEN NotWaiting ELSE unanswered[c] - 1]
    /\ UNCHANGED <<answerScene, busy, note, signIn, told, commands, bridgeVars, messages, sent>>

AnswersNext ==
    \/ \E c \in answerScene.changes : SendChange(c) \/ SendRead(c) \/ RefusedHere(c)
    \/ DismissSignIn
    \/ \E r \in commands : RequestLost(r) \/ \E refused \in BOOLEAN : TakeRequest(r, refused)
    \/ \E r \in calls, ok \in BOOLEAN : HostReplies(r, ok)
    \/ \E n \in watching, status \in {"complete", "failed"} : SignInEnds(n, status)
    \/ \E m \in messages : HearMessage(m) \/ MessageLost(m)
    \/ HostDown \/ HostUp \/ GiveUp \/ AnswersTick

AnswersSpec == AnswersInit /\ [][AnswersNext]_answerVars

(* --- properties ------------------------------------------------------------------ *)

(* "So a machine that never answers does not leave the UI spinning"           *)
(* (machines.rs, expire_unanswered): whatever is shown busy is named by a     *)
(* change that is still waited for, so its deadline will settle it.  Answers  *)
(* to other changes, resends and give-ups never take the deadline away first. *)
BusyIsAwaited == \A x \in busy : \E c \in Changes : x \in Named(c) /\ unanswered[c] # NotWaiting

(* "The bridge answers each request with exactly one message" (machines.rs,   *)
(* apply_permission_rules): one it took is waiting on the host or was         *)
(* answered once, also when the host stops; and a sign-in the host waits on   *)
(* is remembered, for its end to be told, unless 16 newer ones pushed it out. *)
NeverSilent ==
    /\ \A n \in taken : replies[n] + Cardinality({r \in calls : r.n = n}) = 1
    /\ {signIns[i] : i \in DOMAIN signIns} = watching \ forgotten

(* A spinner always ends: a target is settled by an answer or by giving up,   *)
(* whatever is lost, unless its change is sent again.                         *)
SpinnerEnds == \A f \in Families : (BusyOf(f) # {}) ~> (BusyOf(f) = {})

(* "A change already answered is dropped without change" (machines.rs,        *)
(* expire_unanswered): giving up on a change whose answer was read settles    *)
(* nothing.                                                                   *)
AnsweredIsLeftAlone ==
    [][\A c \in DueChanges : unanswered'[c] = NotWaiting /\ told[c] => Named(c) \cap busy \subseteq busy']_answerVars

(* Whatever is asked of a machine: the page waits only with a deadline, and   *)
(* the bridge answers what it took exactly once.                              *)
AnswersSound == BusyIsAwaited /\ NeverSilent
===============================================================================
