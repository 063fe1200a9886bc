------------------------------- MODULE Profiles -------------------------------
(* Custom provider profiles: engine/settings.rs on the bridge, from a write   *)
(* through the model list, the agent that may refuse it and the token check   *)
(* to its ack; and the phone's copy of the list, asked for once a connection  *)
(* (stores/fetches.rs).  A write's number stands for its tickets.             *)
EXTENDS Naturals, Sequences, FiniteSetsExt

(* Credentials set from a phone: engine/settings.rs.  A write stores values,  *)
(* has each new one checked by its provider through the agent host and acks   *)
(* once all checks are back; a later write may replace a value while it is    *)
(* still being checked.  A stored value is the number of the write it is of.  *)
CONSTANTS CredentialIds,   \* the credentials of one agent
          FromEnv,         \* those the operator set in the environment
          MaxCredWrites    \* bound: writes

VARIABLES stored,      \* StoredCredentials: id -> value, 0 when absent
          valid,       \* credential_valid: id -> verdict
          checking,    \* HostCall::CheckCredential calls: [ticket, id, value]
          ackDue,      \* credential_acks: ticket -> outstanding checks, 0 when absent
          credHostUp,
          credWrites,  \* writes so far, also the ticket
          credAcks,    \* history: ticket -> acks sent
          judged       \* history: verdicts providers gave: [id, value, verdict]

credVars == <<stored, valid, checking, ackDue, credHostUp, credWrites, credAcks, judged>>

Tickets == 1..MaxCredWrites
Verdicts == {"unknown", "accepted", "rejected"}

CredInit ==
    /\ stored = [c \in CredentialIds |-> 0]
    /\ valid = [c \in CredentialIds |-> "unknown"]
    /\ checking = {} /\ credHostUp = TRUE /\ credWrites = 0
    /\ ackDue = [t \in Tickets |-> 0] /\ credAcks = [t \in Tickets |-> 0]
    /\ judged = {}

(* on_set_credentials: `set` are given a value, `cleared` lose theirs.  An id *)
(* outside the scope or an agent that cannot be used is refused and changes   *)
(* nothing; a failed store comes when the verdicts are gone already.  Both    *)
(* are acked at once.                                                         *)
SetCredentials(set, cleared, outcome) ==
    LET t == credWrites + 1
        checks == {[ticket |-> t, id |-> c, value |-> t] : c \in set \ FromEnv}
        sent == IF credHostUp THEN checks ELSE {}
    IN  /\ t \in Tickets /\ credWrites' = t
        /\ set \cap cleared = {} /\ set \cup cleared # {}
        /\ valid' = [c \in CredentialIds |-> IF outcome # "refused" /\ c \in set \cup cleared THEN "unknown" ELSE valid[c]]
        /\ IF outcome # "stored"
           THEN UNCHANGED <<stored, checking, ackDue>> /\ credAcks' = [credAcks EXCEPT ![t] = @ + 1]
           ELSE /\ stored' = [c \in CredentialIds |-> IF c \in set THEN t ELSE IF c \in cleared THEN 0 ELSE stored[c]]
                /\ checking' = checking \cup sent
                /\ ackDue' = [ackDue EXCEPT ![t] = Cardinality(sent)]
                /\ credAcks' = IF sent = {} THEN [credAcks EXCEPT ![t] = @ + 1] ELSE credAcks
        /\ UNCHANGED <<credHostUp, judged>>

(* Mutant: a verdict counts whenever it comes.                                *)
VerdictNotedLate(held, k, verdict) == [held EXCEPT ![k.id] = verdict]

(* on_credential_checked: the verdict counts only if the value is still the   *)
(* one stored; "unknown" is a check that could not be made.                   *)
VerdictNoted(held, k, verdict) == IF stored[k.id] = k.value THEN [held EXCEPT ![k.id] = verdict] ELSE held

AckCounted(due, k) == IF due[k.ticket] = 0 THEN due ELSE [due EXCEPT ![k.ticket] = @ - 1]

AckedNow(ks) ==
    [t \in Tickets |-> credAcks[t] + (IF ackDue[t] > 0 /\ ackDue[t] = Cardinality({k \in ks : k.ticket = t}) THEN 1 ELSE 0)]

CredentialChecked(k, verdict) ==
    /\ k \in checking /\ checking' = checking \ {k}
    /\ valid' = VerdictNoted(valid, k, verdict)
    /\ ackDue' = AckCounted(ackDue, k)
    /\ credAcks' = AckedNow({k})
    /\ judged' = judged \cup {[id |-> k.id, value |-> k.value, verdict |-> verdict]}
    /\ UNCHANGED <<stored, credHostUp, credWrites>>

(* on_host_down: every check comes back without a verdict.                    *)
CredHostDown ==
    /\ credHostUp /\ credHostUp' = FALSE /\ checking' = {}
    /\ valid' = FoldSet(LAMBDA k, held : VerdictNoted(held, k, "unknown"), valid, checking)
    /\ ackDue' = FoldSet(LAMBDA k, due : AckCounted(due, k), ackDue, checking)
    /\ credAcks' = AckedNow(checking)
    /\ UNCHANGED <<stored, credWrites, judged>>

CredHostUp ==
    /\ ~credHostUp /\ credHostUp' = TRUE
    /\ UNCHANGED <<stored, valid, checking, ackDue, credWrites, credAcks, judged>>

CredNext ==
    \/ \E set, cleared \in SUBSET CredentialIds, outcome \in {"refused", "unstored", "stored"} : SetCredentials(set, cleared, outcome)
    \/ \E k \in checking, verdict \in Verdicts : CredentialChecked(k, verdict)
    \/ CredHostDown \/ CredHostUp

CredSpec == CredInit /\ [][CredNext]_credVars

(* A verdict shown is about the value in force, however late its check comes  *)
(* back and whatever was stored meanwhile; and each write is acked once, when *)
(* its last check is back, also when the host stops with checks outstanding   *)
(* (settings.rs, on_credential_checked: "it counts only if the value is still *)
(* the one stored").                                                          *)
VerdictIsAboutValue ==
    /\ \A c \in CredentialIds : valid[c] # "unknown" => [id |-> c, value |-> stored[c], verdict |-> valid[c]] \in judged
    /\ \A t \in 1..credWrites :
          /\ ackDue[t] = Cardinality({k \in checking : k.ticket = t})
          /\ credAcks[t] = IF ackDue[t] = 0 THEN 1 ELSE 0

------------------------------------------------------------------------------

CONSTANTS ProfileIds, Agents,
          Offering,        \* agents with supports.provider_models; the others are bound at session start
          MaxWrites,       \* bound: writes
          ProfileScenes    \* bounds: [writes, disk, hostStops, phone]

VARIABLES profileScene,
          b,               \* the bridge's state, a record
          fetch,           \* Fetches: the state of Fetch::ProviderProfiles
          phoneList,       \* MachineView::provider_profiles
          undoFailed       \* history: refused writes whose undo could not be stored

profileVars == <<profileScene, b, fetch, phoneList, undoFailed>>

(* ProviderProfileWrite: an upsert for an agent, with a token or not, its     *)
(* models given or read from the provider; or a deletion; `bad` is a base     *)
(* URL, agent or model list that is refused at once.                          *)
WriteShape == [id : ProfileIds, kind : {"upsert", "from provider", "delete", "bad"}, agent : Agents, token : BOOLEAN]
ASSUME ProfileAssumption == \A scene \in ProfileScenes : scene.writes \subseteq WriteShape

(* A stored profile, or its absence, and the write it is from.                *)
NoProfile == [n |-> 0, on |-> FALSE, agent |-> CHOOSE a \in Agents : TRUE, token |-> FALSE]

ProfilesInit ==
    /\ profileScene \in ProfileScenes
    /\ b = [up |-> TRUE,             \* the agent host is up and initialized
            profiles |-> [p \in ProfileIds |-> NoProfile],
            refusals |-> {},        \* profile_refusals
            fetches |-> {},         \* model_fetches: [n, write]
            saves |-> {},           \* profile_saves: [n, write, previous]
            checks |-> {},          \* profile_acks: [n, id]
            calls |-> {},           \* HostState::calls of these kinds
            ids |-> <<>>,           \* history, by write: the profile it is of
            verdicts |-> <<>>,      \* history, by write: the acks sent for it
            superseded |-> {},      \* history: writes a newer one of the profile replaced
            lists |-> <<>>]         \* provider-profiles messages to the phone, in order
    /\ fetch = "none" /\ phoneList = [p \in ProfileIds |-> NoProfile]
    /\ undoFailed = {}

(* provider_profiles_msg: each profile, and whether its agent leaves it out.  *)
ListOf(s) == [p \in ProfileIds |-> [s.profiles[p] EXCEPT !.on = s.profiles[p].on /\ p \notin s.refusals]]

(* send_profile_ack: on success every phone also gets the list.               *)
AckSent(s, n, verdict) ==
    [s EXCEPT !.verdicts[n] = Append(@, verdict),
              !.lists = IF verdict = "saved" /\ profileScene.phone THEN Append(@, ListOf(s)) ELSE @]

Usable(s, agent) == {p \in ProfileIds : s.profiles[p].on /\ s.profiles[p].agent = agent /\ s.profiles[p].token}
CanPush(s, agent) == s.up /\ agent \in Offering

(* push_providers, for the save n (0: none waits on it).                      *)
Pushed(s, agent, n) ==
    IF CanPush(s, agent)
    THEN [s EXCEPT !.calls = @ \cup {[kind |-> "set", n |-> n, agent |-> agent, offered |-> Usable(s, agent)]}]
    ELSE s

(* check_saved_profile *)
Checked(s, n, w) ==
    IF w.token /\ s.up
    THEN [s EXCEPT !.checks = @ \cup {[n |-> n, id |-> w.id]},
                   !.calls = @ \cup {[kind |-> "check", n |-> n, agent |-> w.agent, offered |-> {}]}]
    ELSE AckSent(s, n, "saved")

(* save_profile: stored, taken from the agent it was for, handed to its own.  *)
Saved(s, n, w, diskOk) ==
    LET previous == s.profiles[w.id]
        held == [s EXCEPT !.profiles[w.id] = [n |-> n, on |-> TRUE, agent |-> w.agent, token |-> w.token]]
        moved == IF previous.on /\ previous.agent # w.agent THEN Pushed(held, previous.agent, 0) ELSE held
    IN  IF ~diskOk THEN AckSent(s, n, "refused")
        ELSE IF CanPush(s, w.agent)
        THEN [Pushed(moved, w.agent, n) EXCEPT !.saves = @ \cup {[n |-> n, write |-> w, previous |-> previous]}]
        ELSE Checked(moved, n, w)

Deleted(s, n, w, diskOk) ==
    LET previous == s.profiles[w.id]
        gone == AckSent([s EXCEPT !.profiles[w.id] = [NoProfile EXCEPT !.n = n], !.refusals = @ \ {w.id}], n, "saved")
    IN  IF ~diskOk THEN AckSent(s, n, "refused")
        ELSE IF previous.on THEN Pushed(gone, previous.agent, 0) ELSE gone

(* A model list or an agent's answer still on its way for an older write of   *)
(* the profile is dropped.                                                    *)
Superseded(s, id) ==
    LET older == {f \in s.fetches : f.write.id = id}
        pending == {v \in s.saves : v.write.id = id}
    IN  [s EXCEPT !.fetches = @ \ older, !.saves = @ \ pending,
                  !.superseded = @ \cup {e.n : e \in older} \cup {v.n : v \in pending}]

(* on_set_provider_profile *)
SetProfile(w, diskOk) ==
    LET n == Len(b.ids) + 1
        s == Superseded([b EXCEPT !.ids = Append(@, w.id), !.verdicts = Append(@, <<>>)], w.id)
    IN  /\ n <= MaxWrites
        /\ diskOk \/ profileScene.disk
        /\ b' = CASE w.kind = "delete" -> Deleted(s, n, w, diskOk)
                  [] w.kind = "bad" -> AckSent(s, n, "refused")
                  [] w.kind = "upsert" -> Saved(s, n, w, diskOk)
                  [] w.kind = "from provider" /\ w.token /\ s.up ->
                       [s EXCEPT !.fetches = @ \cup {[n |-> n, write |-> w]},
                                 !.calls = @ \cup {[kind |-> "models", n |-> n, agent |-> w.agent, offered |-> {}]}]
                  [] OTHER -> AckSent(s, n, "refused")
        /\ UNCHANGED <<profileScene, fetch, phoneList, undoFailed>>

(* on_provider_models_fetched *)
ModelsFetched(s, n, ok, diskOk) ==
    LET f == CHOOSE e \in s.fetches : e.n = n
        t == [s EXCEPT !.fetches = @ \ {f}]
    IN  IF ~ \E e \in s.fetches : e.n = n THEN s
        ELSE IF ok THEN Saved(t, n, f.write, diskOk) ELSE AckSent(t, n, "refused")

(* on_provider_token_checked: whatever the verdict, the save stands.          *)
TokenChecked(s, n) ==
    LET due == {c \in s.checks : c.n = n}
    IN  IF due = {} THEN s ELSE AckSent([s EXCEPT !.checks = @ \ due], n, "saved")

(* on_providers_set with the agent's answer: a save it leaves out is undone.  *)
Undone(s, v, agent, diskOk) ==
    LET id == v.write.id
        back == [s EXCEPT !.refusals = @ \ {id}, !.profiles[id] = IF diskOk THEN v.previous ELSE @]
        again == Pushed(back, agent, 0)
        both == IF v.previous.on /\ v.previous.agent # agent THEN Pushed(again, v.previous.agent, 0) ELSE again
    IN  AckSent(both, v.n, "refused")

ProvidersSet(s, call, refused, diskOk) ==
    LET waiting == {v \in s.saves : v.n = call.n}
        other == {p \in s.refusals : s.profiles[p].on /\ s.profiles[p].agent # call.agent}
        t == [s EXCEPT !.saves = @ \ waiting, !.refusals = other \cup refused]
        v == CHOOSE x \in waiting : TRUE
    IN  IF waiting # {}
        THEN IF v.write.id \in refused THEN Undone(t, v, call.agent, diskOk) ELSE Checked(t, v.n, v.write)
        ELSE [t EXCEPT !.lists = IF t.refusals # s.refusals /\ profileScene.phone THEN Append(@, ListOf(t)) ELSE @]

(* The host failed the call, or stopped with it outstanding.                  *)
ProvidersNotSet(s, call) ==
    LET waiting == {v \in s.saves : v.n = call.n}
        v == CHOOSE x \in waiting : TRUE
    IN  IF waiting = {} THEN s ELSE Checked([s EXCEPT !.saves = @ \ waiting], v.n, v.write)

Failed(s, call) ==
    LET t == [s EXCEPT !.calls = @ \ {call}]
    IN  CASE call.kind = "models" -> ModelsFetched(t, call.n, FALSE, TRUE)
          [] call.kind = "check" -> TokenChecked(t, call.n)
          [] call.kind = "set" -> ProvidersNotSet(t, call)

(* A reply of the agent host: ok, refusing some of what it was handed.        *)
HostAnswers(call, refused, diskOk) ==
    LET s == [b EXCEPT !.calls = @ \ {call}]
    IN  /\ call \in b.calls /\ refused \subseteq call.offered
        /\ diskOk \/ profileScene.disk
        /\ b' = CASE call.kind = "models" -> ModelsFetched(s, call.n, TRUE, diskOk)
                  [] call.kind = "check" -> TokenChecked(s, call.n)
                  [] call.kind = "set" -> ProvidersSet(s, call, refused, diskOk)
        /\ undoFailed' = IF \E v \in b.saves : ~diskOk /\ v.n = call.n /\ v.write.id \in refused
                         THEN undoFailed \cup {call.n} ELSE undoFailed
        /\ UNCHANGED <<profileScene, fetch, phoneList>>

HostFails(call) ==
    /\ call \in b.calls /\ b' = Failed(b, call)
    /\ UNCHANGED <<profileScene, fetch, phoneList, undoFailed>>

(* on_host_down: up no longer, every call is answered as failed.              *)
ProvidersDown ==
    /\ profileScene.hostStops /\ b.up
    /\ b' = FoldSet(LAMBDA call, s : Failed(s, call), [b EXCEPT !.up = FALSE], b.calls)
    /\ UNCHANGED <<profileScene, fetch, phoneList, undoFailed>>

(* Initialized again: push_all_providers.                                     *)
ProvidersBack ==
    /\ ~b.up
    /\ b' = FoldSet(LAMBDA a, s : Pushed(s, a, 0), [b EXCEPT !.up = TRUE], Agents)
    /\ UNCHANGED <<profileScene, fetch, phoneList, undoFailed>>

(* --- the phone ------------------------------------------------------------------ *)

(* Intent::RequestProviderProfiles: should_request, then the bridge's answer. *)
RequestProfiles ==
    /\ profileScene.phone /\ fetch = "none" /\ fetch' = "in flight"
    /\ b' = [b EXCEPT !.lists = Append(@, ListOf(b))]
    /\ UNCHANGED <<profileScene, phoneList, undoFailed>>

ListArrives ==
    /\ b.lists # <<>>
    /\ phoneList' = Head(b.lists) /\ b' = [b EXCEPT !.lists = Tail(@)]
    /\ fetch' = "current"
    /\ UNCHANGED <<profileScene, undoFailed>>

(* A new connection: what was on the old one is lost, forget_all.             *)
NewConnection ==
    /\ fetch # "none" /\ fetch' = "none"
    /\ b' = [b EXCEPT !.lists = <<>>]
    /\ UNCHANGED <<profileScene, phoneList, undoFailed>>

ProfilesNext ==
    \/ \E w \in profileScene.writes, diskOk \in BOOLEAN : SetProfile(w, diskOk)
    \/ \E call \in b.calls : \/ HostFails(call)
                             \/ \E refused \in SUBSET call.offered, diskOk \in BOOLEAN :
                                                  HostAnswers(call, refused, diskOk)
    \/ ProvidersDown \/ ProvidersBack
    \/ RequestProfiles \/ ListArrives \/ NewConnection

ProfilesSpec == ProfilesInit /\ [][ProfilesNext]_profileVars

(* --- properties ------------------------------------------------------------------ *)

WaitingFor(n) == {f \in b.fetches : f.n = n} \cup {v \in b.saves : v.n = n} \cup {c \in b.checks : c.n = n}

(* Every write is acked exactly once unless a newer write of its profile      *)
(* replaced it first; and one not acked yet waits on a call the host still    *)
(* owes an answer to, so neither a host that fails nor one that stops leaves  *)
(* the phone saving for ever (settings.rs, on_host_down).                     *)
WriteAnswered ==
    \A n \in DOMAIN b.ids :
        /\ Len(b.verdicts[n]) + Cardinality(WaitingFor(n)) + (IF n \in b.superseded THEN 1 ELSE 0) = 1
        /\ WaitingFor(n) # {} => \E call \in b.calls : call.n = n

(* "The newest write of a profile is the one that stands" (settings.rs,       *)
(* on_set_provider_profile): what is stored is never older than a write acked *)
(* as saved, nor a write that was acked as refused, whatever answers arrive   *)
(* late; only an undo the disk refuses leaves a refused write behind.         *)
NewestStands ==
    \A n \in DOMAIN b.ids :
        LET verdicts == {b.verdicts[n][i] : i \in DOMAIN b.verdicts[n]}
            stands == b.profiles[b.ids[n]].n
        IN  /\ "saved" \in verdicts => stands >= n
            /\ "refused" \in verdicts /\ n \notin undoFailed => stands # n

(* "The bridge pushes the new list to every phone whenever one changes, so an *)
(* answer holds for the whole connection" (stores/fetches.rs:6): once nothing *)
(* is under way, the list held as current is the bridge's.                    *)
ListIsCurrent ==
    fetch = "current" /\ b.lists = <<>> /\ b.calls = {} => phoneList = ListOf(b)

(* What is written from a phone: each write of a profile is answered, the     *)
(* newest stands, and a credential's verdict is about the value in force.     *)
WritesSound == WriteAnswered /\ NewestStands /\ VerdictIsAboutValue
===============================================================================
