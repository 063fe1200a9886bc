----------------------------- MODULE Attention -----------------------------
(* What calls the user to a session on the phone: its unread dot, the OS    *)
(* notifications delivered for it, and the card of a session being created  *)
(* (client-core notifications.rs, stores/ui.rs, stores/pending_sessions.rs; *)
(* client-runtime dispatch.rs). One session of one machine, from its        *)
(* creation to its deletion on another device. The bridge's messages are    *)
(* kept in the order it sent them; relays deliver them late, never or again.*)
EXTENDS Integers, Sequences

CONSTANTS
    Cooldown,       \* NOTIFY_COOLDOWN_MS, in ticks
    PendingSweep,   \* PENDING_SWEEP_MS, in ticks
    MaxMessages, MaxTicks, MaxUser,  \* bounds
    AttScenes       \* [life: what the bridge may do, may: faults]

VARIABLES
    attScene,
    host,       \* the bridge's session: [life, state, entries, rev]
    air,        \* messages sent, in order
    got,        \* indices delivered
    ph,         \* the phone
    attNow, userActs

attVars == <<attScene, host, air, got, ph, attNow, userActs>>

AttMay(x) == x \in attScene.may
Kinds == {"asks", "finished", "failed"}
NeverYet == 0 - Cooldown

Phone0 ==
    [visible |-> TRUE, selected |-> FALSE,          \* the session is the one on screen
     unread |-> FALSE, tray |-> {},                 \* the dot; kinds notified and not cancelled
     responded |-> FALSE,                           \* UiState::responded_cards has one of its
     recent |-> [k \in Kinds |-> NeverYet],         \* NotificationCoordinator::recent
     stored |-> {}, known |-> {},                   \* seqs in the transcript; history: ever stored
     state |-> "none", rev |-> 0,                   \* the list's word
     dismissed |-> FALSE,                           \* deleted on this phone
     card |-> "none", cardAt |-> 0]                 \* PendingSessionView

----------------------------------------------------------------------------
(* What the bridge sends. An entry is "asks" (a card), "finished" (the turn *)
(* ended), "works" (agent activity).                                        *)

Sent(m) == air' = Append(air, m)
Msg3(kind, n, what) == [kind |-> kind, n |-> n, what |-> what]
ListMsg(rev, state) == Msg3("list", rev, state)

StateAfter == [asks |-> "waiting", finished |-> "idle", works |-> "running"]

\* session-pending, then session-ready or session-failed.
BridgeCreates ==
    /\ host.life = "none"
    /\ host' = [host EXCEPT !.life = "creating"]
    /\ Sent(Msg3("pending", 0, "none"))
    /\ UNCHANGED <<attScene, got, ph, attNow, userActs>>

BridgeAnswers(ok) ==
    /\ host.life = "creating"
    /\ host' = [host EXCEPT !.life = IF ok THEN "ready" ELSE "failed", !.state = IF ok THEN "idle" ELSE "none"]
    /\ Sent(Msg3(IF ok THEN "ready" ELSE "failed", 0, "none"))
    /\ UNCHANGED <<attScene, got, ph, attNow, userActs>>

\* The agent's entry goes out as live output, and the state with the next list.
BridgeOutputs(what) ==
    /\ host.life = "ready" /\ what \in attScene.life
    /\ host' = [host EXCEPT !.entries = @ + 1, !.state = StateAfter[what]]
    /\ Sent(Msg3("output", host.entries + 1, what))
    /\ UNCHANGED <<attScene, got, ph, attNow, userActs>>

\* Another device deletes the session: a list carries its tombstone from then on.
BridgeDeletes ==
    /\ host.life = "ready" /\ "deleted" \in attScene.life
    /\ host' = [host EXCEPT !.life = "gone", !.state = "gone"]
    /\ UNCHANGED <<attScene, air, got, ph, attNow, userActs>>

BridgeLists ==
    /\ host.life \in {"ready", "gone"} /\ "lists" \in attScene.life
    /\ host' = [host EXCEPT !.rev = @ + 1]
    /\ Sent(ListMsg(host.rev + 1, host.state))
    /\ UNCHANGED <<attScene, got, ph, attNow, userActs>>

----------------------------------------------------------------------------
(* The phone. *)

viewing_session(p) == p.visible /\ p.selected

\* NotificationCoordinator::emit: nothing for the session on screen, and one of
\* a kind in a cooldown.
emit(p, kind) ==
    IF viewing_session(p) \/ attNow - p.recent[kind] < Cooldown THEN p
    ELSE [p EXCEPT !.recent[kind] = attNow, !.tray = @ \cup {kind}]

\* Mutant: the session on screen is marked too.
AttendAlways(p, kind) == emit([p EXCEPT !.unread = TRUE], kind)

mark_session_unread(p) == IF viewing_session(p) THEN p ELSE [p EXCEPT !.unread = TRUE]
Attend(p, kind) == emit(mark_session_unread(p), kind)

\* classify_output_entry and is_agent_activity_entry.
Classified(p, what) == IF what = "works" THEN [p EXCEPT !.unread = FALSE] ELSE Attend(p, what)

\* Output: an entry the transcript holds already is not news; one whose write
\* failed is.
OnOutput(p, m, stores) ==
    IF p.dismissed THEN p
    ELSE IF ~ stores THEN Classified(p, m.what)
    ELSE IF m.n \in p.stored THEN p
    ELSE Classified([p EXCEPT !.stored = @ \cup {m.n}, !.known = @ \cup {m.n}], m.what)

\* SyncChunk: the same rows, without a word.
OnSyncChunk(p, n) == [p EXCEPT !.stored = @ \cup {n}, !.known = @ \cup {n}]

apply_pending(p) == [p EXCEPT !.card = "pending", !.cardAt = attNow]
apply_failed(p) == [p EXCEPT !.card = "failed"]
OnPending(p) == apply_pending(p)
OnFailed(p) == IF p.card = "failed" THEN p ELSE emit(apply_failed(p), "failed")
OnReady(p) == [p EXCEPT !.card = "none", !.state = IF @ = "none" THEN "idle" ELSE @]

\* forget_session: what was notified is cancelled when there was something kept.
forget_session(p) ==
    [p EXCEPT !.stored = {}, !.unread = FALSE, !.responded = FALSE,
              !.tray = IF p.unread \/ p.responded THEN {} ELSE @]

sweep(p) == IF p.card = "pending" /\ p.cardAt < attNow - PendingSweep THEN [p EXCEPT !.card = "none"] ELSE p

\* on_sessions: a transition into waiting, or from running to idle, calls for
\* the user; a tombstone forgets the session; a card it lists is resolved.
OnSessions(p, m) ==
    LET waits == m.what = "waiting" /\ p.state # "waiting"
        ends == m.what = "idle" /\ p.state = "running"
        q == [p EXCEPT !.rev = m.n, !.state = IF m.what = "gone" THEN "none" ELSE m.what]
        told == IF p.dismissed \/ ~ (waits \/ ends) \/ viewing_session(q) THEN q
                ELSE Attend(q, IF ends THEN "finished" ELSE "asks")
    IN  IF m.n <= p.rev THEN p
        ELSE sweep(IF m.what = "gone" THEN forget_session(told) ELSE [told EXCEPT !.card = "none"])

\* A message of the bridge arrives: the first time in order, unless relays
\* reorder; again when one relay or a resumed link sends it again.
Arrives(i, stores) ==
    LET m == air[i]
    IN
    /\ i \in got => AttMay("again")
    /\ i \notin got => AttMay("reorder") \/ \A j \in 1..(i - 1) : j \in got
    /\ ~ stores => AttMay("store error") /\ m.kind = "output"
    /\ got' = got \cup {i}
    /\ ph' = CASE m.kind = "output" -> OnOutput(ph, m, stores)
               [] m.kind = "list" -> OnSessions(ph, m)
               [] m.kind = "pending" -> OnPending(ph)
               [] m.kind = "failed" -> OnFailed(ph)
               [] m.kind = "ready" -> OnReady(ph)
               [] m.kind = "closed" -> forget_session(ph)
    /\ UNCHANGED <<attScene, host, air, attNow, userActs>>

\* A message never arrives; an entry then comes with a sync.
Lost(i) ==
    /\ AttMay("lose") /\ i \notin got /\ \A j \in 1..(i - 1) : j \in got
    /\ got' = got \cup {i}
    /\ ph' = IF air[i].kind = "output" THEN OnSyncChunk(ph, air[i].n) ELSE ph
    /\ UNCHANGED <<attScene, host, air, attNow, userActs>>

User(p) ==
    /\ userActs < MaxUser
    /\ userActs' = userActs + 1
    /\ ph' = p
    /\ UNCHANGED <<attScene, host, air, got, attNow>>

\* Viewed: the dot goes and everything delivered for the session is cancelled.
Viewed(p) == IF viewing_session(p) THEN [p EXCEPT !.unread = FALSE, !.tray = {}] ELSE p

select_session == ph.state # "none" /\ ~ ph.selected /\ User(Viewed([ph EXCEPT !.selected = TRUE]))
leave_session == ph.selected /\ User([ph EXCEPT !.selected = FALSE])
Hide == ph.visible /\ User([ph EXCEPT !.visible = FALSE])
resume_viewing == ~ ph.visible /\ User(Viewed([ph EXCEPT !.visible = TRUE]))
mark_card_responded == viewing_session(ph) /\ User([ph EXCEPT !.responded = TRUE])
dismiss == ph.card = "failed" /\ User([ph EXCEPT !.card = "none"])

\* The user deletes the session here, and the bridge acknowledges the close.
DeleteHere ==
    /\ AttMay("delete") /\ host.life = "ready" /\ ~ ph.dismissed /\ userActs < MaxUser
    /\ userActs' = userActs + 1
    /\ ph' = [ph EXCEPT !.dismissed = TRUE, !.state = "none", !.selected = FALSE]
    /\ host' = [host EXCEPT !.life = "gone", !.state = "gone"]
    /\ Sent(Msg3("closed", 0, "none"))
    /\ UNCHANGED <<attScene, got, attNow>>

\* The app is killed and started: what is kept in memory is gone, the
\* transcript, the list and what the OS shows are not.
AppRestarts ==
    /\ AttMay("restart")
    /\ User([Phone0 EXCEPT !.tray = ph.tray, !.stored = ph.stored, !.known = ph.known,
                           !.state = ph.state, !.rev = ph.rev, !.dismissed = ph.dismissed])

AttTick ==
    /\ attNow < MaxTicks
    /\ attNow' = attNow + 1
    /\ UNCHANGED <<attScene, host, air, got, ph, userActs>>

AttInit ==
    /\ attScene \in AttScenes
    /\ host = [life |-> attScene.from, state |-> IF attScene.from = "ready" THEN "idle" ELSE "none",
               entries |-> 0, rev |-> 0]
    /\ air = <<>> /\ got = {}
    /\ ph = [Phone0 EXCEPT !.state = IF attScene.from = "ready" THEN "idle" ELSE "none"]
    /\ attNow = 0 /\ userActs = 0

AttNext ==
    \/ /\ Len(air) < MaxMessages
       /\ \/ BridgeCreates \/ DeleteHere \/ BridgeAnswers(TRUE) \/ BridgeAnswers(FALSE) \/ BridgeLists
          \/ \E w \in DOMAIN StateAfter : BridgeOutputs(w)
    \/ BridgeDeletes
    \/ \E i \in DOMAIN air : Arrives(i, TRUE) \/ Arrives(i, FALSE) \/ Lost(i)
    \/ select_session \/ leave_session \/ Hide \/ resume_viewing \/ mark_card_responded \/ dismiss
    \/ AppRestarts \/ AttTick

AttSpec == AttInit /\ [][AttNext]_attVars

----------------------------------------------------------------------------

\* A session the user is looking at has no dot and nothing delivered for it,
\* whatever order its output, its lists and the app's own moves came in.
ViewedIsClean == viewing_session(ph) => ~ ph.unread /\ ph.tray = {}
=============================================================================
