-------------------------------- MODULE Outbox --------------------------------
(* The messages a user sends: stores/outbox.rs on the phone, from the intent  *)
(* that sends or retries one to the bridge's input-ack or input-failed.  An   *)
(* attempt is published by a task of its own, so its outcome, the bridge's    *)
(* answer and the confirm timeout arrive in any order.                        *)
EXTENDS Naturals, FiniteSets, Sequences, SequencesExt

CONSTANTS MaxItem,          \* bound: messages sent, numbered in the order they are written
          MaxOutboxItems,   \* MAX_OUTBOX_ITEMS
          MaxAttempts,      \* bound: attempts per message
          MaxRetried,       \* bound: messages written when one is last retried
          ConfirmTimeout    \* OUTBOX_CONFIRM_TIMEOUT_MS, in ticks

VARIABLES items,        \* OutboxState::items, also on disk: every change is written at once
          publishing,   \* attempts whose publish has not settled: [id, n, there]
          onRelay,      \* attempts a relay holds for the bridge
          answers,      \* input-acks and input-faileds in flight
          sessionOpen,  \* the bridge runs the session
          ran,          \* history: times the bridge gave the message to its agent
          everSent,     \* history: messages written so far
          heard,        \* history: messages whose input-ack was read
          dropped       \* history: messages forgotten with their session, or resolved once

outboxVars == <<items, publishing, onRelay, answers, sessionOpen, ran, everSent, heard, dropped>>

Ids == 1..MaxItem
OutboxItemState == {"none", "pending", "published", "confirmed", "failed"}
OutboxItem == [state : OutboxItemState, attempts : 0..MaxAttempts, age : 0..ConfirmTimeout]
NoItem == [state |-> "none", attempts |-> 0, age |-> 0]
IsResolved(item) == item.state \in {"confirmed", "failed"}
IsUnresolved(item) == item.state \in {"pending", "published"}

OutboxInit ==
    /\ items = [i \in Ids |-> NoItem]
    /\ publishing = {} /\ onRelay = {} /\ answers = {} /\ sessionOpen = TRUE
    /\ ran = [i \in Ids |-> 0] /\ everSent = 0 /\ heard = {} /\ dropped = {}

(* Mutant: past the cap the oldest go, resolved or not.                       *)
PutOldest(held, i, item) ==
    LET all == [held EXCEPT ![i] = item]
        present == {j \in Ids : all[j].state # "none"}
    IN  [j \in Ids |-> IF Cardinality({k \in present : k >= j}) > MaxOutboxItems THEN NoItem ELSE all[j]]

(* put: past the cap the oldest resolved items go, never the one just written *)
(* and never an unresolved one.                                               *)
Put(held, i, item) ==
    LET all == [held EXCEPT ![i] = item]
        present == {j \in Ids : all[j].state # "none"}
        excess == Cardinality(present) - MaxOutboxItems
        victims == {j \in present \ {i} : IsResolved(all[j])}
        evicted == {j \in victims : Cardinality({k \in victims : k < j}) < excess}
    IN  IF Cardinality(present) <= MaxOutboxItems THEN all
        ELSE [j \in Ids |-> IF j \in evicted THEN NoItem ELSE all[j]]

BeginPublish(i, item) ==
    /\ items' = Put(items, i, [item EXCEPT !.state = "pending", !.attempts = @ + 1, !.age = 0])
    /\ publishing' = publishing \cup {[id |-> i, n |-> item.attempts + 1, there |-> FALSE]}

(* Intent::SendInput *)
SendInput ==
    /\ everSent < MaxItem
    /\ everSent' = everSent + 1
    /\ BeginPublish(everSent + 1, NoItem)
    /\ UNCHANGED <<onRelay, answers, sessionOpen, ran, heard, dropped>>

(* Intent::RetryOutboxItem, mark_retry *)
RetryOutboxItem(i) ==
    /\ items[i].state = "failed" /\ items[i].attempts < MaxAttempts /\ everSent <= MaxRetried
    /\ BeginPublish(i, items[i])
    /\ UNCHANGED <<onRelay, answers, sessionOpen, ran, everSent, heard, dropped>>

(* A relay, or the direct link, takes the event before the phone knows it.    *)
RelayTakes(p) ==
    /\ p \in publishing /\ ~p.there
    /\ publishing' = (publishing \ {p}) \cup {[p EXCEPT !.there = TRUE]}
    /\ onRelay' = onRelay \cup {[id |-> p.id, n |-> p.n]}
    /\ UNCHANGED <<items, answers, sessionOpen, ran, everSent, heard, dropped>>

(* PublishSettled, settle_publish: a verdict already recorded wins.           *)
OutboxSettled(i, accepted) ==
    IF ~IsUnresolved(items[i]) THEN items
    ELSE Put(items, i, IF accepted THEN [items[i] EXCEPT !.state = "published", !.age = 0]
                       ELSE [items[i] EXCEPT !.state = "failed"])

PublishSettles(p, accepted) ==
    /\ p \in publishing /\ publishing' = publishing \ {p}
    /\ items' = OutboxSettled(p.id, accepted)
    /\ dropped' = dropped \cup (IF accepted THEN {} ELSE {p.id})
    /\ UNCHANGED <<onRelay, answers, sessionOpen, ran, everSent, heard>>

(* Engine::on_input: an input for a session that runs is given to its agent   *)
(* and acknowledged; the same inputId twice is given to it twice.             *)
BridgeTakesInput(e) ==
    /\ e \in onRelay /\ onRelay' = onRelay \ {e}
    /\ ran' = IF sessionOpen THEN [ran EXCEPT ![e.id] = @ + 1] ELSE ran
    /\ answers' = answers \cup {[id |-> e.id, ok |-> sessionOpen]}
    /\ UNCHANGED <<items, publishing, sessionOpen, everSent, heard, dropped>>

EventLost(e) ==
    /\ e \in onRelay /\ onRelay' = onRelay \ {e}
    /\ UNCHANGED <<items, publishing, answers, sessionOpen, ran, everSent, heard, dropped>>

SessionStops ==
    /\ sessionOpen /\ sessionOpen' = FALSE
    /\ UNCHANGED <<items, publishing, onRelay, answers, ran, everSent, heard, dropped>>

Answered(i, ok) ==
    CASE ok /\ items[i].state \notin {"none", "confirmed"} -> Put(items, i, [items[i] EXCEPT !.state = "confirmed"])
      [] ~ok /\ IsUnresolved(items[i]) -> Put(items, i, [items[i] EXCEPT !.state = "failed"])
      [] OTHER -> items

(* InputAck: confirm, from any state.  InputFailed: fail, unless a verdict is *)
(* in.  Either may be lost, or come again over another relay.                 *)
AnswerArrives(a) ==
    /\ a \in answers /\ (answers' = answers \ {a} \/ answers' = answers)
    /\ items' = Answered(a.id, a.ok)
    /\ heard' = IF a.ok /\ items[a.id].state # "none" THEN heard \cup {a.id} ELSE heard
    /\ dropped' = dropped \cup {a.id}
    /\ UNCHANGED <<publishing, onRelay, sessionOpen, ran, everSent>>

Due == {i \in Ids : IsUnresolved(items[i]) /\ items[i].age >= ConfirmTimeout}

(* sweep: on every heartbeat and on each reconnect.                           *)
SweepOutbox ==
    /\ Due # {}
    /\ items' = FoldLeft(LAMBDA held, i : Put(held, i, [held[i] EXCEPT !.state = "failed"]), items,
                         SetToSortSeq(Due, <))
    /\ dropped' = dropped \cup Due
    /\ UNCHANGED <<publishing, onRelay, answers, sessionOpen, ran, everSent, heard>>

(* forget_session, forget_machine *)
ForgetSession ==
    /\ items' = [i \in Ids |-> NoItem]
    /\ dropped' = 1..everSent
    /\ UNCHANGED <<publishing, onRelay, answers, sessionOpen, ran, everSent, heard>>

(* The app is killed: the items are on disk, the tasks publishing them go.    *)
AppKilled ==
    /\ publishing # {} /\ publishing' = {}
    /\ UNCHANGED <<items, onRelay, answers, sessionOpen, ran, everSent, heard, dropped>>

OutboxTick ==
    /\ items' = [i \in Ids |-> IF IsUnresolved(items[i]) /\ items[i].age < ConfirmTimeout
                               THEN [items[i] EXCEPT !.age = @ + 1] ELSE items[i]]
    /\ UNCHANGED <<publishing, onRelay, answers, sessionOpen, ran, everSent, heard, dropped>>

OutboxNext ==
    \/ SendInput \/ SweepOutbox \/ ForgetSession \/ AppKilled \/ SessionStops \/ OutboxTick
    \/ \E i \in Ids : RetryOutboxItem(i)
    \/ \E p \in publishing : RelayTakes(p) \/ \E accepted \in BOOLEAN : PublishSettles(p, accepted)
    \/ \E e \in onRelay : BridgeTakesInput(e) \/ EventLost(e)
    \/ \E a \in answers : AnswerArrives(a)

OutboxSpec == OutboxInit /\ [][OutboxNext]_outboxVars

(* "Nothing the user sends silently vanishes" (outbox.rs:1): a message is     *)
(* held until it has a verdict or its session is forgotten, however many are  *)
(* sent; one shown as confirmed was given to the agent; and once its ack was  *)
(* read no late publish outcome, failure or sweep takes the verdict back.     *)
NothingVanishes ==
    /\ items \in [Ids -> OutboxItem]
    /\ \A i \in 1..everSent :
        /\ items[i].state = "none" => i \in dropped
        /\ items[i].state = "confirmed" => ran[i] > 0
        /\ i \in heard => items[i].state \in {"confirmed", "none"}

(* Every message gets a verdict: confirmed, failed with a retry, or forgotten *)
(* with its session, whatever is lost on the way.                             *)
SendsResolve == \A i \in Ids : IsUnresolved(items[i]) ~> ~IsUnresolved(items[i])
===============================================================================
