------------------------------ MODULE SessionList ------------------------------
(* The session list a bridge publishes, what the phone makes of it, and the   *)
(* deletion of a session: registry.rs and the heartbeat of engine/mod.rs on   *)
(* the bridge, stores/machines.rs and delete_controller.rs on the phone.      *)
(*                                                                            *)
(* Clock times are kept as ages in ticks of about an hour, capped where the   *)
(* code stops telling them apart.  A list's `rev` is its place in the window  *)
(* of lists still in flight: any of them may arrive, in any order, more than  *)
(* once, or never.                                                            *)
EXTENDS Naturals, Sequences, FiniteSets

CONSTANTS Sessions,        \* session ids
          DismissedTtl,    \* DISMISSED_TTL_MS, in ticks
          CloseRetry,      \* CLOSE_RETRY_MS, in ticks
          RecentAge,       \* TOMBSTONE_RECENT_MS, in ticks
          TombstoneCap,    \* TOMBSTONE_CAP
          MaxQueued,       \* bound: UndoTimerFired messages queued at once
          ListScenes,      \* bounds: the sessions there are, which of them come later, lists
                           \* in flight at once, the age tombstones are kept to, what may happen
          NoSession

ASSUME ListAssumption ==
    /\ DismissedTtl \in Nat \ {0}
    /\ NoSession \notin Sessions
    /\ \A scene \in ListScenes : scene.here \subseteq Sessions /\ scene.lists \in Nat \ {0}

VARIABLES listScene,       \* the one this behaviour plays
          bLive,           \* Engine::sessions that are listed
          tombs,           \* Tombstones: sequence of [id, age], oldest first
          lists,           \* lists in flight, by rev
          applied,         \* MachineView::list_rev: the index of the list applied, 0 before the window
          readies,         \* session-ready messages in flight
          view,            \* MachineView::sessions
          dismissed,       \* MachinesState::dismissed_sessions
          closeSent,       \* age of the last close-session, CloseRetry when due
          pend,            \* DeleteController::pending
          timer,           \* the undo timer is armed
          queued,          \* UndoTimerFired messages in the loop's queue
          saved,           \* what save_machines wrote last
          closes,          \* close-session commands in flight
          acks,            \* close-session-acks in flight
          goneBy,          \* history: who had the bridge drop the session
          crashed          \* history: the phone's process died

listVars == <<listScene, bLive, tombs, lists, applied, readies, view, dismissed, closeSent, pend,
              timer, queued, saved, closes, acks, goneBy, crashed>>
bridgeVars == <<bLive, tombs, goneBy>>
wireVars == <<lists, readies, closes, acks>>
undoVars == <<pend, timer, queued>>
phoneVars == <<applied, view, dismissed, closeSent, saved>>

ListingPresence == {"live", "stale", "offline"}
Dismissal == [on : BOOLEAN, age : 0..DismissedTtl, quiet : 0..DismissedTtl, closed : BOOLEAN]
NotDismissed == [on |-> FALSE, age |-> 0, quiet |-> 0, closed |-> FALSE]
CapAt(n, top) == IF n > top THEN top ELSE n
Drop(seq, P(_)) == SelectSeq(seq, LAMBDA e : ~P(e))

KeepAge == listScene.keep          \* TOMBSTONE_KEEP_MS, in ticks
MaxLists == listScene.lists
Later == listScene.later
PhoneCrashes == "crash" \in listScene.may
LateReady == "late ready" \in listScene.may

ListInit ==
    /\ listScene \in ListScenes
    /\ bLive = listScene.here
    /\ tombs = <<>> /\ lists = <<>> /\ applied = 0 /\ readies = {}
    /\ view = [s \in Sessions |-> IF s \in bLive THEN "live" ELSE "none"]
    /\ dismissed = [s \in Sessions |-> NotDismissed]
    /\ closeSent = [s \in Sessions |-> CloseRetry]
    /\ pend = NoSession /\ timer = FALSE /\ queued = 0
    /\ saved = [view |-> view, dismissed |-> dismissed, applied |-> 0]
    /\ closes = {} /\ acks = {}
    /\ goneBy = [s \in Sessions |-> "no"] /\ crashed = FALSE

(* --- the bridge: tombstones and the list ---------------------------------- *)

AddTombstone(stones, s) ==
    IF \E i \in DOMAIN stones : stones[i].id = s THEN stones
    ELSE LET grown == Append(stones, [id |-> s, age |-> 0])
         IN  IF Len(grown) > TombstoneCap THEN Tail(grown) ELSE grown

RecentIds(stones) == {stones[i].id : i \in {j \in DOMAIN stones : stones[j].age < RecentAge}}
AllIds(stones) == {stones[i].id : i \in DOMAIN stones}

(* publish_list: the shared list carries the recent tombstones, the one a     *)
(* client asked for carries all.  A full window loses its oldest list.        *)
PublishList(live, stones, own, offline) ==
    LET list == [listed |-> live, offline |-> offline,
                 removed |-> IF own THEN AllIds(stones) ELSE RecentIds(stones)]
        full == Len(lists) = MaxLists
        shift(n) == IF full /\ n > 0 THEN n - 1 ELSE n
    IN  /\ lists' = Append(IF full THEN Tail(lists) ELSE lists, list)
        /\ applied' = shift(applied)
        /\ saved' = [saved EXCEPT !.applied = shift(@)]

Heartbeat(offline) ==
    /\ offline => "shutdown" \in listScene.may
    /\ PublishList(bLive, tombs, FALSE, offline)
    /\ UNCHANGED <<bridgeVars, readies, closes, acks, view, dismissed, closeSent, undoVars, crashed>>

(* refresh-sessions: want_list, answered with every tombstone kept.           *)
Refresh ==
    /\ PublishList(bLive, tombs, TRUE, FALSE)
    /\ UNCHANGED <<bridgeVars, readies, closes, acks, view, dismissed, closeSent, undoVars, crashed>>

Create(s) ==
    /\ s \in Later /\ s \notin bLive /\ goneBy[s] = "no"
    /\ bLive' = bLive \cup {s} /\ readies' = readies \cup {s}
    /\ PublishList(bLive', tombs, FALSE, FALSE)
    /\ UNCHANGED <<tombs, goneBy, closes, acks, view, dismissed, closeSent, undoVars, crashed>>

(* on_close_session, and the flush after it: a session already gone is        *)
(* tombstoned and acknowledged too, as not found.                             *)
CloseAt(s, by) ==
    /\ bLive' = bLive \ {s}
    /\ tombs' = AddTombstone(tombs, s)
    /\ acks' = acks \cup {[id |-> s, success |-> s \in bLive]}
    /\ goneBy' = IF s \in bLive THEN [goneBy EXCEPT ![s] = by] ELSE goneBy
    /\ PublishList(bLive', tombs', FALSE, FALSE)
    /\ UNCHANGED <<readies, view, dismissed, closeSent, undoVars, crashed>>

CloseArrives(s) == s \in closes /\ closes' = closes \ {s} /\ CloseAt(s, "closed")

DeletedElsewhere(s) == "elsewhere" \in listScene.may /\ s \in bLive /\ UNCHANGED closes /\ CloseAt(s, "removed")

CloseLost(s) ==
    /\ s \in closes /\ closes' = closes \ {s}
    /\ UNCHANGED <<bridgeVars, lists, readies, acks, phoneVars, undoVars, crashed>>

(* --- the phone: applying what arrives -------------------------------------- *)

Outdated(i) == i <= applied

(* prune_dismissed: kept while the bridge was heard listing it lately, or not *)
(* heard for long enough since, by its heartbeats or by the clock.            *)
Pruned(ds) == [s \in Sessions |-> IF ds[s].quiet < DismissedTtl \/ ds[s].age < DismissedTtl
                                  THEN ds[s] ELSE NotDismissed]

(* close_sent is kept for dismissed sessions only.                            *)
SentFor(sent, ds) == [s \in Sessions |-> IF ds[s].on THEN sent[s] ELSE CloseRetry]

(* The part of apply_session_list before the merge, and the prune after it.   *)
Relisted(list) ==
    [s \in Sessions |->
        LET d == dismissed[s]
            age == IF s \in list.listed THEN 0 ELSE d.age
        IN  IF d.on THEN [d EXCEPT !.age = age, !.quiet = age] ELSE d]

(* merge_session_list, over the list less the dismissed sessions.             *)
Merged(list) ==
    [s \in Sessions |->
        IF s \in list.removed THEN "none"
        ELSE IF s \in list.listed /\ ~dismissed[s].on THEN IF list.offline THEN "offline" ELSE "live"
        ELSE IF view[s] = "none" THEN "none"
        ELSE IF list.offline THEN "offline" ELSE "stale"]

(* Mutant: also for a delete that can still be undone.                        *)
ClosesDuePending(list) ==
    {s \in list.listed : dismissed[s].on /\ ~dismissed[s].closed /\ closeSent[s] = CloseRetry}

(* Deleted sessions still listed whose close-session goes again now.          *)
ClosesDue(list) ==
    {s \in list.listed : /\ dismissed[s].on /\ ~dismissed[s].closed
                         /\ s # pend
                         /\ closeSent[s] = CloseRetry}

(* on_sessions                                                                *)
ApplyList(i) ==
    /\ i \in DOMAIN lists /\ ~Outdated(i)
    /\ LET list == lists[i]
           due == ClosesDue(list)
           kept == Pruned(Relisted(list))
       IN  /\ view' = Merged(list)
           /\ dismissed' = kept
           /\ closeSent' = SentFor([s \in Sessions |-> IF s \in due THEN 0 ELSE closeSent[s]], kept)
           /\ closes' = closes \cup due
    /\ applied' = i
    /\ UNCHANGED <<bridgeVars, lists, readies, acks, undoVars, saved, crashed>>

(* session-ready: apply_session_upsert looks at no dismissal.                 *)
ApplyReady(s) ==
    /\ s \in readies /\ (LateReady \/ ~dismissed[s].on)
    /\ readies' = readies \ {s}
    /\ view' = [view EXCEPT ![s] = "live"]
    /\ UNCHANGED <<bridgeVars, lists, closes, acks, applied, dismissed, closeSent, saved, undoVars, crashed>>

(* close-session-ack: gone from the list; noted closed only on success.       *)
ApplyAck(a) ==
    /\ a \in acks /\ acks' = acks \ {a}
    /\ view' = [view EXCEPT ![a.id] = "none"]
    /\ dismissed' = [dismissed EXCEPT ![a.id].closed = @ \/ (a.success /\ dismissed[a.id].on)]
    /\ closeSent' = [closeSent EXCEPT ![a.id] = IF a.success THEN CloseRetry ELSE @]
    /\ UNCHANGED <<bridgeVars, lists, readies, closes, applied, saved, undoVars, crashed>>

(* --- the phone: delete, undo, commit --------------------------------------- *)

(* DeleteController::commit and SendCloseSession: nothing when none pends.    *)
Committed(sent) == IF pend = NoSession THEN sent ELSE [sent EXCEPT ![pend] = 0]
CommitCloses == IF pend = NoSession THEN {} ELSE {pend}

(* request_delete: a pending delete commits first; a session not in the list  *)
(* is a double tap.                                                           *)
Delete(s) ==
    /\ closes' = closes \cup CommitCloses
    /\ IF view[s] = "none"
       THEN /\ pend' = NoSession /\ timer' = FALSE
            /\ closeSent' = Committed(closeSent)
            /\ UNCHANGED <<view, dismissed>>
       ELSE LET ds == [Pruned(dismissed) EXCEPT ![s] = [NotDismissed EXCEPT !.on = TRUE]]
            IN  /\ dismissed' = ds
                /\ closeSent' = SentFor(Committed(closeSent), ds)
                /\ view' = [view EXCEPT ![s] = "none"]
                /\ pend' = s /\ timer' = TRUE
    /\ UNCHANGED <<bridgeVars, lists, readies, acks, applied, queued, saved, crashed>>

(* undo: restore_session puts the snapshot back and lifts the dismissal.      *)
UndoDelete ==
    /\ pend # NoSession
    /\ dismissed' = [dismissed EXCEPT ![pend] = NotDismissed]
    /\ closeSent' = [closeSent EXCEPT ![pend] = CloseRetry]
    /\ view' = [view EXCEPT ![pend] = "live"]
    /\ pend' = NoSession /\ timer' = FALSE
    /\ UNCHANGED <<bridgeVars, wireVars, applied, queued, saved, crashed>>

(* The sleeping task posts its message; aborting it later removes nothing     *)
(* that is already in the queue.                                              *)
TimerElapses ==
    /\ timer /\ queued < MaxQueued
    /\ timer' = FALSE /\ queued' = queued + 1
    /\ UNCHANGED <<bridgeVars, wireVars, phoneVars, pend, crashed>>

CommitPending ==
    /\ closes' = closes \cup CommitCloses
    /\ closeSent' = Committed(closeSent)
    /\ pend' = NoSession /\ timer' = FALSE

UndoTimerFired ==
    /\ queued > 0 /\ queued' = queued - 1
    /\ CommitPending
    /\ UNCHANGED <<bridgeVars, lists, readies, acks, applied, view, dismissed, saved, crashed>>

(* --- the phone: what outlives its process ----------------------------------- *)

(* Tracked only where a crash may read it back.                               *)
Snapshot == IF PhoneCrashes THEN [view |-> view, dismissed |-> dismissed, applied |-> applied] ELSE saved

FlushListWrites ==
    /\ saved # Snapshot /\ saved' = Snapshot
    /\ UNCHANGED <<bridgeVars, wireVars, applied, view, dismissed, closeSent, undoVars, crashed>>

(* Msg::Pause: a delete that can still be undone commits, and all is written. *)
Pause ==
    /\ CommitPending
    /\ saved' = Snapshot
    /\ UNCHANGED <<bridgeVars, lists, readies, acks, applied, view, dismissed, queued, crashed>>

(* The process dies and starts again from what was written; hydrate_machines  *)
(* shows every session as offline.                                            *)
Restart ==
    /\ PhoneCrashes /\ crashed' = TRUE
    /\ view' = [s \in Sessions |-> IF saved.view[s] = "none" THEN "none" ELSE "offline"]
    /\ dismissed' = saved.dismissed /\ applied' = saved.applied
    /\ closeSent' = [s \in Sessions |-> CloseRetry]
    /\ pend' = NoSession /\ timer' = FALSE /\ queued' = 0
    /\ UNCHANGED <<bridgeVars, wireVars, saved>>

(* An hour passes.  Relays keep the newest list only, so none older than it   *)
(* is still on its way; retention drops tombstones of KeepAge.                *)
Tick ==
    LET older(ds) == [s \in Sessions |-> IF ds[s].on THEN [ds[s] EXCEPT !.age = CapAt(@ + 1, DismissedTtl)] ELSE ds[s]]
        last == Len(lists)
        atLast(n) == IF last > 0 /\ n = last THEN 1 ELSE 0
        aged == [i \in DOMAIN tombs |-> [tombs[i] EXCEPT !.age = CapAt(@ + 1, KeepAge)]]
        expired(t) == t.age >= KeepAge
    IN  /\ dismissed' = older(dismissed)
        /\ closeSent' = [s \in Sessions |-> CapAt(closeSent[s] + 1, CloseRetry)]
        /\ tombs' = Drop(aged, expired)
        /\ lists' = IF last = 0 THEN <<>> ELSE <<lists[last]>>
        /\ applied' = atLast(applied)
        /\ saved' = [view |-> saved.view, dismissed |-> older(saved.dismissed), applied |-> atLast(saved.applied)]
        /\ UNCHANGED <<bLive, goneBy, readies, closes, acks, view, undoVars, crashed>>

ListStep ==
    \/ \E offline \in BOOLEAN : Heartbeat(offline)
    \/ Refresh
    \/ \E s \in Sessions :
         \/ Create(s) \/ CloseArrives(s) \/ DeletedElsewhere(s) \/ CloseLost(s)
         \/ ApplyReady(s) \/ Delete(s)
    \/ \E i \in DOMAIN lists : ApplyList(i)
    \/ \E a \in acks : ApplyAck(a)
    \/ UndoDelete \/ TimerElapses \/ UndoTimerFired
    \/ FlushListWrites \/ Pause \/ Restart
    \/ Tick

ListNext == ListStep /\ UNCHANGED listScene

ListSpec == ListInit /\ [][ListNext]_listVars

(* --- what deleting promises -------------------------------------------------- *)

LifeOf(s) ==
    IF goneBy[s] # "no" THEN goneBy[s]
    ELSE IF pend = s THEN "hidden"
    ELSE IF dismissed[s].on THEN "deleting" ELSE "open"

Promise == INSTANCE SessionDeletes WITH life <- [s \in Sessions |-> LifeOf(s)], crashed <- crashed

(* Deleting keeps its promise (docs/CLIENT.md, "Deleting a session"): every   *)
(* step of the list, the delete controller, its timer and the retries is a    *)
(* step of SessionDeletes, so a committed delete never comes back while the   *)
(* bridge has the session, an undone one sends no close-session, and the      *)
(* bridge closes for this phone only what it deleted.                         *)
KeepsPromise == Promise!Spec

(* A session the user deleted is not shown while its dismissal lasts,         *)
(* whatever lists arrive (docs/CLIENT.md: "The session stays hidden while its *)
(* bridge still lists it").                                                   *)
StaysHidden == \A s \in Sessions : dismissed[s].on => view[s] = "none"

(* Deleting a session: the promise made to the user is kept, and the session  *)
(* stays hidden meanwhile.                                                    *)
DeletesKept == KeepsPromise /\ []StaysHidden
===============================================================================
