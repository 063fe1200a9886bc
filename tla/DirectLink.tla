----------------------------- MODULE DirectLink -----------------------------
(***************************************************************************)
(* A direct link between one phone and its bridge: the phone's end         *)
(* (nostr-transport/direct.rs) and the bridge's hub, lanes and connection  *)
(* tasks (bridge-runtime/direct.rs).                                       *)
(*                                                                         *)
(* An event is its number; published[e] says when it was stamped and on    *)
(* which lane it rides.  A publish of the phone is its number (its token); *)
(* every frame has length 1 but the publishes in Large, which have 2.      *)
(* A frame the bridge writes reaches the phone at once or is lost with its *)
(* socket.  One bridge process: its stamps never go back.                  *)
(***************************************************************************)
EXTENDS Integers, Sequences, SequencesExt, FiniteSets

CONSTANTS MaxEvents, MaxConns, MaxCalls,   \* bounds of a behaviour
          Ids,                             \* event ids the phone publishes
          Large,                           \* the ids whose frames have length 2
          Budget,                          \* OUTBOUND_BUDGET
          Grace,                           \* RESUME_GRACE_SECS
          OutboxCap, LaneCap, TermCap,     \* OUTBOX_CAP, FRAME_LANE_CAP, TERMINAL_LANE_CAP
          MaxConnections,                  \* connections served at once
          DirectScenes                     \* sets of what may happen

VARIABLES link,       \* the phone's end
          calls,      \* its publish calls: [id, at, epoch] by token
          hub,        \* the bridge's end
          published,  \* every event: [at, term]
          heard,      \* events the phone has handed up
          doing       \* the scene
directVars == <<link, calls, hub, published, heard, doing>>

Conns == 1..MaxConns
Len1(id) == IF id \in Large THEN 2 ELSE 1

Lane == [frames |-> <<>>, term |-> <<>>, closed |-> FALSE]

\* The phone's newest starts before every event it could resume from.
DirectInit ==
  /\ doing \in DirectScenes
  /\ link = [at |-> "waiting", up |-> FALSE, conn |-> 0, newest |-> 0, close |-> FALSE,
             queue |-> <<>>, writing |-> <<>>, oks |-> <<>>, queuedBytes |-> 0, pending |-> [i \in Ids |-> 0], pendingBytes |-> 0]
  /\ calls = <<>>
  /\ hub = [paired |-> TRUE, open |-> {}, conns |-> {}, outbox |-> <<>>,
            at |-> [c \in Conns |-> "none"], since |-> [c \in Conns |-> 0],
            replay |-> [c \in Conns |-> <<>>], lane |-> [c \in Conns |-> Lane]]
  /\ published = <<>>
  /\ heard = {}

-----------------------------------------------------------------------------
(* The hub.                                                                *)

\* Forgetting a connection closes its lane, which ends its task.
Dropped(h, conns) ==
  [h EXCEPT !.conns = @ \ conns,
            !.lane = [c \in Conns |-> IF c \in conns THEN [h.lane[c] EXCEPT !.closed = TRUE] ELSE h.lane[c]]]

PushTerm(lane, e) ==
  [lane EXCEPT !.term = Append(IF Len(@) >= TermCap THEN Tail(@) ELSE @, e)]

\* A queue over its bounds is closed only when nothing was taken from it for
\* a while; that is the caller's choice of stalled.
Overfull(lane) == Len(lane.frames) >= LaneCap

\* next_created_at: strictly increasing, and at least the clock's.
Stamp(leap) == (IF published = <<>> THEN 0 ELSE Last(published).at) + 1 + leap

\* Publish an event for the identity, on the outbox first.
Deliver ==
  \E term \in (IF "terminal" \in doing THEN BOOLEAN ELSE {FALSE}), leap \in {0, Grace},
     stalled \in SUBSET {c \in hub.conns : Overfull(hub.lane[c])} :
    LET e == Len(published) + 1
        kept == IF Len(hub.outbox) >= OutboxCap THEN Tail(hub.outbox) ELSE hub.outbox
        full == IF term THEN {} ELSE stalled
        Pushed(lane) == IF term THEN PushTerm(lane, e) ELSE [lane EXCEPT !.frames = Append(@, e)]
        out == [hub EXCEPT !.outbox = Append(kept, e),
                           !.lane = [c \in Conns |-> IF c \in hub.conns \ full THEN Pushed(hub.lane[c])
                                                                               ELSE hub.lane[c]]]
    IN  /\ "events" \in doing /\ hub.paired /\ e <= MaxEvents
        /\ published' = Append(published, [at |-> Stamp(leap), term |-> term])
        /\ hub' = Dropped(out, full)
        /\ UNCHANGED <<link, calls, heard, doing>>

\* Unpairing closes the connections and forgets the events kept for them.
SetPaired ==
  /\ "unpair" \in doing
  /\ hub' = IF hub.paired THEN [Dropped(hub, hub.conns) EXCEPT !.paired = FALSE, !.outbox = <<>>]
            ELSE [hub EXCEPT !.paired = TRUE]
  /\ UNCHANGED <<link, calls, published, heard, doing>>

\* The task of connection c is over: its slot is free.
Left(h, c) == [Dropped(h, {c}) EXCEPT !.open = @ \ {c}, !.at[c] = "over"]

-----------------------------------------------------------------------------
(* The phone's end.                                                        *)

\* Stop accepting publishes and wake the serve loop.
CloseLink(k) == [k EXCEPT !.up = FALSE, !.close = TRUE]

\* A publish whose sender is dropped resolves as unanswered, later.
DropSenders(cs, tokens) ==
  [t \in DOMAIN cs |-> IF t \in tokens /\ cs[t].at = "waiting" THEN [cs[t] EXCEPT !.at = "dropped"] ELSE cs[t]]

Awaited(k) == {k.pending[i] : i \in Ids} \ {0}

TakePending(k, id) ==
  [k EXCEPT !.pending[id] = 0, !.pendingBytes = @ - (IF k.pending[id] = 0 THEN 0 ELSE Len1(id))]

TakePendingIf(k, id, token) == IF k.pending[id] = token THEN TakePending(k, id) ELSE k

\* The end of a link: forget what waited, and report it.
ServeEnds(k) ==
  [k EXCEPT !.at = "waiting", !.up = FALSE, !.conn = 0, !.queue = <<>>, !.writing = <<>>, !.oks = <<>>,
            !.queuedBytes = 0, !.pending = [i \in Ids |-> 0], !.pendingBytes = 0]

\* Dial an endpoint and say HELLO, resuming a little before the newest event
\* seen.  The bridge refuses a connection when its slots are taken.
Connect ==
  /\ link.at = "waiting"
  /\ \E c \in Conns :
       /\ hub.at[c] = "none" /\ \A d \in Conns : d < c => hub.at[d] # "none"
       /\ Cardinality(hub.open) < MaxConnections
       /\ link' = [link EXCEPT !.at = "hello", !.conn = c]
       /\ hub' = [hub EXCEPT !.open = @ \cup {c}, !.at[c] = "hello", !.since[c] = link.newest - Grace]
  /\ UNCHANGED <<calls, published, heard, doing>>

\* The bridge checks the HELLO and registers the connection.
Register ==
  \E c \in hub.open :
    /\ hub.at[c] = "hello"
    /\ hub' = IF hub.paired THEN [hub EXCEPT !.at[c] = "ready", !.conns = @ \cup {c}] ELSE Left(hub, c)
    /\ link' = IF hub.paired \/ link.conn # c THEN link ELSE [link EXCEPT !.at = "waiting", !.conn = 0]
    /\ UNCHANGED <<calls, published, heard, doing>>

\* What was kept for c since its resume point, read once READY is written.
Since(c) == SelectSeq(hub.outbox, LAMBDA e : published[e].at >= hub.since[c])

\* Mutant: the resume point moves to now once the bridge is ready.
ReplayFromReady ==
  \E c \in hub.open :
    /\ hub.at[c] = "ready"
    /\ hub' = [hub EXCEPT !.at[c] = "serving", !.replay[c] = IF c \in hub.conns THEN Since(c) ELSE <<>>]
    /\ link' = IF link.conn = c THEN [link EXCEPT !.at = "serving", !.up = TRUE, !.newest = Stamp(Grace)] ELSE link
    /\ UNCHANGED <<calls, published, heard, doing>>

Replay ==
  \E c \in hub.open :
    /\ hub.at[c] = "ready"
    /\ hub' = [hub EXCEPT !.at[c] = "serving",
                          !.replay[c] = IF c \in hub.conns THEN Since(c) ELSE <<>>]
    /\ link' = IF link.conn = c THEN [link EXCEPT !.at = "serving", !.up = TRUE] ELSE link
    /\ UNCHANGED <<calls, published, heard, doing>>

\* One frame of connection c: the replay, then the ordinary lane, and the
\* terminal's only when nothing else waits.
NextFrame(c) ==
  LET lane == hub.lane[c] IN
  CASE hub.replay[c] # <<>> -> <<Head(hub.replay[c]), [hub EXCEPT !.replay[c] = Tail(@)]>>
    [] hub.replay[c] = <<>> /\ lane.frames # <<>> -> <<Head(lane.frames), [hub EXCEPT !.lane[c].frames = Tail(@)]>>
    [] OTHER -> <<Head(lane.term), [hub EXCEPT !.lane[c].term = Tail(@)]>>

HasFrame(c) == hub.replay[c] # <<>> \/ hub.lane[c].frames # <<>> \/ (hub.lane[c].term # <<>> /\ ~hub.lane[c].closed)

\* The phone hands the event up and moves its resume point.
OnEvent(k, e) == [k EXCEPT !.newest = IF published[e].at > @ THEN published[e].at ELSE @]

SendFrame ==
  \E c \in hub.open :
    /\ hub.at[c] = "serving" /\ HasFrame(c) /\ link.conn = c
    /\ hub' = NextFrame(c)[2]
    /\ heard' = heard \cup {NextFrame(c)[1]}
    /\ link' = OnEvent(link, NextFrame(c)[1])
    /\ UNCHANGED <<calls, published, doing>>

\* A closed lane is drained, then the connection says CLOSED and ends; the
\* phone's serve loop ends with it.
LaneEnds ==
  \E c \in hub.open :
    /\ hub.at[c] = "serving" /\ ~HasFrame(c) /\ hub.lane[c].closed
    /\ hub' = Left(hub, c)
    /\ IF link.conn = c THEN link' = ServeEnds(link) /\ calls' = DropSenders(calls, Awaited(link))
                        ELSE UNCHANGED <<link, calls>>
    /\ UNCHANGED <<published, heard, doing>>

\* The phone's socket fails, or its serve loop takes the permit to close; what
\* the bridge was writing is lost, and it notices only later.
LinkFails ==
  /\ link.conn # 0 /\ ("fail" \in doing \/ (link.close /\ link.at = "serving"))
  /\ \E kept \in BOOLEAN :
       /\ kept => link.close /\ "fail" \in doing
       /\ link.close /\ link.at = "hello" => kept
       /\ link' = [ServeEnds(link) EXCEPT !.close = kept]
  /\ calls' = DropSenders(calls, Awaited(link))
  /\ \E lost \in BOOLEAN :
       /\ lost => hub.at[link.conn] = "serving" /\ HasFrame(link.conn)
       /\ hub' = IF lost THEN NextFrame(link.conn)[2] ELSE hub
  /\ UNCHANGED <<published, heard, doing>>

\* With every sender gone (a publish holds one while it waits) the serve loop
\* may also see its queue closed, and leave the permit for the next link.
QueueClosed ==
  /\ link.at = "serving" /\ ~link.up /\ link.queue \o link.writing = <<>>
  /\ \A t \in DOMAIN calls : calls[t].conn = link.conn => calls[t].at = "ended"
  /\ link' = ServeEnds(link)
  /\ calls' = DropSenders(calls, Awaited(link))
  /\ UNCHANGED <<hub, published, heard, doing>>

\* The bridge's task of a connection the phone has left: its write fails, or
\* it has been silent too long.
ConnectionIdles ==
  \E c \in hub.open : /\ hub.at[c] \in {"hello", "ready", "serving"} /\ link.conn # c
                      /\ hub' = Left(hub, c)
                      /\ UNCHANGED <<link, calls, published, heard, doing>>

-----------------------------------------------------------------------------
(* The phone's publishes.                                                  *)

DirectPublish ==
  \E id \in Ids :
    LET t == Len(calls) + 1
        freed == TakePending(link, id)
        replaced == DropSenders(calls, {link.pending[id]})
        over == freed.queuedBytes + freed.pendingBytes + Len1(id) > Budget
    IN  /\ "publish" \in doing /\ link.up /\ t <= MaxCalls
        /\ IF over
           THEN /\ link' = CloseLink(freed)
                /\ calls' = Append(replaced, [id |-> id, at |-> "ended", conn |-> link.conn])
           ELSE /\ link' = [freed EXCEPT !.pending[id] = t, !.pendingBytes = @ + Len1(id),
                                         !.queue = Append(@, id), !.queuedBytes = @ + Len1(id)]
                /\ calls' = Append(replaced, [id |-> id, at |-> "waiting", conn |-> link.conn])
        /\ UNCHANGED <<hub, published, heard, doing>>

\* The serve loop writes the head of its queue; its bytes count until it is
\* written.
WriteStarts ==
  /\ link.at = "serving" /\ link.writing = <<>> /\ link.queue # <<>>
  /\ link' = [link EXCEPT !.writing = <<Head(link.queue)>>, !.queue = Tail(@)]
  /\ UNCHANGED <<calls, hub, published, heard, doing>>

\* Written: the bridge will answer it.
WriteDone ==
  /\ link.writing # <<>>
  /\ link' = [link EXCEPT !.queuedBytes = @ - Len1(link.writing[1]), !.writing = <<>>, !.oks = @ \o link.writing]
  /\ UNCHANGED <<calls, hub, published, heard, doing>>

\* The bridge's OK, in the order it was asked, ends whichever publish of
\* that event waits.
BridgeOk ==
  /\ link.oks # <<>>
  /\ LET id == Head(link.oks) t == link.pending[Head(link.oks)] IN
     /\ link' = [TakePending(link, id) EXCEPT !.oks = Tail(@)]
     /\ calls' = IF t = 0 THEN calls ELSE [calls EXCEPT ![t].at = "ended"]
  /\ UNCHANGED <<hub, published, heard, doing>>

\* A publish gives up, or wakes with its sender dropped: it removes its own
\* entry only.
PublishUnanswered ==
  \E t \in DOMAIN calls :
    /\ calls[t].at \in {"waiting", "dropped"}
    /\ link' = TakePendingIf(link, calls[t].id, t)
    /\ calls' = [calls EXCEPT ![t].at = "ended"]
    /\ UNCHANGED <<hub, published, heard, doing>>

-----------------------------------------------------------------------------
DirectNext == Deliver \/ SetPaired \/ Connect \/ Register \/ Replay \/ SendFrame \/ LaneEnds \/ LinkFails
              \/ QueueClosed \/ ConnectionIdles \/ DirectPublish \/ WriteStarts \/ WriteDone \/ BridgeOk
              \/ PublishUnanswered

DirectSpec == DirectInit /\ [][DirectNext]_directVars

\* What connection c will still send.
Coming(c) == Range(hub.replay[c]) \cup Range(hub.lane[c].frames)

\* A link resumes without a gap: an ordinary event still kept for the phone
\* that it has not heard is on its way over the link it has, or will be asked
\* for by the next HELLO (direct.rs: register before since).
Resumable ==
  \A e \in Range(hub.outbox) \ heard :
    ~published[e].term =>
      LET c == link.conn IN
      CASE c # 0 /\ c \in hub.conns /\ hub.at[c] = "serving" -> e \in Coming(c)
        [] c # 0 /\ hub.at[c] \in {"hello", "ready"} ->
             published[e].at >= hub.since[c] \/ e \in Coming(c)
        [] OTHER -> e \in (IF c = 0 THEN {} ELSE Coming(c)) \/ published[e].at >= link.newest - Grace

SumLen(ids) == FoldLeft(LAMBDA n, i : n + Len1(i), 0, ids)

\* The frames queued or being written.
Outgoing == link.queue \o link.writing

\* The publishes awaiting an answer.
PendingIds == {i \in Ids : link.pending[i] # 0}

\* "Byte cap on `queued_bytes + pending_bytes`".  In no run: a publish counts its
\* frame in both and checks it against the budget once, so the sum may pass the
\* budget by that frame.
BudgetOnSum == link.queuedBytes + link.pendingBytes <= Budget

\* The bytes counted against the outbound budget are those of the frames queued
\* or being written and of the publishes awaiting an answer, and what the link
\* buffers, a frame that is both counted once, stays within the budget
\* (OUTBOUND_BUDGET).
BudgetExact ==
  /\ link.queuedBytes = SumLen(Outgoing)
  /\ link.pendingBytes = SumLen(SetToSeq(PendingIds))
  /\ link.queuedBytes + SumLen(SetToSeq(PendingIds \ Range(Outgoing))) <= Budget

\* A publish waits until it is answered, gives up, is replaced by a later
\* publish of its event or loses its link: an earlier publish of the same
\* event ending late never ends it (take_pending_if).
OnlyItsOwn ==
  \A t \in DOMAIN calls :
    calls[t].at = "waiting" => link.pending[calls[t].id] = t

\* The direct link end to end: it resumes without a gap, its budget counts and
\* bounds what is there, and a late end of one publish never ends another's.
DirectSound == Resumable /\ BudgetExact /\ OnlyItsOwn
=============================================================================
