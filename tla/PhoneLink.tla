------------------------------ MODULE PhoneLink ------------------------------
(***************************************************************************)
(* The phone's connection to the relays: the connection state machine of   *)
(* client-core/src/connection.rs, the subscription client of               *)
(* client-runtime/src/nostr_client.rs, and the part of the core's event    *)
(* loop (client-runtime/src/runtime.rs) that drives the two.               *)
(*                                                                         *)
(* The loop takes one message at a time from a queue.  The host app, the   *)
(* timers and the transport's callbacks only post to that queue, so what a *)
(* message says can be out of date by the time the loop reads it.  ph is   *)
(* everything the loop owns; ph.subs is what the transport really holds.   *)
(* Ages are in watchdog periods, NoAge where the code has None.            *)
(***************************************************************************)
EXTENDS Integers, Sequences, TLAPS

CONSTANTS MaxPosts,       \* bound on what the host app posts
          MaxFaults,      \* bound on what goes wrong in the network
          MaxQueue,       \* nothing outside the loop posts to a queue this long
          ConnectDeadline, StaleAfter,   \* in watchdog periods
          LinkScenes      \* [paired, may]: paired at the start; what the host app
                          \* posts and what else happens

VARIABLES ph, net, posts, faults, setting

linkVars == <<ph, net, posts, faults, setting>>

NoAge == -1
Msg(k) == [kind |-> k, epoch |-> 0]
Post(p, m) == [p EXCEPT !.queue = Append(@, m)]
Queued(p, k) == \E i \in DOMAIN p.queue : p.queue[i].kind = k

(***************************************************************************)
(* The subscription client.                                                *)
(***************************************************************************)
\* A superseded subscription's callbacks are ignored, so closing it is all.
Disconnect(p) == [p EXCEPT !.subs = "none"]

\* connect(): with nobody to subscribe to it reports open at once.
ConnectClient(p) ==
    IF p.paired THEN [p EXCEPT !.subs = "opening", !.fresh = FALSE]
                ELSE Post(Disconnect(p), Msg("SocketOpen"))

(***************************************************************************)
(* Effects of the state machine, as the loop applies them.                 *)
(***************************************************************************)
OpenSocket(p)  == ConnectClient([p EXCEPT !.dial = 0])
CancelRetry(p) == [p EXCEPT !.retry = FALSE]
Connecting(p)  == OpenSocket(CancelRetry([p EXCEPT !.status = "Connecting"]))
CloseSocket(p) == Disconnect(p)

\* sync_stale_watchdog: ticking where it has work, else disarmed.
SyncWatchdog(p) == [p EXCEPT !.dog = p.status \in {"Connecting", "Connected"} \/ p.linkUp]

\* track_connecting_since and the watchdog, around a reducer step from p to q.
Settled(p, q) ==
    LET clocked == IF q.status = "Connecting" THEN q ELSE [q EXCEPT !.dial = NoAge]
    IN  IF q.status # p.status THEN SyncWatchdog(clocked) ELSE clocked

(***************************************************************************)
(* connection_reducer, one definition per event.                           *)
(***************************************************************************)
ConnectRequested(p) ==
    Settled(p, IF p.status \in {"Connected", "Connecting"} THEN p
               ELSE IF ~p.online THEN [p EXCEPT !.status = "Offline"]
               ELSE Connecting(p))

DisconnectRequested(p) ==
    Settled(p, CloseSocket(CancelRetry([p EXCEPT !.status = "Stopped", !.hiding = FALSE, !.vis = FALSE])))

Online(p) ==
    LET q == [p EXCEPT !.online = TRUE]
    IN  Settled(p, IF p.status \in {"Offline", "WaitingRetry"} THEN Connecting(q) ELSE q)

Offline(p) ==
    LET q == [p EXCEPT !.online = FALSE]
    IN  Settled(p, IF p.status \in {"Stopped", "Idle"} THEN q
                   ELSE CloseSocket(CancelRetry([q EXCEPT !.status = "Offline"])))

Shown(p) ==
    LET q == [p EXCEPT !.visible = TRUE, !.hiding = FALSE, !.vis = @ /\ ~p.hiding]
    IN  Settled(p, IF p.online /\ p.status \in {"WaitingRetry", "Idle"} THEN Connecting(q) ELSE q)

\* Going hidden is debounced; a healthy socket is never torn down for it.
Hidden(p) == IF p.hiding THEN p ELSE [p EXCEPT !.hiding = TRUE, !.vis = TRUE]

\* A settle with no hide pending is a late one.
VisibilitySettled(p) == IF p.hiding THEN [p EXCEPT !.visible = FALSE, !.hiding = FALSE] ELSE p

Resumed(p) ==
    Settled(p, IF p.status = "Connected" THEN Post(p, Msg("ResumeReconcile"))
               ELSE IF p.status = "Stopped" \/ ~p.online THEN p
               ELSE Connecting(p))

SocketOpen(p) ==
    IF p.status = "Stopped" THEN p
    ELSE Settled(p, Post(CancelRetry([p EXCEPT !.status = "Connected", !.opened = 0]), Msg("RefreshReconcile")))

\* Mutant: a backoff without its timer.
SocketCloseWaits(p) ==
    IF p.status \in {"Stopped", "Offline", "Idle"} THEN p
    ELSE Settled(p, IF p.online THEN [p EXCEPT !.status = "WaitingRetry"] ELSE CancelRetry([p EXCEPT !.status = "Offline"]))

SocketClose(p) ==
    IF p.status \in {"Stopped", "Offline", "Idle"} THEN p
    ELSE Settled(p, IF p.online THEN [p EXCEPT !.status = "WaitingRetry", !.retry = TRUE]
                    ELSE CancelRetry([p EXCEPT !.status = "Offline"]))

RetryDue(p) ==
    IF p.status # "WaitingRetry" \/ ~p.online THEN p
    ELSE Settled(p, OpenSocket([p EXCEPT !.status = "Connecting"]))

HeartbeatReceived(p) == [p EXCEPT !.beat = 0]

(***************************************************************************)
(* The watchdog's checks.                                                  *)
(***************************************************************************)
\* An attempt that never reached EOSE is reported as a lost socket; no time
\* counts against it while the app is hidden.
CheckConnectDeadline(p) ==
    IF p.visible /\ p.status = "Connecting" /\ p.dial >= ConnectDeadline
       THEN SocketClose([p EXCEPT !.dial = NoAge]) ELSE p

\* Connected, a whole stale window since the open, and every heartbeat heard
\* this run older than that.
HeartbeatsAllStale(p) == p.status = "Connected" /\ p.opened > StaleAfter /\ p.beat > StaleAfter

\* Mutant: only a socket that reports its end is redialled.
StaleHeartbeatsIgnored(p) == p

CheckStaleHeartbeats(p) == IF HeartbeatsAllStale(p) THEN SocketClose(p) ELSE p

(***************************************************************************)
(* The loop: what it does with each message.                               *)
(***************************************************************************)
OnStart(p) == [ConnectRequested([p EXCEPT !.stops = @ + 1, !.leaving = FALSE]) EXCEPT !.linksOn = TRUE]

\* say_away: stopping waits for the farewells; OnStopped then stops, unless
\* a start since took it back.
OnStop(p) == [p EXCEPT !.stops = @ + 1, !.leaving = TRUE]

\* stop_now also closes the direct link, which reports itself down.
OnStopped(p, epoch) ==
    IF epoch # p.stops THEN p
    ELSE LET q == [DisconnectRequested(p) EXCEPT !.dog = FALSE, !.linksOn = FALSE, !.link = FALSE]
         IN  IF p.link THEN Post(q, Msg("LinkDown")) ELSE q

OnResume(p) == Resumed(Shown(p))

\* The wake-up's probe: a retry stalled in sleep is due, and the dead
\* subscription check runs.
OnKeepalive(p) == CheckStaleHeartbeats(RetryDue(p))

OnStaleWatchdog(p) == SyncWatchdog(CheckStaleHeartbeats(CheckConnectDeadline(p)))

\* refresh_authors: a machine was paired.
OnPaired(p) ==
    LET q == [p EXCEPT !.paired = TRUE]
    IN  IF p.status \in {"Connected", "Connecting"} THEN ConnectClient(q) ELSE q

\* A link coming or going arms a watchdog that is not ticking, only.
OnDirectState(p, up) ==
    LET q == [p EXCEPT !.linkUp = up]
    IN  IF p.linkUp = up \/ p.dog THEN q ELSE SyncWatchdog(q)

OnRefreshReconcile(p) == [p EXCEPT !.fresh = TRUE]

Handled(p, m) ==
    CASE m.kind = "Start" -> OnStart(p)
      [] m.kind = "Stop" -> OnStop(p)
      [] m.kind = "Stopped" -> OnStopped(p, m.epoch)
      [] m.kind = "Pause" -> Hidden(p)
      [] m.kind = "Resume" -> OnResume(p)
      [] m.kind = "Keepalive" -> OnKeepalive(p)
      [] m.kind = "Online" -> Online(p)
      [] m.kind = "Offline" -> Offline(p)
      [] m.kind = "Paired" -> OnPaired(p)
      [] m.kind = "SocketOpen" -> SocketOpen(p)
      [] m.kind = "SocketClose" -> SocketClose(p)
      [] m.kind = "RetryDue" -> RetryDue(p)
      [] m.kind = "VisibilitySettled" -> VisibilitySettled(p)
      [] m.kind = "StaleWatchdog" -> OnStaleWatchdog(p)
      [] m.kind = "LinkUp" -> OnDirectState(p, TRUE)
      [] m.kind = "LinkDown" -> OnDirectState(p, FALSE)
      [] m.kind = "RefreshReconcile" -> OnRefreshReconcile(p)
      [] m.kind = "ResumeReconcile" -> p

LoopStep ==
    /\ ph.queue # <<>>
    /\ ph' = Handled([ph EXCEPT !.queue = Tail(@)], Head(ph.queue))
    /\ UNCHANGED <<net, posts, faults, setting>>

(***************************************************************************)
(* Who posts to the loop.                                                  *)
(***************************************************************************)
Room == Len(ph.queue) < MaxQueue

HostPosts(k) ==
    /\ k \in setting.may /\ posts < MaxPosts /\ Room
    /\ posts' = posts + 1
    /\ k = "Paired" => ~ph.paired
    /\ k = "Online" => ~net
    /\ k = "Offline" => net
    /\ net' = IF k = "Online" THEN TRUE ELSE IF k = "Offline" THEN FALSE ELSE net
    /\ ph' = Post(ph, Msg(k))
    /\ UNCHANGED <<faults, setting>>

FarewellsSettle ==
    /\ ph.leaving
    /\ ph' = Post([ph EXCEPT !.leaving = FALSE], [kind |-> "Stopped", epoch |-> ph.stops])
    /\ UNCHANGED <<net, posts, faults, setting>>

RetryTimer ==
    /\ ph.retry
    /\ ph' = Post([ph EXCEPT !.retry = FALSE], Msg("RetryDue"))
    /\ UNCHANGED <<net, posts, faults, setting>>

VisibilityTimer ==
    /\ ph.vis
    /\ ph' = Post([ph EXCEPT !.vis = FALSE], Msg("VisibilitySettled"))
    /\ UNCHANGED <<net, posts, faults, setting>>

Aged(a, most) == IF a = NoAge \/ a > most THEN a ELSE a + 1

\* The watchdog fires: a period has gone by.  The loop has read the last one,
\* and a relay that answers a dial has done so by then (a slower one has gone
\* quiet and may answer later).
WatchdogTimer ==
    /\ ph.dog /\ ~Queued(ph, "StaleWatchdog") /\ ~(ph.subs = "opening" /\ net)
    /\ ph' = Post([ph EXCEPT !.dog = FALSE, !.dial = Aged(@, ConnectDeadline - 1),
                             !.opened = Aged(@, StaleAfter), !.beat = Aged(@, StaleAfter)],
                  Msg("StaleWatchdog"))
    /\ UNCHANGED <<net, posts, faults, setting>>

\* Every filter's EOSE is in.
Eose ==
    /\ ph.subs \in {"opening", "hung"}
    /\ ph' = Post([ph EXCEPT !.subs = "open"], Msg("SocketOpen"))
    /\ UNCHANGED <<net, posts, faults, setting>>

\* One class of subscription ends: the epoch is torn down, one close is told.
SubscriptionEnds ==
    /\ ph.subs # "none" /\ faults < MaxFaults
    /\ faults' = faults + 1
    /\ ph' = Post(Disconnect(ph), Msg("SocketClose"))
    /\ UNCHANGED <<net, posts, setting>>

\* A relay stops answering without closing anything.
RelayGoesQuiet ==
    /\ "quiet" \in setting.may /\ faults < MaxFaults
    /\ faults' = faults + 1
    /\ \/ ph.subs = "opening" /\ ph' = [ph EXCEPT !.subs = "hung"]
       \/ ph.subs = "open" /\ ph.beat # NoAge /\ ph' = [ph EXCEPT !.subs = "deaf"]
    /\ UNCHANGED <<net, posts, setting>>

HeartbeatArrives ==
    /\ ph.subs = "open" /\ net /\ ph.beat # 0
    /\ ph' = HeartbeatReceived(ph)
    /\ UNCHANGED <<net, posts, faults, setting>>

DirectLinkChanges ==
    /\ "link" \in setting.may /\ ph.linksOn /\ Room /\ faults < MaxFaults
    /\ faults' = faults + 1
    /\ ph' = Post([ph EXCEPT !.link = ~@], Msg(IF ph.link THEN "LinkDown" ELSE "LinkUp"))
    /\ UNCHANGED <<net, posts, setting>>

ASSUME LinkAssumption == \A s \in LinkScenes : s.paired \in BOOLEAN

LinkInit ==
    /\ \E s \in LinkScenes :
          /\ setting = s
          /\ ph = [status |-> "Idle", online |-> TRUE, visible |-> TRUE, hiding |-> FALSE,
                   opened |-> NoAge, beat |-> NoAge, dial |-> NoAge,
                   retry |-> FALSE, vis |-> FALSE, dog |-> FALSE,
                   stops |-> 0, leaving |-> FALSE, linksOn |-> FALSE, link |-> FALSE, linkUp |-> FALSE,
                   paired |-> s.paired, subs |-> "none", fresh |-> FALSE, queue |-> <<>>]
    /\ net = TRUE /\ posts = 0 /\ faults = 0

HostMessages == {"Start", "Stop", "Pause", "Resume", "Keepalive", "Online", "Offline", "Paired"}

LinkNext ==
    \/ LoopStep
    \/ \E k \in HostMessages : HostPosts(k)
    \/ FarewellsSettle \/ RetryTimer \/ VisibilityTimer \/ WatchdogTimer
    \/ Eose \/ SubscriptionEnds \/ RelayGoesQuiet \/ HeartbeatArrives \/ DirectLinkChanges

LinkSpec == LinkInit /\ [][LinkNext]_linkVars

(***************************************************************************)
(* Properties.                                                             *)
(***************************************************************************)
\* Whatever state the connection is in, what moves it on is there: a backoff
\* wait has its retry timer (or the retry is in the queue), a connect attempt,
\* an open connection and a direct link that is up have the watchdog
\* (runtime.rs sync_stale_watchdog, connection.rs ScheduleRetry).
NeverStranded ==
    /\ ph.status = "WaitingRetry" => ph.retry \/ Queued(ph, "RetryDue")
    /\ ph.status \in {"Connecting", "Connected"} \/ (ph.linkUp /\ ph.link)
          => ph.dog \/ Queued(ph, "StaleWatchdog")
    /\ ph.hiding => ph.vis \/ Queued(ph, "VisibilitySettled")

\* Each time subscriptions open, the phone reconciles with its machines after
\* they did: nothing missed while they were down waits for the next reconnect
\* (connection.rs SocketOpen -> RefreshAndReconcile).
Reconciled ==
    ph.status = "Connected" /\ ph.subs = "open" =>
        ph.fresh \/ \E k \in {"SocketOpen", "SocketClose", "RefreshReconcile"} : Queued(ph, k)

\* The user wants a connection and the network would carry one.
Wanted == ph.status \notin {"Idle", "Stopped"} /\ ph.online /\ ph.visible /\ net /\ ph.paired

\* A phone that is started, online and in the foreground, and has heard a
\* heartbeat since it started, gets back to open subscriptions whatever went
\* wrong before: sockets lost, relays gone quiet, callbacks of an earlier
\* attempt read late (connection.rs connection_reducer, runtime.rs watchdog).
Reconnects == <>[](Wanted /\ ph.beat # NoAge) => []<>(ph.status = "Connected" /\ ph.subs = "open")

\* No state of the connection is one it stays in: its timer is there, and what
\* was missed is asked for once it is up.
LinkSound == NeverStranded /\ Reconciled

(***************************************************************************)
(* Proof that the connection never rests without its timer.                *)
(***************************************************************************)
Status == {"Idle", "Connecting", "Connected", "WaitingRetry", "Offline", "Stopped"}
LoopMessages == HostMessages \cup {"Stopped", "SocketOpen", "SocketClose", "RetryDue", "VisibilitySettled", "StaleWatchdog",
                                   "LinkUp", "LinkDown", "RefreshReconcile", "ResumeReconcile"}
Messages == [kind : LoopMessages, epoch : Nat]
PhoneState == [status : Status, online : BOOLEAN, visible : BOOLEAN, hiding : BOOLEAN, opened : Int, beat : Int, dial : Int,
          retry : BOOLEAN, vis : BOOLEAN, dog : BOOLEAN, stops : Nat, leaving : BOOLEAN, linksOn : BOOLEAN, link : BOOLEAN,
          linkUp : BOOLEAN, paired : BOOLEAN, subs : {"none", "opening", "hung", "open", "deaf"}, fresh : BOOLEAN, queue : Seq(Messages)]

\* The message is in the queue, or is the one the loop has just taken from it.
OnItsWay(p, now, k) == Queued(p, k) \/ now = k

\* What holds of the phone while it handles a message of kind now: each state
\* has its timer or that timer's message. A link that is up is watched too,
\* but for one the loop has closed and not yet heard the end of; and a
\* retry waits only while there is a network.
RetryWaits(p, now) == p.status = "WaitingRetry" => p.online /\ (p.retry \/ OnItsWay(p, now, "RetryDue"))
Hides(p, now) == p.hiding => p.vis \/ OnItsWay(p, now, "VisibilitySettled")
Watches(p, now) ==
    /\ p.status \in {"Connecting", "Connected"} => p.dog \/ OnItsWay(p, now, "StaleWatchdog")
    /\ p.linkUp => p.dog \/ OnItsWay(p, now, "StaleWatchdog") \/ (p.status = "Stopped" /\ ~p.linksOn)
    /\ p.link => p.linksOn
Catches(p, now) ==
    p.status = "Connected" /\ p.subs = "open" =>
        p.fresh \/ OnItsWay(p, now, "SocketOpen") \/ OnItsWay(p, now, "SocketClose") \/ OnItsWay(p, now, "RefreshReconcile")
Holds(p, now) == RetryWaits(p, now) /\ Hides(p, now) /\ Watches(p, now) /\ Catches(p, now)

\* The inductive invariant: between two messages nothing is excused.
LinkInv == ph \in PhoneState /\ Holds(ph, "nothing")

LEMMA QueuedPost ==
    ASSUME NEW p \in PhoneState, NEW m \in Messages, NEW k
    PROVE  /\ Post(p, m) \in PhoneState
           /\ Queued(Post(p, m), k) <=> Queued(p, k) \/ m.kind = k
<1>1. p.queue \in Seq(Messages) /\ Append(p.queue, m) \in Seq(Messages)
  BY DEF PhoneState
<1>2. Post(p, m) \in PhoneState
  BY <1>1 DEF Post, PhoneState
<1>3. Post(p, m).queue = Append(p.queue, m)
  BY DEF Post, PhoneState
<1>4. ASSUME NEW i \in DOMAIN p.queue
      PROVE  i \in DOMAIN Append(p.queue, m) /\ Append(p.queue, m)[i] = p.queue[i]
  BY <1>1
<1>5. Len(p.queue) + 1 \in DOMAIN Append(p.queue, m) /\ Append(p.queue, m)[Len(p.queue) + 1] = m
  BY <1>1
<1>6. ASSUME NEW i \in DOMAIN Append(p.queue, m), i # Len(p.queue) + 1
      PROVE  i \in DOMAIN p.queue /\ Append(p.queue, m)[i] = p.queue[i]
  BY <1>1, <1>6
<1>. QED  BY <1>2, <1>3, <1>4, <1>5, <1>6 DEF Queued

LEMMA QueuedTail ==
    ASSUME NEW p \in PhoneState, p.queue # <<>>
    PROVE  /\ [p EXCEPT !.queue = Tail(@)] \in PhoneState /\ Head(p.queue) \in Messages
           /\ \A k : Queued(p, k) => Queued([p EXCEPT !.queue = Tail(@)], k) \/ Head(p.queue).kind = k
<1>. DEFINE q == [p EXCEPT !.queue = Tail(@)]
<1>1. p.queue \in Seq(Messages) /\ Tail(p.queue) \in Seq(Messages) /\ Head(p.queue) \in Messages
  BY DEF PhoneState
<1>2. q \in PhoneState /\ q.queue = Tail(p.queue)
  BY <1>1 DEF PhoneState
<1>3. ASSUME NEW k, NEW i \in DOMAIN p.queue, p.queue[i].kind = k, Head(p.queue).kind # k
      PROVE  Queued(q, k)
  <2>1. i \in 2..Len(p.queue)
    BY <1>1, <1>3
  <2>2. i - 1 \in DOMAIN Tail(p.queue) /\ Tail(p.queue)[i - 1] = p.queue[i]
    BY <1>1, <2>1
  <2>. QED  BY <1>2, <1>3, <2>2 DEF Queued
<1>. QED  BY <1>1, <1>2, <1>3 DEF Queued

LEMMA MsgIsMessage == \A k \in LoopMessages : Msg(k) \in Messages /\ Msg(k).kind = k
  BY DEF Msg, Messages

\* What a step from p leaves of the queue and of what the timers depend on.
Grows(p, q) == q \in PhoneState /\ \A k : Queued(p, k) => Queued(q, k)
SameBut(p, q) ==
    /\ (q.hiding <=> p.hiding) /\ (q.vis <=> p.vis) /\ (q.dog <=> p.dog) /\ (q.online <=> p.online)
    /\ (q.linksOn <=> p.linksOn) /\ (q.link <=> p.link) /\ (q.linkUp <=> p.linkUp)

LEMMA ConnectClientIs ==
    ASSUME NEW p \in PhoneState
    PROVE  LET q == ConnectClient(p) IN Grows(p, q) /\ SameBut(p, q) /\ q.status = p.status /\ q.subs # "open" /\ (q.retry <=> p.retry)
<1>1. CASE p.paired
  <2>1. ConnectClient(p) = [p EXCEPT !.subs = "opening", !.fresh = FALSE]
    BY <1>1 DEF ConnectClient
  <2>2. ConnectClient(p) \in PhoneState
    BY <2>1 DEF PhoneState
  <2>3. LET q == ConnectClient(p) IN q.queue = p.queue /\ SameBut(p, q) /\ q.status = p.status /\ q.subs # "open" /\ (q.retry <=> p.retry)
    BY <2>1 DEF PhoneState, SameBut
  <2>. QED  BY <2>2, <2>3 DEF Grows, Queued
<1>2. CASE ~p.paired
  <2>. DEFINE d == Disconnect(p)
  <2>1. d \in PhoneState /\ d.queue = p.queue /\ SameBut(p, d) /\ d.status = p.status /\ d.subs = "none" /\ (d.retry <=> p.retry)
    BY DEF Disconnect, PhoneState, SameBut
  <2>2. Msg("SocketOpen") \in Messages
    BY MsgIsMessage DEF LoopMessages
  <2>3. ConnectClient(p) = Post(d, Msg("SocketOpen"))
    BY <1>2 DEF ConnectClient
  <2>. DEFINE q == Post(d, Msg("SocketOpen"))
  <2>4. q \in PhoneState /\ \A k : Queued(d, k) => Queued(q, k)
    BY <2>1, <2>2, QueuedPost
  <2>5. SameBut(d, q) /\ q.status = d.status /\ q.subs = d.subs /\ (q.retry <=> d.retry)
    BY <2>1 DEF Post, PhoneState, SameBut
  <2>6. \A k : Queued(p, k) <=> Queued(d, k)
    BY <2>1 DEF Queued
  <2>. QED  BY <2>1, <2>3, <2>4, <2>5, <2>6 DEF Grows, SameBut
<1>. QED  BY <1>1, <1>2

LEMMA OpenSocketIs ==
    ASSUME NEW p \in PhoneState
    PROVE  LET q == OpenSocket(p) IN Grows(p, q) /\ SameBut(p, q) /\ q.status = p.status /\ q.subs # "open" /\ (q.retry <=> p.retry)
<1>. DEFINE d == [p EXCEPT !.dial = 0]
<1>1. d \in PhoneState /\ d.queue = p.queue /\ SameBut(p, d) /\ d.status = p.status /\ (d.retry <=> p.retry)
  BY DEF PhoneState, SameBut
<1>2. \A k : Queued(p, k) <=> Queued(d, k)
  BY <1>1 DEF Queued
<1>. HIDE DEF d
<1>. QED  BY <1>1, <1>2, ConnectClientIs DEF d, OpenSocket, Grows, SameBut

LEMMA CancelRetryIs ==
    ASSUME NEW p \in PhoneState
    PROVE  LET q == CancelRetry(p)
           IN  q \in PhoneState /\ q.queue = p.queue /\ SameBut(p, q) /\ q.status = p.status /\ q.subs = p.subs /\ (q.fresh <=> p.fresh) /\ ~q.retry
<1>1. CancelRetry(p) \in PhoneState
  BY DEF PhoneState, CancelRetry
<1>2. LET q == CancelRetry(p)
      IN  q.queue = p.queue /\ SameBut(p, q) /\ q.status = p.status /\ q.subs = p.subs /\ (q.fresh <=> p.fresh) /\ ~q.retry
  BY DEF PhoneState, CancelRetry, SameBut
<1>. QED  BY <1>1, <1>2

LEMMA CloseSocketIs ==
    ASSUME NEW p \in PhoneState
    PROVE  LET q == CloseSocket(p)
           IN  q \in PhoneState /\ q.queue = p.queue /\ SameBut(p, q) /\ q.status = p.status /\ q.subs = "none" /\ (q.retry <=> p.retry)
  BY DEF PhoneState, CloseSocket, Disconnect, SameBut

LEMMA ConnectingIs ==
    ASSUME NEW p \in PhoneState
    PROVE  LET q == Connecting(p) IN Grows(p, q) /\ SameBut(p, q) /\ q.status = "Connecting" /\ q.subs # "open"
<1>. DEFINE d == [p EXCEPT !.status = "Connecting"]
<1>1. d \in PhoneState /\ d.queue = p.queue /\ SameBut(p, d) /\ d.status = "Connecting"
  BY DEF PhoneState, SameBut, Status
<1>. HIDE DEF d
<1>. DEFINE e == CancelRetry(d)
<1>2. e \in PhoneState /\ e.queue = d.queue /\ SameBut(d, e) /\ e.status = "Connecting"
  BY <1>1, CancelRetryIs
<1>. HIDE DEF e
<1>3. Grows(e, OpenSocket(e)) /\ SameBut(e, OpenSocket(e)) /\ OpenSocket(e).status = "Connecting" /\ OpenSocket(e).subs # "open"
  BY <1>2, OpenSocketIs
<1>4. \A k : Queued(p, k) <=> Queued(e, k)
  BY <1>1, <1>2 DEF Queued
<1>. QED  BY <1>1, <1>2, <1>3, <1>4 DEF d, e, Connecting, Grows, SameBut

LEMMA SyncWatchdogIs ==
    ASSUME NEW p \in PhoneState
    PROVE  LET q == SyncWatchdog(p)
           IN  /\ q \in PhoneState /\ q.queue = p.queue /\ q.status = p.status /\ q.subs = p.subs
               /\ (q.retry <=> p.retry) /\ (q.fresh <=> p.fresh) /\ (q.hiding <=> p.hiding) /\ (q.vis <=> p.vis) /\ (q.online <=> p.online)
               /\ (q.linksOn <=> p.linksOn) /\ (q.link <=> p.link) /\ (q.linkUp <=> p.linkUp)
               /\ q.dog <=> p.status \in {"Connecting", "Connected"} \/ p.linkUp
<1>. DEFINE b == p.status \in {"Connecting", "Connected"} \/ p.linkUp
<1>1. CASE b
  <2>1. SyncWatchdog(p) = [p EXCEPT !.dog = TRUE]
    BY <1>1, Zenon DEF SyncWatchdog
  <2>2. SyncWatchdog(p) \in PhoneState
    BY <2>1 DEF PhoneState
  <2>3. LET q == SyncWatchdog(p)
        IN  /\ q.queue = p.queue /\ q.status = p.status /\ q.subs = p.subs
            /\ (q.retry <=> p.retry) /\ (q.fresh <=> p.fresh) /\ (q.hiding <=> p.hiding) /\ (q.vis <=> p.vis) /\ (q.online <=> p.online)
            /\ (q.linksOn <=> p.linksOn) /\ (q.link <=> p.link) /\ (q.linkUp <=> p.linkUp) /\ q.dog = TRUE
    BY <2>1 DEF PhoneState
  <2>. QED  BY <1>1, <2>2, <2>3
<1>2. CASE ~b
  <2>0. b = FALSE
    BY <1>2
  <2>1. SyncWatchdog(p) = [p EXCEPT !.dog = FALSE]
    BY <2>0, Zenon DEF SyncWatchdog
  <2>2. SyncWatchdog(p) \in PhoneState
    BY <2>1 DEF PhoneState
  <2>3. LET q == SyncWatchdog(p)
        IN  /\ q.queue = p.queue /\ q.status = p.status /\ q.subs = p.subs
            /\ (q.retry <=> p.retry) /\ (q.fresh <=> p.fresh) /\ (q.hiding <=> p.hiding) /\ (q.vis <=> p.vis) /\ (q.online <=> p.online)
            /\ (q.linksOn <=> p.linksOn) /\ (q.link <=> p.link) /\ (q.linkUp <=> p.linkUp) /\ q.dog = FALSE
    BY <2>1 DEF PhoneState
  <2>. QED  BY <1>2, <2>2, <2>3
<1>. QED  BY <1>1, <1>2

LEMMA SettledHolds ==
    ASSUME NEW p \in PhoneState, NEW q, Grows(p, q), NEW now, Watches(p, now), RetryWaits(q, now), Hides(q, now), Catches(q, now),
           q.dog <=> p.dog, q.linkUp <=> p.linkUp, q.linksOn <=> p.linksOn, q.link <=> p.link
    PROVE  LET r == Settled(p, q) IN Grows(p, r) /\ Holds(r, now) /\ r.status = q.status /\ (r.hiding <=> q.hiding)
<1>. DEFINE c == IF q.status = "Connecting" THEN q ELSE [q EXCEPT !.dial = NoAge]
<1>1. /\ c \in PhoneState /\ c.queue = q.queue /\ c.status = q.status /\ c.subs = q.subs
      /\ (c.retry <=> q.retry) /\ (c.fresh <=> q.fresh) /\ SameBut(q, c)
  <2>1. c \in PhoneState
    <3>1. PICK none \in Int : none = NoAge
      BY DEF NoAge
    <3>2. [q EXCEPT !.dial = none] \in PhoneState
      BY DEF PhoneState, Grows
    <3>. QED  BY <3>1, <3>2 DEF Grows
  <2>2. c.queue = q.queue /\ c.status = q.status /\ c.subs = q.subs /\ (c.retry <=> q.retry) /\ (c.fresh <=> q.fresh) /\ SameBut(q, c)
    BY DEF PhoneState, Grows, SameBut, NoAge
  <2>. QED  BY <2>1, <2>2
<1>. HIDE DEF c
<1>2. \A k : Queued(c, k) <=> Queued(q, k)
  BY <1>1 DEF Queued
<1>3. RetryWaits(c, now) /\ Hides(c, now) /\ Catches(c, now)
  BY <1>1, <1>2 DEF RetryWaits, Hides, Catches, OnItsWay, SameBut
<1>4. CASE q.status = p.status
  <2>1. Settled(p, q) = c
    BY <1>4 DEF Settled, c
  <2>2. Watches(c, now)
    BY <1>1, <1>2, <1>4 DEF Watches, OnItsWay, Grows, SameBut
  <2>. QED  BY <1>1, <1>2, <1>3, <2>1, <2>2 DEF Grows, Holds, SameBut
<1>5. CASE q.status # p.status
  <2>1. Settled(p, q) = SyncWatchdog(c)
    BY <1>5 DEF Settled, c
  <2>. DEFINE r == SyncWatchdog(c)
  <2>2. /\ r \in PhoneState /\ r.queue = c.queue /\ r.status = c.status /\ r.subs = c.subs
        /\ (r.retry <=> c.retry) /\ (r.fresh <=> c.fresh) /\ (r.hiding <=> c.hiding) /\ (r.vis <=> c.vis) /\ (r.online <=> c.online)
        /\ (r.linksOn <=> c.linksOn) /\ (r.link <=> c.link) /\ (r.linkUp <=> c.linkUp)
        /\ r.dog <=> c.status \in {"Connecting", "Connected"} \/ c.linkUp
    BY <1>1, SyncWatchdogIs
  <2>. HIDE DEF r
  <2>3. \A k : Queued(r, k) <=> Queued(c, k)
    BY <2>2 DEF Queued
  <2>4. RetryWaits(r, now) /\ Hides(r, now) /\ Catches(r, now)
    BY <1>3, <2>2, <2>3 DEF RetryWaits, Hides, Catches, OnItsWay
  <2>5. Watches(r, now)
    BY <1>1, <2>2 DEF Watches, SameBut
  <2>. QED  BY <1>1, <1>2, <2>1, <2>2, <2>3, <2>4, <2>5 DEF r, Grows, Holds, SameBut
<1>. QED  BY <1>4, <1>5

\* A step that changes no status posts nothing and leaves the queue.
LEMMA SettledSame ==
    ASSUME NEW p \in PhoneState, NEW now, Holds(p, now)
    PROVE  LET r == Settled(p, p) IN Grows(p, r) /\ Holds(r, now) /\ r.status = p.status /\ (r.hiding <=> p.hiding)
  BY SettledHolds DEF Holds, Grows

\* Dialling has its watchdog, and reconciles when it opens.
LEMMA SettledConnecting ==
    ASSUME NEW p \in PhoneState, NEW now, Watches(p, now), NEW d \in PhoneState, d.queue = p.queue, Hides(d, now),
           d.dog <=> p.dog, d.linkUp <=> p.linkUp, d.linksOn <=> p.linksOn, d.link <=> p.link
    PROVE  LET r == Settled(p, Connecting(d)) IN Grows(p, r) /\ Holds(r, now) /\ r.status = "Connecting" /\ (r.hiding <=> d.hiding)
<1>. DEFINE q == Connecting(d)
<1>1. Grows(d, q) /\ SameBut(d, q) /\ q.status = "Connecting" /\ q.subs # "open"
  BY ConnectingIs
<1>. HIDE DEF q
<1>2. Grows(p, q)
  BY <1>1 DEF Grows, Queued
<1>3. RetryWaits(q, now) /\ Hides(q, now) /\ Catches(q, now)
  BY <1>1 DEF RetryWaits, Hides, Catches, OnItsWay, Grows, SameBut
<1>. QED  BY <1>1, <1>2, <1>3, SettledHolds DEF q, SameBut

\* A state without a socket and without a retry asks for nothing.
LEMMA SettledQuiet ==
    ASSUME NEW p \in PhoneState, NEW now, Watches(p, now), NEW q, Grows(p, q), Hides(q, now), q.status \in {"Offline", "Stopped"},
           q.dog <=> p.dog, q.linkUp <=> p.linkUp, q.linksOn <=> p.linksOn, q.link <=> p.link
    PROVE  LET r == Settled(p, q) IN Grows(p, r) /\ Holds(r, now) /\ r.status = q.status /\ (r.hiding <=> q.hiding)
<1>1. RetryWaits(q, now) /\ Catches(q, now)
  BY DEF RetryWaits, Catches
<1>. QED  BY <1>1, SettledHolds

LEMMA ConnectRequestedHolds ==
    ASSUME NEW p \in PhoneState, NEW now, Holds(p, now)
    PROVE  LET r == ConnectRequested(p) IN r \in PhoneState /\ Holds(r, now) /\ r.status # "Stopped"
<1>1. CASE p.status \in {"Connected", "Connecting"}
  <2>1. ConnectRequested(p) = Settled(p, p)
    BY <1>1 DEF ConnectRequested
  <2>. QED  BY <1>1, <2>1, SettledSame DEF Grows
<1>2. CASE p.status \notin {"Connected", "Connecting"} /\ ~p.online
  <2>. DEFINE q == [p EXCEPT !.status = "Offline"]
  <2>1. q \in PhoneState /\ q.queue = p.queue /\ SameBut(p, q) /\ q.status = "Offline"
    BY DEF PhoneState, SameBut, Status
  <2>2. ConnectRequested(p) = Settled(p, q)
    BY <1>2 DEF ConnectRequested
  <2>. HIDE DEF q
  <2>3. Grows(p, q)
    BY <2>1 DEF Grows, Queued
  <2>4. Hides(q, now)
    BY <2>1, <2>3 DEF Hides, OnItsWay, Holds, SameBut, Grows
  <2>5. Grows(p, Settled(p, q)) /\ Holds(Settled(p, q), now) /\ Settled(p, q).status = q.status
    BY <2>1, <2>3, <2>4, SettledQuiet DEF SameBut, Holds
  <2>. QED  BY <2>1, <2>2, <2>5 DEF Grows
<1>3. CASE p.status \notin {"Connected", "Connecting"} /\ p.online
  <2>1. ConnectRequested(p) = Settled(p, Connecting(p))
    BY <1>3 DEF ConnectRequested
  <2>. QED  BY <2>1, SettledConnecting DEF Grows, Holds
<1>. QED  BY <1>1, <1>2, <1>3

LEMMA DisconnectRequestedHolds ==
    ASSUME NEW p \in PhoneState, NEW now, Holds(p, now)
    PROVE  LET r == DisconnectRequested(p) IN r \in PhoneState /\ Holds(r, now) /\ r.status = "Stopped"
<1>. DEFINE d == [p EXCEPT !.status = "Stopped", !.hiding = FALSE, !.vis = FALSE]
<1>1. /\ d \in PhoneState /\ d.queue = p.queue /\ ~d.hiding /\ d.status = "Stopped"
      /\ (d.dog <=> p.dog) /\ (d.linkUp <=> p.linkUp) /\ (d.linksOn <=> p.linksOn) /\ (d.link <=> p.link)
  <2>1. d \in PhoneState
    BY DEF PhoneState, Status
  <2>2. d.queue = p.queue /\ ~d.hiding /\ d.status = "Stopped" /\ (d.dog <=> p.dog) /\ (d.linkUp <=> p.linkUp) /\ (d.linksOn <=> p.linksOn) /\ (d.link <=> p.link)
    BY DEF PhoneState, Status
  <2>. QED  BY <2>1, <2>2
<1>. HIDE DEF d
<1>. DEFINE q == CloseSocket(CancelRetry(d))
<1>2. q \in PhoneState /\ q.queue = d.queue /\ SameBut(d, q) /\ q.status = d.status
  BY <1>1, CancelRetryIs, CloseSocketIs DEF SameBut
<1>3. DisconnectRequested(p) = Settled(p, q)
  BY DEF DisconnectRequested, d
<1>. HIDE DEF q
<1>4. Grows(p, q) /\ Hides(q, now)
  BY <1>1, <1>2 DEF Grows, Queued, Hides, SameBut
<1>5. Grows(p, Settled(p, q)) /\ Holds(Settled(p, q), now) /\ Settled(p, q).status = q.status
  BY <1>1, <1>2, <1>4, SettledQuiet DEF SameBut, Holds
<1>. QED  BY <1>1, <1>2, <1>3, <1>5 DEF Grows

LEMMA OnlineHolds ==
    ASSUME NEW p \in PhoneState, NEW now, Holds(p, now)
    PROVE  Online(p) \in PhoneState /\ Holds(Online(p), now)
<1>. DEFINE d == [p EXCEPT !.online = TRUE]
<1>1. /\ d \in PhoneState /\ d.queue = p.queue /\ d.status = p.status /\ d.subs = p.subs /\ (d.fresh <=> p.fresh) /\ (d.retry <=> p.retry)
      /\ (d.dog <=> p.dog) /\ (d.linkUp <=> p.linkUp) /\ (d.linksOn <=> p.linksOn) /\ (d.link <=> p.link)
      /\ (d.hiding <=> p.hiding) /\ (d.vis <=> p.vis) /\ d.online
  <2>1. d \in PhoneState
    BY DEF PhoneState
  <2>2. d.queue = p.queue /\ d.status = p.status /\ d.subs = p.subs /\ (d.fresh <=> p.fresh) /\ (d.retry <=> p.retry) /\ (d.dog <=> p.dog) /\ (d.linkUp <=> p.linkUp) /\ (d.linksOn <=> p.linksOn) /\ (d.link <=> p.link) /\ (d.hiding <=> p.hiding) /\ (d.vis <=> p.vis) /\ d.online
    BY DEF PhoneState
  <2>. QED  BY <2>1, <2>2
<1>2. Online(p) = Settled(p, IF p.status \in {"Offline", "WaitingRetry"} THEN Connecting(d) ELSE d)
  BY DEF Online
<1>. HIDE DEF d
<1>3. Grows(p, d) /\ Hides(d, now) /\ RetryWaits(d, now) /\ Catches(d, now)
  BY <1>1 DEF Grows, Queued, Hides, RetryWaits, Catches, OnItsWay, Holds
<1>4. Grows(p, Settled(p, Connecting(d))) /\ Holds(Settled(p, Connecting(d)), now)
  BY <1>1, <1>3, SettledConnecting DEF Holds
<1>5. Grows(p, Settled(p, d)) /\ Holds(Settled(p, d), now)
  BY <1>1, <1>3, SettledHolds DEF Holds
<1>. QED  BY <1>2, <1>4, <1>5 DEF Grows

LEMMA OfflineHolds ==
    ASSUME NEW p \in PhoneState, NEW now, Holds(p, now)
    PROVE  Offline(p) \in PhoneState /\ Holds(Offline(p), now)
<1>. DEFINE d == [p EXCEPT !.online = FALSE]
            e == [d EXCEPT !.status = "Offline"]
            q == CloseSocket(CancelRetry(e))
<1>1. /\ d \in PhoneState /\ d.queue = p.queue /\ d.status = p.status /\ d.subs = p.subs /\ (d.fresh <=> p.fresh) /\ (d.retry <=> p.retry)
      /\ (d.dog <=> p.dog) /\ (d.linkUp <=> p.linkUp) /\ (d.linksOn <=> p.linksOn) /\ (d.link <=> p.link)
      /\ (d.hiding <=> p.hiding) /\ (d.vis <=> p.vis)
  <2>1. d \in PhoneState
    BY DEF PhoneState
  <2>2. d.queue = p.queue /\ d.status = p.status /\ d.subs = p.subs /\ (d.fresh <=> p.fresh) /\ (d.retry <=> p.retry) /\ (d.dog <=> p.dog) /\ (d.linkUp <=> p.linkUp) /\ (d.linksOn <=> p.linksOn) /\ (d.link <=> p.link) /\ (d.hiding <=> p.hiding) /\ (d.vis <=> p.vis)
    BY DEF PhoneState
  <2>. QED  BY <2>1, <2>2
<1>2. e \in PhoneState /\ e.queue = d.queue /\ SameBut(d, e) /\ e.status = "Offline"
  <2>1. e \in PhoneState
    BY <1>1, ZenonT(60) DEF PhoneState, SameBut, Status
  <2>2. e.queue = d.queue /\ SameBut(d, e) /\ e.status = "Offline"
    BY <1>1 DEF PhoneState, SameBut, Status
  <2>. QED  BY <2>1, <2>2
<1>3. Offline(p) = Settled(p, IF p.status \in {"Stopped", "Idle"} THEN d ELSE q)
  BY DEF Offline
<1>. HIDE DEF d, e
<1>4. q \in PhoneState /\ q.queue = e.queue /\ SameBut(e, q) /\ q.status = e.status
  BY <1>2, CancelRetryIs, CloseSocketIs DEF SameBut
<1>. HIDE DEF q
<1>5. Grows(p, q) /\ Hides(q, now)
  BY <1>1, <1>2, <1>4 DEF Grows, Queued, Hides, SameBut, OnItsWay, Holds
<1>6. Grows(p, Settled(p, q)) /\ Holds(Settled(p, q), now)
  BY <1>1, <1>2, <1>4, <1>5, SettledQuiet DEF SameBut, Holds
<1>7. CASE p.status \in {"Stopped", "Idle"}
  <2>1. Grows(p, d) /\ Hides(d, now) /\ RetryWaits(d, now) /\ Catches(d, now)
    BY <1>1, <1>7 DEF Grows, Queued, Hides, RetryWaits, Catches, OnItsWay, Holds
  <2>2. Grows(p, Settled(p, d)) /\ Holds(Settled(p, d), now)
    BY <1>1, <2>1, SettledHolds DEF Holds
  <2>. QED  BY <1>3, <1>7, <2>2 DEF Grows
<1>. QED  BY <1>3, <1>6, <1>7 DEF Grows

LEMMA ShownHolds ==
    ASSUME NEW p \in PhoneState, NEW now, Holds(p, now)
    PROVE  Shown(p) \in PhoneState /\ Holds(Shown(p), now)
<1>1. PICK b \in BOOLEAN : b = (p.vis /\ ~p.hiding)
  BY DEF PhoneState
<1>. DEFINE d == [p EXCEPT !.visible = TRUE, !.hiding = FALSE, !.vis = b]
<1>2. Shown(p) = Settled(p, IF p.online /\ p.status \in {"WaitingRetry", "Idle"} THEN Connecting(d) ELSE d)
  BY <1>1, Zenon DEF Shown
<1>3. /\ d \in PhoneState /\ d.queue = p.queue /\ d.status = p.status /\ d.subs = p.subs /\ (d.fresh <=> p.fresh) /\ (d.retry <=> p.retry)
      /\ (d.dog <=> p.dog) /\ (d.linkUp <=> p.linkUp) /\ (d.linksOn <=> p.linksOn) /\ (d.link <=> p.link)
      /\ ~d.hiding /\ (d.online <=> p.online)
  <2>1. d \in PhoneState
    BY DEF PhoneState
  <2>2. d.queue = p.queue /\ d.status = p.status /\ d.subs = p.subs /\ (d.fresh <=> p.fresh) /\ (d.retry <=> p.retry) /\ (d.dog <=> p.dog) /\ (d.linkUp <=> p.linkUp) /\ (d.linksOn <=> p.linksOn) /\ (d.link <=> p.link) /\ ~d.hiding /\ (d.online <=> p.online)
    BY DEF PhoneState
  <2>. QED  BY <2>1, <2>2
<1>. HIDE DEF d
<1>4. Grows(p, d) /\ Hides(d, now) /\ RetryWaits(d, now) /\ Catches(d, now)
  BY <1>3 DEF Grows, Queued, Hides, RetryWaits, Catches, OnItsWay, Holds
<1>5. Grows(p, Settled(p, Connecting(d))) /\ Holds(Settled(p, Connecting(d)), now)
  BY <1>3, <1>4, SettledConnecting DEF Holds
<1>6. Grows(p, Settled(p, d)) /\ Holds(Settled(p, d), now)
  BY <1>3, <1>4, SettledHolds DEF Holds
<1>. QED  BY <1>2, <1>5, <1>6 DEF Grows

LEMMA HiddenHolds ==
    ASSUME NEW p \in PhoneState, NEW now, Holds(p, now)
    PROVE  Hidden(p) \in PhoneState /\ Holds(Hidden(p), now)
<1>1. CASE p.hiding
  BY <1>1 DEF Hidden
<1>2. CASE ~p.hiding
  <2>. DEFINE d == [p EXCEPT !.hiding = TRUE, !.vis = TRUE]
  <2>1. /\ d \in PhoneState /\ d.queue = p.queue /\ d.status = p.status /\ d.subs = p.subs /\ (d.fresh <=> p.fresh) /\ (d.retry <=> p.retry)
        /\ (d.dog <=> p.dog) /\ (d.linkUp <=> p.linkUp) /\ (d.linksOn <=> p.linksOn) /\ (d.link <=> p.link)
        /\ d.vis /\ (d.online <=> p.online)
    <3>1. d \in PhoneState
      BY DEF PhoneState
    <3>2. d.queue = p.queue /\ d.status = p.status /\ d.subs = p.subs /\ (d.fresh <=> p.fresh) /\ (d.retry <=> p.retry) /\ (d.dog <=> p.dog) /\ (d.linkUp <=> p.linkUp) /\ (d.linksOn <=> p.linksOn) /\ (d.link <=> p.link) /\ d.vis /\ (d.online <=> p.online)
      BY DEF PhoneState
    <3>. QED  BY <3>1, <3>2
  <2>2. Hidden(p) = d
    BY <1>2 DEF Hidden
  <2>. HIDE DEF d
  <2>3. Holds(d, now)
    BY <2>1 DEF Holds, RetryWaits, Hides, Watches, Catches, OnItsWay, Queued
  <2>. QED  BY <2>1, <2>2, <2>3
<1>. QED  BY <1>1, <1>2

LEMMA VisibilitySettledHolds ==
    ASSUME NEW p \in PhoneState, NEW now, Holds(p, now)
    PROVE  LET r == VisibilitySettled(p) IN r \in PhoneState /\ Holds(r, now) /\ ~r.hiding
<1>1. CASE ~p.hiding
  BY <1>1 DEF VisibilitySettled
<1>2. CASE p.hiding
  <2>. DEFINE d == [p EXCEPT !.visible = FALSE, !.hiding = FALSE]
  <2>1. /\ d \in PhoneState /\ d.queue = p.queue /\ d.status = p.status /\ d.subs = p.subs /\ (d.fresh <=> p.fresh) /\ (d.retry <=> p.retry)
        /\ (d.dog <=> p.dog) /\ (d.linkUp <=> p.linkUp) /\ (d.linksOn <=> p.linksOn) /\ (d.link <=> p.link)
        /\ ~d.hiding /\ (d.online <=> p.online)
    <3>1. d \in PhoneState
      BY DEF PhoneState
    <3>2. d.queue = p.queue /\ d.status = p.status /\ d.subs = p.subs /\ (d.fresh <=> p.fresh) /\ (d.retry <=> p.retry) /\ (d.dog <=> p.dog) /\ (d.linkUp <=> p.linkUp) /\ (d.linksOn <=> p.linksOn) /\ (d.link <=> p.link) /\ ~d.hiding /\ (d.online <=> p.online)
      BY DEF PhoneState
    <3>. QED  BY <3>1, <3>2
  <2>2. VisibilitySettled(p) = d
    BY <1>2 DEF VisibilitySettled
  <2>. HIDE DEF d
  <2>3. Holds(d, now)
    BY <2>1 DEF Holds, RetryWaits, Hides, Watches, Catches, OnItsWay, Queued
  <2>. QED  BY <2>1, <2>2, <2>3
<1>. QED  BY <1>1, <1>2

\* What the loop posts to itself leaves everything else.
LEMMA PostHolds ==
    ASSUME NEW p \in PhoneState, NEW now, Holds(p, now), NEW m \in Messages
    PROVE  LET q == Post(p, m) IN Grows(p, q) /\ SameBut(p, q) /\ q.status = p.status /\ (q.retry <=> p.retry) /\ Holds(q, now)
<1>. DEFINE q == Post(p, m)
<1>1. q \in PhoneState /\ \A k : Queued(p, k) => Queued(q, k)
  BY QueuedPost
<1>2. SameBut(p, q) /\ q.status = p.status /\ q.subs = p.subs /\ (q.fresh <=> p.fresh) /\ (q.retry <=> p.retry)
  BY DEF Post, PhoneState, SameBut
<1>. HIDE DEF q
<1>3. Holds(q, now)
  BY <1>1, <1>2 DEF Holds, RetryWaits, Hides, Watches, Catches, OnItsWay, SameBut
<1>. QED  BY <1>1, <1>2, <1>3 DEF q, Grows

LEMMA ResumedHolds ==
    ASSUME NEW p \in PhoneState, NEW now, Holds(p, now)
    PROVE  Resumed(p) \in PhoneState /\ Holds(Resumed(p), now)
<1>1. CASE p.status = "Connected"
  <2>. DEFINE q == Post(p, Msg("ResumeReconcile"))
  <2>1. Msg("ResumeReconcile") \in Messages
    BY MsgIsMessage DEF LoopMessages
  <2>2. Grows(p, q) /\ SameBut(p, q) /\ Holds(q, now)
    BY <2>1, PostHolds
  <2>3. Resumed(p) = Settled(p, q)
    BY <1>1 DEF Resumed
  <2>. HIDE DEF q
  <2>. QED  BY <2>2, <2>3, SettledHolds DEF SameBut, Holds, Grows
<1>2. CASE p.status = "Stopped" \/ ~p.online
  <2>1. Resumed(p) = Settled(p, p) \/ p.status = "Connected"
    BY <1>2 DEF Resumed
  <2>. QED  BY <1>1, <2>1, SettledSame DEF Grows
<1>3. CASE p.status \notin {"Connected", "Stopped"} /\ p.online
  <2>1. Resumed(p) = Settled(p, Connecting(p))
    BY <1>3 DEF Resumed
  <2>. QED  BY <2>1, SettledConnecting DEF Grows, Holds
<1>. QED  BY <1>1, <1>2, <1>3

LEMMA SocketOpenHolds ==
    ASSUME NEW p \in PhoneState, NEW now, Holds(p, now)
    PROVE  LET r == SocketOpen(p) IN r \in PhoneState /\ Holds(r, now) /\ (r.status = "Connected" => Queued(r, "RefreshReconcile"))
<1>1. CASE p.status = "Stopped"
  BY <1>1 DEF SocketOpen
<1>2. CASE p.status # "Stopped"
  <2>. DEFINE d == [p EXCEPT !.status = "Connected", !.opened = 0]
              e == CancelRetry(d)
              q == Post(e, Msg("RefreshReconcile"))
  <2>1. d \in PhoneState /\ d.queue = p.queue /\ SameBut(p, d) /\ d.status = "Connected"
    <3>1. d \in PhoneState
      <4>1. PICK zero \in Int : zero = 0
        OBVIOUS
      <4>2. [p EXCEPT !.status = "Connected", !.opened = zero] \in PhoneState
        BY DEF PhoneState, Status
      <4>. QED  BY <4>1, <4>2
    <3>2. d.queue = p.queue /\ SameBut(p, d) /\ d.status = "Connected"
      BY DEF PhoneState, Status, SameBut
    <3>. QED  BY <3>1, <3>2
  <2>2. SocketOpen(p) = Settled(p, q)
    BY <1>2 DEF SocketOpen
  <2>. HIDE DEF d
  <2>3. e \in PhoneState /\ e.queue = d.queue /\ SameBut(d, e) /\ e.status = "Connected"
    BY <2>1, CancelRetryIs
  <2>. HIDE DEF e
  <2>4. Msg("RefreshReconcile") \in Messages /\ Msg("RefreshReconcile").kind = "RefreshReconcile"
    BY MsgIsMessage DEF LoopMessages
  <2>5. q \in PhoneState /\ \A k : Queued(q, k) <=> Queued(e, k) \/ k = "RefreshReconcile"
    BY <2>3, <2>4, QueuedPost
  <2>6. SameBut(e, q) /\ q.status = "Connected"
    BY <2>3 DEF Post, PhoneState, SameBut
  <2>. HIDE DEF q
  <2>7. \A k : Queued(p, k) <=> Queued(e, k)
    BY <2>1, <2>3 DEF Queued
  <2>8. Grows(p, q) /\ Queued(q, "RefreshReconcile")
    BY <2>5, <2>7 DEF Grows
  <2>9. RetryWaits(q, now) /\ Hides(q, now) /\ Catches(q, now)
    BY <2>1, <2>3, <2>6, <2>8 DEF RetryWaits, Hides, Catches, OnItsWay, Grows, SameBut, Holds
  <2>10. Grows(p, Settled(p, q)) /\ Holds(Settled(p, q), now) /\ Settled(p, q).queue = q.queue
    <3>1. Grows(p, Settled(p, q)) /\ Holds(Settled(p, q), now)
      BY <2>1, <2>3, <2>6, <2>8, <2>9, SettledHolds DEF SameBut, Holds
    <3>2. Settled(p, q).queue = q.queue
      BY <2>5, SyncWatchdogIs DEF Settled, PhoneState, SyncWatchdog
    <3>. QED  BY <3>1, <3>2
  <2>. QED  BY <2>2, <2>8, <2>10 DEF Grows, Queued
<1>. QED  BY <1>1, <1>2

LEMMA SocketCloseHolds ==
    ASSUME NEW p \in PhoneState, NEW now, Holds(p, now)
    PROVE  LET r == SocketClose(p) IN r \in PhoneState /\ Holds(r, now) /\ r.status # "Connected"
<1>1. CASE p.status \in {"Stopped", "Offline", "Idle"}
  BY <1>1 DEF SocketClose
<1>2. CASE p.status \notin {"Stopped", "Offline", "Idle"} /\ p.online
  <2>. DEFINE q == [p EXCEPT !.status = "WaitingRetry", !.retry = TRUE]
  <2>1. q \in PhoneState /\ q.queue = p.queue /\ SameBut(p, q) /\ q.status = "WaitingRetry" /\ q.retry
    <3>1. q \in PhoneState
      BY DEF PhoneState, Status, SameBut
    <3>2. q.queue = p.queue /\ SameBut(p, q) /\ q.status = "WaitingRetry" /\ q.retry
      BY DEF PhoneState, Status, SameBut
    <3>. QED  BY <3>1, <3>2
  <2>2. SocketClose(p) = Settled(p, q)
    BY <1>2 DEF SocketClose
  <2>. HIDE DEF q
  <2>3. Grows(p, q) /\ RetryWaits(q, now) /\ Hides(q, now) /\ Catches(q, now)
    BY <1>2, <2>1 DEF Grows, Queued, Hides, RetryWaits, Catches, OnItsWay, Holds, SameBut
  <2>4. Grows(p, Settled(p, q)) /\ Holds(Settled(p, q), now) /\ Settled(p, q).status = q.status
    BY <2>1, <2>3, SettledHolds DEF SameBut, Holds
  <2>. QED  BY <2>1, <2>2, <2>4 DEF Grows
<1>3. CASE p.status \notin {"Stopped", "Offline", "Idle"} /\ ~p.online
  <2>. DEFINE d == [p EXCEPT !.status = "Offline"]
              q == CancelRetry(d)
  <2>1. d \in PhoneState /\ d.queue = p.queue /\ SameBut(p, d) /\ d.status = "Offline"
    BY DEF PhoneState, Status, SameBut
  <2>2. SocketClose(p) = Settled(p, q)
    BY <1>3 DEF SocketClose
  <2>. HIDE DEF d
  <2>3. q \in PhoneState /\ q.queue = d.queue /\ SameBut(d, q) /\ q.status = "Offline"
    BY <2>1, CancelRetryIs
  <2>. HIDE DEF q
  <2>4. Grows(p, q) /\ Hides(q, now)
    BY <2>1, <2>3 DEF Grows, Queued, Hides, OnItsWay, Holds, SameBut
  <2>5. Grows(p, Settled(p, q)) /\ Holds(Settled(p, q), now) /\ Settled(p, q).status = q.status
    BY <2>1, <2>3, <2>4, SettledQuiet DEF SameBut, Holds
  <2>. QED  BY <2>2, <2>3, <2>5 DEF Grows
<1>. QED  BY <1>1, <1>2, <1>3

LEMMA RetryDueHolds ==
    ASSUME NEW p \in PhoneState, NEW now, Holds(p, now)
    PROVE  LET r == RetryDue(p) IN r \in PhoneState /\ Holds(r, now) /\ r.status # "WaitingRetry"
<1>1. CASE p.status # "WaitingRetry"
  BY <1>1 DEF RetryDue
<1>2. CASE p.status = "WaitingRetry"
  <2>. DEFINE d == [p EXCEPT !.status = "Connecting"]
              q == OpenSocket(d)
  <2>1. d \in PhoneState /\ d.queue = p.queue /\ SameBut(p, d) /\ d.status = "Connecting"
    BY DEF PhoneState, Status, SameBut
  <2>2. RetryDue(p) = Settled(p, q)
    BY <1>2 DEF RetryDue, Holds, RetryWaits
  <2>. HIDE DEF d
  <2>3. Grows(d, q) /\ SameBut(d, q) /\ q.status = "Connecting" /\ q.subs # "open"
    BY <2>1, OpenSocketIs
  <2>. HIDE DEF q
  <2>4. Grows(p, q)
    BY <2>1, <2>3 DEF Grows, Queued
  <2>5. RetryWaits(q, now) /\ Hides(q, now) /\ Catches(q, now)
    BY <2>1, <2>3, <2>4 DEF RetryWaits, Hides, Catches, OnItsWay, Grows, Holds, SameBut
  <2>6. Grows(p, Settled(p, q)) /\ Holds(Settled(p, q), now) /\ Settled(p, q).status = q.status
    BY <2>1, <2>3, <2>4, <2>5, SettledHolds DEF SameBut, Holds
  <2>. QED  BY <2>2, <2>3, <2>6 DEF Grows
<1>. QED  BY <1>1, <1>2

LEMMA ChecksHold ==
    ASSUME NEW p \in PhoneState, NEW now, Holds(p, now)
    PROVE  /\ CheckConnectDeadline(p) \in PhoneState /\ Holds(CheckConnectDeadline(p), now)
           /\ CheckStaleHeartbeats(p) \in PhoneState /\ Holds(CheckStaleHeartbeats(p), now)
<1>. DEFINE d == [p EXCEPT !.dial = NoAge]
<1>1. d \in PhoneState /\ d.queue = p.queue /\ SameBut(p, d) /\ d.status = p.status /\ d.subs = p.subs /\ (d.fresh <=> p.fresh) /\ (d.retry <=> p.retry)
  BY DEF PhoneState, SameBut, NoAge
<1>2. CheckConnectDeadline(p) \in {SocketClose(d), p}
  BY DEF CheckConnectDeadline
<1>. HIDE DEF d
<1>3. Holds(d, now)
  BY <1>1 DEF Holds, RetryWaits, Hides, Watches, Catches, OnItsWay, Queued, SameBut
<1>4. SocketClose(d) \in PhoneState /\ Holds(SocketClose(d), now)
  BY <1>1, <1>3, SocketCloseHolds
<1>5. SocketClose(p) \in PhoneState /\ Holds(SocketClose(p), now)
  BY SocketCloseHolds
<1>. QED  BY <1>2, <1>4, <1>5 DEF CheckStaleHeartbeats

LEMMA OnStartHolds ==
    ASSUME NEW p \in PhoneState, NEW now, Holds(p, now)
    PROVE  OnStart(p) \in PhoneState /\ Holds(OnStart(p), now)
<1>. DEFINE d == [p EXCEPT !.stops = @ + 1, !.leaving = FALSE]
            c == ConnectRequested(d)
            r == [c EXCEPT !.linksOn = TRUE]
<1>1. d \in PhoneState /\ d.queue = p.queue /\ SameBut(p, d) /\ d.status = p.status /\ d.subs = p.subs /\ (d.fresh <=> p.fresh) /\ (d.retry <=> p.retry)
  <2>1. d \in PhoneState
    <3>1. PICK n \in Nat : n = p.stops + 1
      BY DEF PhoneState
    <3>2. [p EXCEPT !.stops = n, !.leaving = FALSE] \in PhoneState
      BY DEF PhoneState
    <3>. QED  BY <3>1, <3>2
  <2>2. d.queue = p.queue /\ SameBut(p, d) /\ d.status = p.status /\ d.subs = p.subs /\ (d.fresh <=> p.fresh) /\ (d.retry <=> p.retry)
    BY DEF PhoneState, SameBut
  <2>. QED  BY <2>1, <2>2
<1>2. OnStart(p) = r
  BY DEF OnStart
<1>. HIDE DEF d
<1>3. Holds(d, now)
  BY <1>1 DEF Holds, RetryWaits, Hides, Watches, Catches, OnItsWay, Queued, SameBut
<1>4. c \in PhoneState /\ Holds(c, now) /\ c.status # "Stopped"
  BY <1>1, <1>3, ConnectRequestedHolds
<1>. HIDE DEF c
<1>5. /\ r \in PhoneState /\ r.queue = c.queue /\ r.status = c.status /\ r.subs = c.subs /\ (r.fresh <=> c.fresh) /\ (r.retry <=> c.retry)
      /\ (r.hiding <=> c.hiding) /\ (r.vis <=> c.vis) /\ (r.dog <=> c.dog) /\ (r.online <=> c.online)
      /\ r.linksOn /\ (r.linkUp <=> c.linkUp)
  <2>1. r \in PhoneState
    BY <1>4 DEF PhoneState
  <2>2. r.queue = c.queue /\ r.status = c.status /\ r.subs = c.subs /\ (r.fresh <=> c.fresh) /\ (r.retry <=> c.retry) /\ (r.hiding <=> c.hiding) /\ (r.vis <=> c.vis) /\ (r.dog <=> c.dog) /\ (r.online <=> c.online) /\ r.linksOn /\ (r.linkUp <=> c.linkUp)
    BY <1>4 DEF PhoneState
  <2>. QED  BY <2>1, <2>2
<1>. HIDE DEF r
<1>6. Holds(r, now)
  BY <1>4, <1>5 DEF Holds, RetryWaits, Hides, Watches, Catches, OnItsWay, Queued
<1>. QED  BY <1>2, <1>5, <1>6

LEMMA OnStopHolds ==
    ASSUME NEW p \in PhoneState, NEW now, Holds(p, now)
    PROVE  OnStop(p) \in PhoneState /\ Holds(OnStop(p), now)
<1>1. LET d == OnStop(p) IN d \in PhoneState /\ d.queue = p.queue /\ SameBut(p, d) /\ d.status = p.status /\ d.subs = p.subs /\ (d.fresh <=> p.fresh) /\ (d.retry <=> p.retry)
  <2>1. OnStop(p) \in PhoneState
    <3>1. PICK n \in Nat : n = p.stops + 1
      BY DEF PhoneState
    <3>2. [p EXCEPT !.stops = n, !.leaving = TRUE] \in PhoneState
      BY DEF PhoneState
    <3>. QED  BY <3>1, <3>2 DEF OnStop
  <2>2. LET d == OnStop(p) IN d.queue = p.queue /\ SameBut(p, d) /\ d.status = p.status /\ d.subs = p.subs /\ (d.fresh <=> p.fresh) /\ (d.retry <=> p.retry)
    BY DEF PhoneState, SameBut, OnStop
  <2>. QED  BY <2>1, <2>2
<1>. QED  BY <1>1 DEF Holds, RetryWaits, Hides, Watches, Catches, OnItsWay, Queued, SameBut

LEMMA OnStoppedHolds ==
    ASSUME NEW p \in PhoneState, NEW now, Holds(p, now), NEW epoch
    PROVE  OnStopped(p, epoch) \in PhoneState /\ Holds(OnStopped(p, epoch), now)
<1>1. CASE epoch # p.stops
  BY <1>1 DEF OnStopped
<1>2. CASE epoch = p.stops
  <2>. DEFINE c == DisconnectRequested(p)
              q == [c EXCEPT !.dog = FALSE, !.linksOn = FALSE, !.link = FALSE]
  <2>1. c \in PhoneState /\ Holds(c, now) /\ c.status = "Stopped"
    BY DisconnectRequestedHolds
  <2>2. OnStopped(p, epoch) = IF p.link THEN Post(q, Msg("LinkDown")) ELSE q
    BY <1>2 DEF OnStopped
  <2>. HIDE DEF c
  <2>3. /\ q \in PhoneState /\ q.queue = c.queue /\ q.status = c.status /\ (q.hiding <=> c.hiding) /\ (q.vis <=> c.vis) /\ ~q.linksOn /\ ~q.link
    BY <2>1, ZenonT(60) DEF PhoneState
  <2>. HIDE DEF q
  <2>4. Holds(q, now)
    BY <2>1, <2>3 DEF Holds, RetryWaits, Hides, Watches, Catches, OnItsWay, Queued
  <2>5. Msg("LinkDown") \in Messages
    BY MsgIsMessage DEF LoopMessages
  <2>6. Grows(q, Post(q, Msg("LinkDown"))) /\ Holds(Post(q, Msg("LinkDown")), now)
    BY <2>3, <2>4, <2>5, PostHolds
  <2>. QED  BY <2>2, <2>3, <2>4, <2>6 DEF Grows
<1>. QED  BY <1>1, <1>2

\* The watchdog's message is followed by the watchdog, if anything needs it.
LEMMA OnStaleWatchdogHolds ==
    ASSUME NEW p \in PhoneState, Holds(p, "StaleWatchdog")
    PROVE  OnStaleWatchdog(p) \in PhoneState /\ Holds(OnStaleWatchdog(p), "nothing")
<1>. DEFINE c == CheckStaleHeartbeats(CheckConnectDeadline(p))
            r == SyncWatchdog(c)
<1>1. c \in PhoneState /\ Holds(c, "StaleWatchdog")
  BY ChecksHold
<1>2. OnStaleWatchdog(p) = r
  BY DEF OnStaleWatchdog
<1>. HIDE DEF c
<1>3. /\ r \in PhoneState /\ r.queue = c.queue /\ r.status = c.status /\ r.subs = c.subs
      /\ (r.retry <=> c.retry) /\ (r.fresh <=> c.fresh) /\ (r.hiding <=> c.hiding) /\ (r.vis <=> c.vis) /\ (r.online <=> c.online)
      /\ (r.linksOn <=> c.linksOn) /\ (r.link <=> c.link) /\ (r.linkUp <=> c.linkUp)
      /\ r.dog <=> c.status \in {"Connecting", "Connected"} \/ c.linkUp
  BY <1>1, SyncWatchdogIs
<1>. HIDE DEF r
<1>4. Holds(r, "nothing")
  BY <1>1, <1>3 DEF Holds, RetryWaits, Hides, Watches, Catches, OnItsWay, Queued
<1>. QED  BY <1>2, <1>3, <1>4

LEMMA OnPairedHolds ==
    ASSUME NEW p \in PhoneState, NEW now, Holds(p, now)
    PROVE  OnPaired(p) \in PhoneState /\ Holds(OnPaired(p), now)
<1>. DEFINE d == [p EXCEPT !.paired = TRUE]
            r == ConnectClient(d)
<1>1. d \in PhoneState /\ d.queue = p.queue /\ SameBut(p, d) /\ d.status = p.status /\ d.subs = p.subs /\ (d.fresh <=> p.fresh) /\ (d.retry <=> p.retry)
  <2>1. d \in PhoneState
    BY DEF PhoneState, SameBut
  <2>2. d.queue = p.queue /\ SameBut(p, d) /\ d.status = p.status /\ d.subs = p.subs /\ (d.fresh <=> p.fresh) /\ (d.retry <=> p.retry)
    BY DEF PhoneState, SameBut
  <2>. QED  BY <2>1, <2>2
<1>2. OnPaired(p) \in {r, d}
  BY DEF OnPaired
<1>. HIDE DEF d
<1>3. Holds(d, now)
  BY <1>1 DEF Holds, RetryWaits, Hides, Watches, Catches, OnItsWay, Queued, SameBut
<1>4. Grows(d, r) /\ SameBut(d, r) /\ r.status = d.status /\ r.subs # "open" /\ (r.retry <=> d.retry)
  BY <1>1, ConnectClientIs
<1>. HIDE DEF r
<1>5. Holds(r, now)
  BY <1>3, <1>4 DEF Holds, RetryWaits, Hides, Watches, Catches, OnItsWay, Grows, SameBut
<1>. QED  BY <1>1, <1>2, <1>3, <1>4, <1>5 DEF Grows

LEMMA OnDirectStateHolds ==
    ASSUME NEW p \in PhoneState, NEW now, Holds(p, now), NEW up \in BOOLEAN
    PROVE  OnDirectState(p, up) \in PhoneState /\ Holds(OnDirectState(p, up), now)
<1>. DEFINE d == [p EXCEPT !.linkUp = up]
            r == SyncWatchdog(d)
<1>1. /\ d \in PhoneState /\ d.queue = p.queue /\ d.status = p.status /\ d.subs = p.subs /\ (d.fresh <=> p.fresh) /\ (d.retry <=> p.retry)
      /\ (d.hiding <=> p.hiding) /\ (d.vis <=> p.vis) /\ (d.dog <=> p.dog) /\ (d.online <=> p.online)
      /\ (d.linksOn <=> p.linksOn) /\ (d.link <=> p.link) /\ (d.linkUp <=> up)
  BY DEF PhoneState
<1>2. CASE p.linkUp = up \/ p.dog
  <2>1. OnDirectState(p, up) = d
    BY <1>2 DEF OnDirectState
  <2>. HIDE DEF d
  <2>2. Holds(d, now)
    BY <1>1, <1>2 DEF Holds, RetryWaits, Hides, Watches, Catches, OnItsWay, Queued
  <2>. QED  BY <1>1, <2>1, <2>2
<1>3. CASE ~(p.linkUp = up \/ p.dog)
  <2>1. OnDirectState(p, up) = r
    BY <1>3 DEF OnDirectState
  <2>. HIDE DEF d
  <2>2. /\ r \in PhoneState /\ r.queue = d.queue /\ r.status = d.status /\ r.subs = d.subs
        /\ (r.retry <=> d.retry) /\ (r.fresh <=> d.fresh) /\ (r.hiding <=> d.hiding) /\ (r.vis <=> d.vis) /\ (r.online <=> d.online)
        /\ (r.linksOn <=> d.linksOn) /\ (r.link <=> d.link) /\ (r.linkUp <=> d.linkUp)
        /\ r.dog <=> d.status \in {"Connecting", "Connected"} \/ d.linkUp
    BY <1>1, SyncWatchdogIs
  <2>. HIDE DEF r
  <2>3. Holds(r, now)
    BY <1>1, <2>2 DEF Holds, RetryWaits, Hides, Watches, Catches, OnItsWay, Queued
  <2>. QED  BY <2>1, <2>2, <2>3
<1>. QED  BY <1>2, <1>3

LEMMA OnRefreshReconcileHolds ==
    ASSUME NEW p \in PhoneState, NEW now, Holds(p, now)
    PROVE  LET r == OnRefreshReconcile(p) IN r \in PhoneState /\ Holds(r, now) /\ r.fresh
<1>. DEFINE d == [p EXCEPT !.fresh = TRUE]
<1>1. d \in PhoneState /\ d.queue = p.queue /\ SameBut(p, d) /\ d.status = p.status /\ d.subs = p.subs /\ d.fresh /\ (d.retry <=> p.retry)
  <2>1. d \in PhoneState
    BY DEF PhoneState, SameBut
  <2>2. d.queue = p.queue /\ SameBut(p, d) /\ d.status = p.status /\ d.subs = p.subs /\ d.fresh /\ (d.retry <=> p.retry)
    BY DEF PhoneState, SameBut
  <2>. QED  BY <2>1, <2>2
<1>. HIDE DEF d
<1>2. Holds(d, now)
  BY <1>1 DEF Holds, RetryWaits, Hides, Watches, Catches, OnItsWay, Queued, SameBut
<1>. QED  BY <1>1, <1>2 DEF d, OnRefreshReconcile

\* Each handler leaves every state with its timer, the one whose message it
\* took included.
LEMMA HandledHolds ==
    ASSUME NEW p \in PhoneState, NEW m \in Messages, Holds(p, m.kind)
    PROVE  Handled(p, m) \in PhoneState /\ Holds(Handled(p, m), "nothing")
<1>. DEFINE Excused == {"RetryDue", "VisibilitySettled", "StaleWatchdog", "SocketOpen", "SocketClose", "RefreshReconcile"}
            Kept(r) == r \in PhoneState /\ Holds(r, m.kind)
<1>1. ASSUME NEW r, Kept(r), m.kind \notin Excused
      PROVE  r \in PhoneState /\ Holds(r, "nothing")
  BY <1>1 DEF Holds, RetryWaits, Hides, Watches, Catches, OnItsWay
<1>2. m.kind \in LoopMessages
  BY DEF Messages
<1>3. Kept(OnStart(p)) /\ Kept(OnStop(p)) /\ Kept(OnStopped(p, m.epoch)) /\ Kept(Hidden(p))
  BY OnStartHolds, OnStopHolds, OnStoppedHolds, HiddenHolds
<1>4. Kept(OnResume(p)) /\ Kept(OnKeepalive(p))
  BY ShownHolds, ResumedHolds, RetryDueHolds, ChecksHold DEF OnResume, OnKeepalive
<1>5. Kept(Online(p)) /\ Kept(Offline(p)) /\ Kept(OnPaired(p)) /\ Kept(OnDirectState(p, TRUE)) /\ Kept(OnDirectState(p, FALSE)) /\ Kept(p)
  BY OnlineHolds, OfflineHolds, OnPairedHolds, OnDirectStateHolds
<1>. HIDE DEF Kept
<1>6. CASE m.kind \notin Excused
  <2>1. Kept(Handled(p, m))
    <3>1. CASE m.kind = "Start" BY <3>1, <1>3 DEF Handled
    <3>2. CASE m.kind = "Stop" BY <3>2, <1>3 DEF Handled
    <3>3. CASE m.kind = "Stopped" BY <3>3, <1>3 DEF Handled
    <3>4. CASE m.kind = "Pause" BY <3>4, <1>3 DEF Handled
    <3>5. CASE m.kind = "Resume" BY <3>5, <1>4 DEF Handled
    <3>6. CASE m.kind = "Keepalive" BY <3>6, <1>4 DEF Handled
    <3>7. CASE m.kind = "Online" BY <3>7, <1>5 DEF Handled
    <3>8. CASE m.kind = "Offline" BY <3>8, <1>5 DEF Handled
    <3>9. CASE m.kind = "Paired" BY <3>9, <1>5 DEF Handled
    <3>10. CASE m.kind = "LinkUp" BY <3>10, <1>5 DEF Handled
    <3>11. CASE m.kind = "LinkDown" BY <3>11, <1>5 DEF Handled
    <3>12. CASE m.kind = "ResumeReconcile" BY <3>12, <1>5 DEF Handled
    <3>. QED  BY <1>2, <1>6, <3>1, <3>2, <3>3, <3>4, <3>5, <3>6, <3>7, <3>8, <3>9, <3>10, <3>11, <3>12 DEF LoopMessages, HostMessages
  <2>. QED  BY <1>1, <1>6, <2>1
<1>7. CASE m.kind = "SocketOpen"
  <2>1. Handled(p, m) = SocketOpen(p)
    BY <1>7 DEF Handled
  <2>2. LET r == SocketOpen(p) IN r \in PhoneState /\ Holds(r, "SocketOpen") /\ (r.status = "Connected" => Queued(r, "RefreshReconcile"))
    BY <1>7, SocketOpenHolds
  <2>. QED  BY <2>1, <2>2 DEF Holds, RetryWaits, Hides, Watches, Catches, OnItsWay
<1>8. CASE m.kind = "SocketClose"
  <2>1. Handled(p, m) = SocketClose(p)
    BY <1>8 DEF Handled
  <2>2. LET r == SocketClose(p) IN r \in PhoneState /\ Holds(r, "SocketClose") /\ r.status # "Connected"
    BY <1>8, SocketCloseHolds
  <2>. QED  BY <2>1, <2>2 DEF Holds, RetryWaits, Hides, Watches, Catches, OnItsWay
<1>9. CASE m.kind = "RetryDue"
  <2>1. Handled(p, m) = RetryDue(p)
    BY <1>9 DEF Handled
  <2>2. LET r == RetryDue(p) IN r \in PhoneState /\ Holds(r, "RetryDue") /\ r.status # "WaitingRetry"
    BY <1>9, RetryDueHolds
  <2>. QED  BY <2>1, <2>2 DEF Holds, RetryWaits, Hides, Watches, Catches, OnItsWay
<1>10. CASE m.kind = "VisibilitySettled"
  <2>1. Handled(p, m) = VisibilitySettled(p)
    BY <1>10 DEF Handled
  <2>2. LET r == VisibilitySettled(p) IN r \in PhoneState /\ Holds(r, "VisibilitySettled") /\ ~r.hiding
    BY <1>10, VisibilitySettledHolds
  <2>. QED  BY <2>1, <2>2 DEF Holds, RetryWaits, Hides, Watches, Catches, OnItsWay
<1>11. CASE m.kind = "StaleWatchdog"
  <2>1. Handled(p, m) = OnStaleWatchdog(p)
    BY <1>11 DEF Handled
  <2>. QED  BY <1>11, <2>1, OnStaleWatchdogHolds
<1>12. CASE m.kind = "RefreshReconcile"
  <2>1. Handled(p, m) = OnRefreshReconcile(p)
    BY <1>12 DEF Handled
  <2>2. LET r == OnRefreshReconcile(p) IN r \in PhoneState /\ Holds(r, "RefreshReconcile") /\ r.fresh
    BY <1>12, OnRefreshReconcileHolds
  <2>. QED  BY <2>1, <2>2 DEF Holds, RetryWaits, Hides, Watches, Catches, OnItsWay
<1>. QED  BY <1>6, <1>7, <1>8, <1>9, <1>10, <1>11, <1>12

LEMMA LoopStepKeeps == LinkInv /\ LoopStep => LinkInv'
<1>. SUFFICES ASSUME LinkInv, LoopStep PROVE LinkInv'
  OBVIOUS
<1>. DEFINE p == [ph EXCEPT !.queue = Tail(@)]
<1>1. ph \in PhoneState /\ Holds(ph, "nothing") /\ ph.queue # <<>> /\ ph' = Handled(p, Head(ph.queue))
  BY DEF LinkInv, LoopStep
<1>2. p \in PhoneState /\ Head(ph.queue) \in Messages /\ \A k : Queued(ph, k) => Queued(p, k) \/ Head(ph.queue).kind = k
  BY <1>1, QueuedTail
<1>3. SameBut(ph, p) /\ p.status = ph.status /\ p.subs = ph.subs /\ (p.fresh <=> ph.fresh) /\ (p.retry <=> ph.retry)
  BY <1>1 DEF PhoneState, SameBut
<1>. HIDE DEF p
<1>4. Holds(p, Head(ph.queue).kind)
  BY <1>1, <1>2, <1>3 DEF Holds, RetryWaits, Hides, Watches, Catches, OnItsWay, SameBut
<1>. QED  BY <1>1, <1>2, <1>4, HandledHolds DEF LinkInv

LEMMA TimersKeep == LinkInv /\ (RetryTimer \/ VisibilityTimer \/ WatchdogTimer) => LinkInv'
<1>. SUFFICES ASSUME LinkInv PROVE RetryTimer \/ VisibilityTimer \/ WatchdogTimer => LinkInv'
  OBVIOUS
<1>0. ph \in PhoneState /\ Holds(ph, "nothing")
  BY DEF LinkInv
<1>m. /\ Msg("RetryDue") \in Messages /\ Msg("RetryDue").kind = "RetryDue"
      /\ Msg("VisibilitySettled") \in Messages /\ Msg("VisibilitySettled").kind = "VisibilitySettled"
      /\ Msg("StaleWatchdog") \in Messages /\ Msg("StaleWatchdog").kind = "StaleWatchdog"
  BY MsgIsMessage DEF LoopMessages
<1>1. ASSUME RetryTimer PROVE LinkInv'
  <2>1. PICK d : d = [ph EXCEPT !.retry = FALSE]
    OBVIOUS
  <2>2. PICK q : q = Post(d, Msg("RetryDue"))
    OBVIOUS
  <2>3. d \in PhoneState /\ d.queue = ph.queue /\ SameBut(ph, d) /\ d.status = ph.status /\ d.subs = ph.subs /\ (d.fresh <=> ph.fresh)
    BY <1>0, <2>1, ZenonT(60) DEF PhoneState, SameBut
  <2>4. q \in PhoneState /\ \A k : Queued(q, k) <=> Queued(ph, k) \/ k = "RetryDue"
    <3>1. \A k : Queued(d, k) <=> Queued(ph, k)
      BY <2>3 DEF Queued
    <3>. QED  BY <1>m, <2>2, <2>3, QueuedPost, <3>1
  <2>5. SameBut(d, q) /\ q.status = d.status /\ q.subs = d.subs /\ (q.fresh <=> d.fresh)
    BY <2>2, <2>3 DEF Post, PhoneState, SameBut
  <2>6. Holds(q, "nothing")
    BY <1>0, <2>3, <2>4, <2>5 DEF Holds, RetryWaits, Hides, Watches, Catches, OnItsWay, SameBut
  <2>7. ph' = q
    BY <1>1, <2>1, <2>2 DEF RetryTimer
  <2>. QED  BY <2>4, <2>6, <2>7 DEF LinkInv
<1>2. ASSUME VisibilityTimer PROVE LinkInv'
  <2>1. PICK d : d = [ph EXCEPT !.vis = FALSE]
    OBVIOUS
  <2>2. PICK q : q = Post(d, Msg("VisibilitySettled"))
    OBVIOUS
  <2>3. /\ d \in PhoneState /\ d.queue = ph.queue /\ d.status = ph.status /\ d.subs = ph.subs /\ (d.fresh <=> ph.fresh) /\ (d.retry <=> ph.retry)
        /\ (d.hiding <=> ph.hiding) /\ (d.dog <=> ph.dog) /\ (d.online <=> ph.online)
        /\ (d.linksOn <=> ph.linksOn) /\ (d.link <=> ph.link) /\ (d.linkUp <=> ph.linkUp)
    BY <1>0, <2>1, ZenonT(60) DEF PhoneState
  <2>4. q \in PhoneState /\ \A k : Queued(q, k) <=> Queued(ph, k) \/ k = "VisibilitySettled"
    <3>1. \A k : Queued(d, k) <=> Queued(ph, k)
      BY <2>3 DEF Queued
    <3>. QED  BY <1>m, <2>2, <2>3, QueuedPost, <3>1
  <2>5. SameBut(d, q) /\ q.status = d.status /\ q.subs = d.subs /\ (q.fresh <=> d.fresh) /\ (q.retry <=> d.retry)
    BY <2>2, <2>3 DEF Post, PhoneState, SameBut
  <2>6. Holds(q, "nothing")
    BY <1>0, <2>3, <2>4, <2>5 DEF Holds, RetryWaits, Hides, Watches, Catches, OnItsWay, SameBut
  <2>7. ph' = q
    BY <1>2, <2>1, <2>2 DEF VisibilityTimer
  <2>. QED  BY <2>4, <2>6, <2>7 DEF LinkInv
<1>3. ASSUME WatchdogTimer PROVE LinkInv'
  <2>0. PICK a \in Int, b \in Int, c \in Int :
          a = Aged(ph.dial, ConnectDeadline - 1) /\ b = Aged(ph.opened, StaleAfter) /\ c = Aged(ph.beat, StaleAfter)
    BY <1>0 DEF Aged, PhoneState
  <2>1. PICK d : d = [ph EXCEPT !.dog = FALSE, !.dial = a, !.opened = b, !.beat = c]
    OBVIOUS
  <2>2. PICK q : q = Post(d, Msg("StaleWatchdog"))
    OBVIOUS
  <2>3. /\ d \in PhoneState /\ d.queue = ph.queue /\ d.status = ph.status /\ d.subs = ph.subs /\ (d.fresh <=> ph.fresh) /\ (d.retry <=> ph.retry)
        /\ (d.hiding <=> ph.hiding) /\ (d.vis <=> ph.vis) /\ (d.online <=> ph.online)
        /\ (d.linksOn <=> ph.linksOn) /\ (d.link <=> ph.link) /\ (d.linkUp <=> ph.linkUp)
    BY <1>0, <2>1, ZenonT(60) DEF PhoneState
  <2>4. q \in PhoneState /\ \A k : Queued(q, k) <=> Queued(ph, k) \/ k = "StaleWatchdog"
    <3>1. \A k : Queued(d, k) <=> Queued(ph, k)
      BY <2>3 DEF Queued
    <3>. QED  BY <1>m, <2>2, <2>3, QueuedPost, <3>1
  <2>5. SameBut(d, q) /\ q.status = d.status /\ q.subs = d.subs /\ (q.fresh <=> d.fresh) /\ (q.retry <=> d.retry)
    BY <2>2, <2>3 DEF Post, PhoneState, SameBut
  <2>6. Holds(q, "nothing")
    BY <1>0, <2>3, <2>4, <2>5 DEF Holds, RetryWaits, Hides, Watches, Catches, OnItsWay, SameBut
  <2>7. ph' = q
    BY <1>3, <2>0, <2>1, <2>2 DEF WatchdogTimer
  <2>. QED  BY <2>4, <2>6, <2>7 DEF LinkInv
<1>. QED  BY <1>1, <1>2, <1>3

LEMMA NetworkKeeps == LinkInv /\ (Eose \/ SubscriptionEnds \/ RelayGoesQuiet \/ HeartbeatArrives \/ DirectLinkChanges) => LinkInv'
<1>. SUFFICES ASSUME LinkInv PROVE Eose \/ SubscriptionEnds \/ RelayGoesQuiet \/ HeartbeatArrives \/ DirectLinkChanges => LinkInv'
  OBVIOUS
<1>0. ph \in PhoneState /\ Holds(ph, "nothing")
  BY DEF LinkInv
<1>m. \A k \in {"SocketOpen", "SocketClose", "LinkUp", "LinkDown"} : Msg(k) \in Messages /\ Msg(k).kind = k
  BY MsgIsMessage DEF LoopMessages
<1>1. ASSUME NEW s \in {"open", "none"}, NEW k \in {"SocketOpen", "SocketClose"}, ph' = Post([ph EXCEPT !.subs = s], Msg(k)) PROVE LinkInv'
  <2>1. PICK d : d = [ph EXCEPT !.subs = s]
    OBVIOUS
  <2>2. PICK q : q = Post(d, Msg(k))
    OBVIOUS
  <2>3. d \in PhoneState /\ d.queue = ph.queue /\ SameBut(ph, d) /\ d.status = ph.status /\ (d.retry <=> ph.retry)
    BY <1>0, <2>1 DEF PhoneState, SameBut
  <2>4. q \in PhoneState /\ \A x : Queued(q, x) <=> Queued(ph, x) \/ k = x
    <3>1. \A x : Queued(d, x) <=> Queued(ph, x)
      BY <2>3 DEF Queued
    <3>. QED  BY <1>m, <2>2, <2>3, QueuedPost, <3>1
  <2>5. SameBut(d, q) /\ q.status = d.status /\ (q.retry <=> d.retry)
    BY <2>2, <2>3 DEF Post, PhoneState, SameBut
  <2>6. Holds(q, "nothing")
    BY <1>0, <2>3, <2>4, <2>5 DEF Holds, RetryWaits, Hides, Watches, Catches, OnItsWay, SameBut
  <2>7. ph' = q
    BY <1>1, <2>1, <2>2
  <2>. QED  BY <2>4, <2>6, <2>7 DEF LinkInv
<1>2. Eose => LinkInv'
  BY <1>1 DEF Eose
<1>3. SubscriptionEnds => LinkInv'
  BY <1>1 DEF SubscriptionEnds, Disconnect
<1>4. ASSUME NEW s \in {"hung", "deaf"}, ph' = [ph EXCEPT !.subs = s] PROVE LinkInv'
  <2>1. PICK d : d = [ph EXCEPT !.subs = s]
    OBVIOUS
  <2>2. d \in PhoneState /\ d.queue = ph.queue /\ SameBut(ph, d) /\ d.status = ph.status /\ (d.retry <=> ph.retry) /\ d.subs = s
    BY <1>0, <2>1 DEF PhoneState, SameBut
  <2>3. Holds(d, "nothing")
    BY <1>0, <2>2 DEF Holds, RetryWaits, Hides, Watches, Catches, OnItsWay, Queued, SameBut
  <2>. QED  BY <1>4, <2>1, <2>2, <2>3 DEF LinkInv
<1>5. RelayGoesQuiet => LinkInv'
  BY <1>4 DEF RelayGoesQuiet
<1>6. HeartbeatArrives => LinkInv'
  <2>1. PICK d : d = HeartbeatReceived(ph)
    OBVIOUS
  <2>2. d \in PhoneState /\ d.queue = ph.queue /\ SameBut(ph, d) /\ d.status = ph.status /\ (d.retry <=> ph.retry) /\ d.subs = ph.subs /\ (d.fresh <=> ph.fresh)
    BY <1>0, <2>1 DEF PhoneState, SameBut, HeartbeatReceived
  <2>3. Holds(d, "nothing")
    BY <1>0, <2>2 DEF Holds, RetryWaits, Hides, Watches, Catches, OnItsWay, Queued, SameBut
  <2>. QED  BY <2>1, <2>2, <2>3 DEF LinkInv, HeartbeatArrives
<1>7. ASSUME DirectLinkChanges PROVE LinkInv'
  <2>1. PICK d : d = [ph EXCEPT !.link = ~@]
    OBVIOUS
  <2>2. PICK k \in {"LinkUp", "LinkDown"} : k = IF ph.link THEN "LinkDown" ELSE "LinkUp"
    OBVIOUS
  <2>3. PICK q : q = Post(d, Msg(k))
    OBVIOUS
  <2>4. /\ d \in PhoneState /\ d.queue = ph.queue /\ d.status = ph.status /\ d.subs = ph.subs /\ (d.fresh <=> ph.fresh) /\ (d.retry <=> ph.retry)
        /\ (d.hiding <=> ph.hiding) /\ (d.vis <=> ph.vis) /\ (d.dog <=> ph.dog) /\ (d.online <=> ph.online)
        /\ (d.linksOn <=> ph.linksOn) /\ (d.linkUp <=> ph.linkUp)
    <3>1. CASE ph.link
      <4>1. d = [ph EXCEPT !.link = FALSE]
        BY <1>0, <2>1, <3>1 DEF PhoneState
      <4>. QED  BY <1>0, <4>1, ZenonT(60) DEF PhoneState
    <3>2. CASE ~ph.link
      <4>1. d = [ph EXCEPT !.link = TRUE]
        BY <1>0, <2>1, <3>2 DEF PhoneState
      <4>. QED  BY <1>0, <4>1, ZenonT(60) DEF PhoneState
    <3>. QED  BY <3>1, <3>2
  <2>5. q \in PhoneState /\ \A x : Queued(q, x) <=> Queued(ph, x) \/ k = x
    <3>1. \A x : Queued(d, x) <=> Queued(ph, x)
      BY <2>4 DEF Queued
    <3>. QED  BY <1>m, <2>3, <2>4, QueuedPost, <3>1
  <2>6. SameBut(d, q) /\ q.status = d.status /\ q.subs = d.subs /\ (q.fresh <=> d.fresh) /\ (q.retry <=> d.retry)
    BY <2>3, <2>4 DEF Post, PhoneState, SameBut
  <2>7. ph.linksOn /\ ph' = q
    BY <1>7, <2>1, <2>2, <2>3 DEF DirectLinkChanges
  <2>8. Holds(q, "nothing")
    BY <1>0, <2>4, <2>5, <2>6, <2>7 DEF Holds, RetryWaits, Hides, Watches, Catches, OnItsWay, SameBut
  <2>. QED  BY <2>5, <2>7, <2>8 DEF LinkInv
<1>. QED  BY <1>2, <1>3, <1>5, <1>6, <1>7

LEMMA PostsKeep == LinkInv /\ ((\E k \in HostMessages : HostPosts(k)) \/ FarewellsSettle) => LinkInv'
<1>. SUFFICES ASSUME LinkInv PROVE (\E k \in HostMessages : HostPosts(k)) \/ FarewellsSettle => LinkInv'
  OBVIOUS
<1>0. ph \in PhoneState /\ Holds(ph, "nothing")
  BY DEF LinkInv
<1>1. ASSUME NEW k \in HostMessages, HostPosts(k) PROVE LinkInv'
  <2>1. Msg(k) \in Messages /\ ph' = Post(ph, Msg(k))
    BY <1>1, MsgIsMessage DEF HostPosts, LoopMessages
  <2>. QED  BY <1>0, <2>1, PostHolds DEF LinkInv, Grows
<1>2. ASSUME FarewellsSettle PROVE LinkInv'
  <2>1. PICK d : d = [ph EXCEPT !.leaving = FALSE]
    OBVIOUS
  <2>2. PICK m : m = [kind |-> "Stopped", epoch |-> ph.stops]
    OBVIOUS
  <2>3. m \in Messages
    BY <1>0, <2>2 DEF Messages, LoopMessages, PhoneState
  <2>4. d \in PhoneState /\ d.queue = ph.queue /\ SameBut(ph, d) /\ d.status = ph.status /\ (d.retry <=> ph.retry) /\ d.subs = ph.subs /\ (d.fresh <=> ph.fresh)
    <3>1. d \in PhoneState
      BY <1>0, <2>1 DEF PhoneState, SameBut
    <3>2. d.queue = ph.queue /\ SameBut(ph, d) /\ d.status = ph.status /\ (d.retry <=> ph.retry) /\ d.subs = ph.subs /\ (d.fresh <=> ph.fresh)
      BY <1>0, <2>1 DEF PhoneState, SameBut
    <3>. QED  BY <3>1, <3>2
  <2>5. Holds(d, "nothing")
    BY <1>0, <2>4 DEF Holds, RetryWaits, Hides, Watches, Catches, OnItsWay, Queued, SameBut
  <2>6. ph' = Post(d, m)
    BY <1>2, <2>1, <2>2 DEF FarewellsSettle
  <2>. QED  BY <2>3, <2>4, <2>5, <2>6, PostHolds DEF LinkInv, Grows
<1>. QED  BY <1>1, <1>2

\* However many posts, faults and messages under way there are: no state of
\* the connection is one it stays in (connection.rs connection_reducer,
\* runtime.rs sync_stale_watchdog), and what was missed is asked for.
THEOREM LinkIsSound == LinkSpec => []LinkSound
<1>1. LinkInit => LinkInv
  BY LinkAssumption, SMTT(30), ZenonT(30) DEF LinkInit, LinkInv, PhoneState, Status, Holds, RetryWaits, Hides, Watches, Catches, NoAge
<1>2. LinkInv /\ [LinkNext]_linkVars => LinkInv'
  <2>1. LinkInv /\ UNCHANGED linkVars => LinkInv'
    BY DEF LinkInv, linkVars
  <2>. QED  BY <2>1, LoopStepKeeps, TimersKeep, NetworkKeeps, PostsKeep DEF LinkNext
<1>3. LinkInv => LinkSound
  BY DEF LinkInv, LinkSound, NeverStranded, Reconciled, Holds, RetryWaits, Hides, Watches, Catches, OnItsWay
<1>. QED  BY <1>1, <1>2, <1>3, PTL DEF LinkSpec
=============================================================================
