----------------------------- MODULE RelayPool ------------------------------
(***************************************************************************)
(* The relay transport (ws.rs): a task for each dial, the redial timers,   *)
(* the liveness probe, the AUTH signatures and deadlines, the outbound     *)
(* queues, and publish_confirmed's loop, around the Router.                *)
(*                                                                         *)
(* A dial has a generation; conn[r] is the entry of relay r (generation 0  *)
(* is none) and task[g] the task of dial g, which may outlive its entry.   *)
(* How long a backoff, a deadline or a write takes is left out: a timer    *)
(* fires at some later step, a socket may fail at any.                     *)
(***************************************************************************)
EXTENDS FiniteSets, Integers

(***************************************************************************)
(* The pure read-loop logic shared by every relay socket (router.rs) and   *)
(* the verdict of a publish (publish.rs).  It holds no sockets: every      *)
(* operator takes the router's state t and returns the next one.  What the *)
(* socket layer must then do is left in t.out, as pairs of a relay and the *)
(* thing to send there: a signature ("auth"), a REQ again (a               *)
(* subscription), the EVENT again ("event").  The callbacks on_eose and    *)
(* on_close are the flags eoseFired and closedFired of a subscription.     *)
(***************************************************************************)
CONSTANTS Relays, Subs,
          Only      \* Only[s]: the relays subscription s is pinned to

\* NIP-42 progress on one connection; "failed" is sign_failed, "again" what
\* was already sent a second time after AUTH.
RelayAuth == [pending |-> FALSE, accepted |-> "none", answered |-> FALSE, failed |-> FALSE,
              waiting |-> {}, again |-> {}]

SubState(relays) == [open |-> TRUE, reqd |-> relays, eosed |-> {}, dead |-> {}, parked |-> {},
                     eoseFired |-> FALSE, closedFired |-> FALSE]

PublishState(relays) == [open |-> TRUE, awaiting |-> relays, results |-> {}, settled |-> FALSE,
                         verdict |-> "unreachable"]

RouterNew == [connected |-> {}, auth |-> [r \in Relays |-> RelayAuth],
              subs |-> [s \in Subs |-> [SubState({}) EXCEPT !.open = FALSE]],
              pub |-> [PublishState({}) EXCEPT !.open = FALSE], out |-> {}]

-----------------------------------------------------------------------------
(* Predicates, on one subscription u or publish p.                         *)

LiveRelays(t, u) == (u.reqd \cap t.connected) \ u.dead

MaybeEose(t, u) ==
  LET waitingOn == LiveRelays(t, u) \ u.parked IN
  [u EXCEPT !.eoseFired = @ \/ (waitingOn # {} /\ waitingOn \subseteq u.eosed)]

MaybeSubClosed(t, u) == [u EXCEPT !.closedFired = @ \/ LiveRelays(t, u) = {}]

Rank(verdict) == CASE verdict = "accepted" -> 0 [] verdict = "unconfirmed" -> 1
                   [] verdict = "rejected" -> 2 [] OTHER -> 3

\* The softest surviving verdict wins; no result at all is unreachable.
CombinePublish(verdicts) ==
  CHOOSE v \in verdicts \cup {"unreachable"} : \A w \in verdicts : Rank(v) <= Rank(w)

MaybePublishSettled(p) ==
  IF p.settled \/ ("accepted" \notin p.results /\ p.awaiting # {}) THEN p
  ELSE [p EXCEPT !.settled = TRUE, !.verdict = CombinePublish(p.results)]

-----------------------------------------------------------------------------
(* What ends on one relay.                                                 *)

Ended(t, r, u) ==
  LET gone == [u EXCEPT !.eosed = @ \ {r}, !.parked = @ \ {r}, !.dead = @ \cup {r}]
  IN  MaybeSubClosed(t, MaybeEose(t, gone))

SubsDeadOn(t, r, subs) ==
  [t EXCEPT !.subs = [s \in Subs |-> IF s \in subs /\ t.subs[s].open THEN Ended(t, r, t.subs[s])
                                                                      ELSE t.subs[s]]]

PublishResult(t, r, verdict) ==
  IF ~(t.pub.open /\ r \in t.pub.awaiting) THEN t
  ELSE [t EXCEPT !.pub = MaybePublishSettled([@ EXCEPT !.awaiting = @ \ {r}, !.results = @ \cup {verdict}])]

\* What waited on the AUTH of r is settled as refused.
Refused(t, r, waiting) ==
  LET dead == SubsDeadOn(t, r, waiting \ {"event"})
  IN  IF "event" \in waiting THEN PublishResult(dead, r, "rejected") ELSE dead

-----------------------------------------------------------------------------
(* Lifecycle.                                                              *)

\* Every open subscription's REQ is replayed on the new socket.
RelayConnected(t, r) ==
  [t EXCEPT !.connected = @ \cup {r}, !.auth[r] = RelayAuth,
            !.subs = [s \in Subs |->
               IF ~(t.subs[s].open /\ r \in Only[s]) THEN t.subs[s]
               ELSE [t.subs[s] EXCEPT !.reqd = @ \cup {r}, !.eosed = @ \ {r}, !.dead = @ \ {r},
                                      !.parked = @ \ {r}, !.closedFired = FALSE]]]

Forgotten(t, r) == [t EXCEPT !.connected = @ \ {r}, !.auth[r] = RelayAuth]

\* A deliberate close: no failure bookkeeping, and no on_close.
ForgetConnected(t, r) ==
  LET gone == Forgotten(t, r) IN
  [gone EXCEPT !.subs = [s \in Subs |->
     IF ~t.subs[s].open THEN t.subs[s]
     ELSE MaybeEose(gone, [t.subs[s] EXCEPT !.reqd = @ \ {r}, !.eosed = @ \ {r},
                                            !.dead = @ \ {r}, !.parked = @ \ {r}])]]

\* A socket, or a dial, that failed.
RelayDisconnected(t, r) ==
  PublishResult(SubsDeadOn(Forgotten(t, r), r, {s \in Subs : r \in t.subs[s].reqd}), r, "unreachable")

OpenSub(t, s, relays) == [t EXCEPT !.subs[s] = SubState(relays \cap Only[s])]

DropSub(t, s) ==
  [t EXCEPT !.subs[s] = [SubState({}) EXCEPT !.open = FALSE],
            !.auth = [r \in Relays |-> [t.auth[r] EXCEPT !.waiting = @ \ {s}, !.again = @ \ {s}]]]

OpenPublish(t, relays) == [t EXCEPT !.pub = PublishState(relays)]

PublishTimedOut(t) ==
  IF t.pub.settled THEN t
  ELSE [t EXCEPT !.pub = MaybePublishSettled([@ EXCEPT !.awaiting = {},
         !.results = @ \cup (IF t.pub.awaiting = {} THEN {} ELSE {"unconfirmed"})])]

DropPublish(t) ==
  [t EXCEPT !.pub = [PublishState({}) EXCEPT !.open = FALSE],
            !.auth = [r \in Relays |-> [t.auth[r] EXCEPT !.waiting = @ \ {"event"}, !.again = @ \ {"event"}]]]

-----------------------------------------------------------------------------
(* NIP-42.                                                                 *)

AuthIsSettled(t, r) == r \in t.connected /\ t.auth[r].accepted # "none"

AuthSent(t, r) ==
  IF r \in t.connected /\ t.auth[r].accepted = "none" THEN [t EXCEPT !.auth[r].pending = TRUE] ELSE t

AuthSignFailed(t, r) ==
  IF r \notin t.connected THEN t
  ELSE Refused([t EXCEPT !.auth[r] = [@ EXCEPT !.pending = FALSE, !.answered = FALSE,
                                               !.failed = TRUE, !.waiting = {}]],
               r, t.auth[r].waiting)

RefuseAuth(t, r) ==
  Refused([t EXCEPT !.auth[r] = [@ EXCEPT !.pending = FALSE, !.accepted = "no", !.waiting = {}]],
          r, t.auth[r].waiting)

AuthTimedOut(t, r) ==
  IF r \in t.connected /\ t.auth[r].pending /\ t.auth[r].accepted = "none" THEN RefuseAuth(t, r) ELSE t

\* The relay's OK or refusal of our AUTH.
AuthSettled(t, r, accepted) ==
  LET waiting == t.auth[r].waiting
      yes == [t EXCEPT !.auth[r] = [@ EXCEPT !.pending = FALSE, !.accepted = "yes", !.waiting = {},
                                             !.again = @ \cup waiting],
                       !.subs = [s \in Subs |-> IF s \in waiting THEN [t.subs[s] EXCEPT !.parked = @ \ {r}]
                                                                 ELSE t.subs[s]],
                       !.out = {<<r, x>> : x \in waiting}]
  IN  IF accepted THEN yes ELSE RefuseAuth(t, r)

\* A challenge is signed once for each connection, unless signing it failed.
OnAuth(t, r) ==
  IF r \in t.connected /\ ~t.auth[r].failed /\ (t.auth[r].answered \/ t.auth[r].accepted # "none") THEN t
  ELSE [t EXCEPT !.out = {<<r, "auth">>},
                 !.auth[r] = IF r \in t.connected THEN [@ EXCEPT !.failed = FALSE, !.answered = TRUE] ELSE @]

\* What x (a subscription, or the event) refused with auth-required does
\* next: it is sent again, it waits, or it is over.
NeedsAuth(t, r, x) ==
  LET a == t.auth[r] IN
  CASE a.accepted = "yes" /\ x \notin a.again -> "again"
    [] a.accepted = "none" /\ ~a.failed -> "waits"
    [] OTHER -> "over"

Again(t, r, x) == [t EXCEPT !.auth[r].again = @ \cup {x}, !.out = {<<r, x>>}]

SubNeedsAuth(t, r, s) ==
  IF ~t.subs[s].open \/ r \notin t.connected THEN t
  ELSE CASE NeedsAuth(t, r, s) = "again" -> Again(t, r, s)
         [] NeedsAuth(t, r, s) = "over"  -> SubsDeadOn(t, r, {s})
         [] OTHER -> [t EXCEPT !.auth[r].waiting = @ \cup {s},
                               !.subs[s] = MaybeEose(t, [@ EXCEPT !.parked = @ \cup {r}])]

EventNeedsAuth(t, r) ==
  IF ~(t.pub.open /\ r \in t.pub.awaiting /\ r \in t.connected) THEN PublishResult(t, r, "rejected")
  ELSE CASE NeedsAuth(t, r, "event") = "again" -> Again(t, r, "event")
         [] NeedsAuth(t, r, "event") = "over"  -> PublishResult(t, r, "rejected")
         [] OTHER -> [t EXCEPT !.auth[r].waiting = @ \cup {"event"}]

-----------------------------------------------------------------------------
(* One frame from the socket of r.                                         *)

OnEose(t, r, s) ==
  IF ~t.subs[s].open THEN t
  ELSE [t EXCEPT !.subs[s] = MaybeEose(t, [@ EXCEPT !.eosed = @ \cup {r}])]

OnClosed(t, r, s, authRequired) ==
  IF authRequired THEN SubNeedsAuth(t, r, s) ELSE SubsDeadOn(t, r, {s})

OnOk(t, r, answer) ==
  CASE answer = "auth-required" -> EventNeedsAuth(t, r)
    [] answer = "ok" -> PublishResult(t, r, "accepted")
    [] OTHER -> PublishResult(t, r, "rejected")

------------------------------------------------------------------------------

CONSTANTS MaxDials,        \* dials in a behaviour
          OutboundQueue,   \* frames queued for one socket
          Attempts,        \* PUBLISH_CONFIRM_ATTEMPTS
          MaxFrames,       \* frames the relays send in a behaviour
          PoolScenes       \* [relays, lists, may]: see PoolInit

VARIABLES w,        \* the transport's state
          call,     \* publish_confirmed: [at, tries, last, oks]
          frames,   \* frames the relays have sent
          scene     \* what may happen in this behaviour
poolVars == <<w, call, frames, scene>>

May(what) == what \in scene.may

NoConn == [gen |-> 0, up |-> FALSE]

PoolInit ==
  /\ scene \in PoolScenes
  /\ w = [relays |-> scene.relays, active |-> FALSE, gen |-> 0, conn |-> [r \in Relays |-> NoConn],
          task |-> [g \in 1..MaxDials |-> [relay |-> CHOOSE r \in Relays : TRUE, at |-> "none",
                                           stop |-> "none", queued |-> 0, reqs |-> [s \in Subs |-> 0]]],
          asked |-> {}, timers |-> {}, probes |-> {}, signing |-> {}, deadlines |-> {}, router |-> RouterNew]
  /\ call = [at |-> "idle", tries |-> 0, last |-> "unreachable", oks |-> {}]
  /\ frames = 0

-----------------------------------------------------------------------------
(* Connections.                                                            *)

\* A deliberate stop overrides a failure still pending; otherwise the first
\* request wins.
RequestStop(p, g, reason) ==
  IF p.task[g].stop = "none" \/ reason = "deliberate" THEN [p EXCEPT !.task[g].stop = reason] ELSE p

\* Queue one frame; a full queue stops the connection as a failure.  Only a
\* slow relay lets its queue grow.
Queue(p, r) ==
  LET g == p.conn[r].gen IN
  CASE g = 0 \/ ~May("slow") -> p
    [] g # 0 /\ May("slow") /\ p.task[g].queued < OutboundQueue -> [p EXCEPT !.task[g].queued = @ + 1]
    [] OTHER -> RequestStop(p, g, "failed")

SendReq(p, r, s) ==
  IF p.conn[r].gen = 0 THEN p ELSE [Queue(p, r) EXCEPT !.task[p.conn[r].gen].reqs[s] = @ + 1]

\* Every step over a set of relays or subscriptions, in some order.
Over(S, p, Op(_, _)) ==
  LET f[T \in SUBSET S] == IF T = {} THEN p ELSE LET x == CHOOSE x \in T : TRUE IN Op(f[T \ {x}], x)
  IN  f[S]

\* Take the connection out on purpose and close it.
Detach(p, r) ==
  LET c == p.conn[r]
      out == [p EXCEPT !.conn[r] = NoConn, !.router = IF c.up THEN ForgetConnected(@, r) ELSE @]
  IN  IF c.gen = 0 THEN p ELSE RequestStop(out, c.gen, "deliberate")

SpawnRelay(p, r) ==
  IF p.gen = MaxDials THEN p
  ELSE [p EXCEPT !.gen = @ + 1, !.conn[r] = [gen |-> p.gen + 1, up |-> FALSE],
                 !.task[p.gen + 1] = [@ EXCEPT !.relay = r, !.at = "dialing"]]

\* Dial every configured relay that has no connection.
EnsureConnected(p) ==
  LET missing == {r \in p.relays : p.conn[r].gen = 0}
  IN  Over(missing, [p EXCEPT !.active = TRUE, !.timers = @ \ missing], SpawnRelay)

\* The router's answers, carried out once its step is over.
Carried(p, pair) ==
  CASE pair[2] = "auth"  -> IF p.conn[pair[1]].gen = 0 THEN p
                            ELSE [p EXCEPT !.signing = @ \cup {p.conn[pair[1]].gen}]
    [] pair[2] = "event" -> Queue(p, pair[1])
    [] OTHER             -> SendReq(p, pair[1], pair[2])

Apply(p) == [Over(p.router.out, p, Carried) EXCEPT !.router.out = {}]

Routed(p, router) == Apply([p EXCEPT !.router = router])

CurrentAnyDial(p, g) == p.conn[p.task[g].relay].gen # 0

\* FALSE as a result means the dial's entry was detached or replaced.
Current(p, g) == p.conn[p.task[g].relay].gen = g

OnRelayUp(p, g) ==
  LET r == p.task[g].relay
      up == [p EXCEPT !.conn[r].up = TRUE, !.task[g].at = "up", !.router = RelayConnected(@, r)]
      Req(q, s) == SendReq(q, r, s)
  IN  IF ~Current(p, g) THEN [p EXCEPT !.task[g].at = "ended"]
      ELSE Over({s \in Subs : p.router.subs[s].open /\ r \in Only[s]}, up, Req)

\* A failed dial or socket: its relay is redialled after a backoff.
OnRelayDead(p, g) ==
  LET r == p.task[g].relay
      gone == Routed([p EXCEPT !.conn[r] = NoConn, !.task[g].at = "ended"], RelayDisconnected(p.router, r))
  IN  IF ~Current(p, g) THEN [p EXCEPT !.task[g].at = "ended"]
      ELSE IF p.active /\ r \in p.relays THEN [gone EXCEPT !.timers = @ \cup {r}] ELSE gone

Redial(p, r) ==
  LET idle == [p EXCEPT !.timers = @ \ {r}]
  IN  IF p.active /\ p.conn[r].gen = 0 /\ r \in p.relays THEN SpawnRelay(idle, r) ELSE idle

-----------------------------------------------------------------------------
(* What the host asks for.                                                 *)

Shutdown(p) ==
  Apply(Over(Relays, [p EXCEPT !.active = FALSE, !.timers = {}], Detach))

SetRelays(p, relays) ==
  LET gone == Relays \ relays
      kept == Apply(Over(gone, [p EXCEPT !.relays = relays, !.timers = @ \ gone], Detach))
  IN  IF p.active THEN EnsureConnected(kept) ELSE kept

\* Every socket was dialled through the old proxy: all are redialled.
SetProxy(p) ==
  LET closed == Apply(Over(Relays, [p EXCEPT !.timers = {}], Detach))
  IN  IF p.active THEN EnsureConnected(closed) ELSE closed

\* The network changed: a dial in flight is abandoned, live sockets stay.
RetryNow(p) ==
  LET dialing == {r \in Relays : p.conn[r].gen # 0 /\ ~p.conn[r].up}
  IN  IF p.active THEN EnsureConnected(Apply(Over(dialing, [p EXCEPT !.timers = {}], Detach))) ELSE p

\* The deadlines the device slept through: overdue holds the dials and the
\* redials that are due by the wall clock.
CatchUp(p, overdue) ==
  LET stalled == {r \in overdue : p.conn[r].gen # 0 /\ ~p.conn[r].up}
      due == {r \in overdue : r \in p.timers /\ p.conn[r].gen = 0}
  IN  IF ~p.active THEN p
      ELSE Over(stalled \cup due, Apply(Over(stalled, [p EXCEPT !.timers = @ \ due], Detach)), SpawnRelay)

Subscribe(p, s) ==
  LET opened == [p EXCEPT !.asked = @ \cup {s}, !.router = OpenSub(@, s, p.relays)]
      Req(q, r) == SendReq(q, r, s)
  IN  Over({r \in Only[s] : p.conn[r].up}, opened, Req)

CloseSub(p, s) ==
  Over({r \in Relays : p.conn[r].up}, [p EXCEPT !.router = DropSub(@, s)], Queue)

\* Ping every connected relay; one that stays silent is dropped as failed.
ProbeStarts(p) ==
  LET up == {r \in Relays : p.conn[r].up}
  IN  Over(up, [p EXCEPT !.probes = {p.conn[r].gen : r \in up}], Queue)

ProbeEnds(p) ==
  LET Unresponsive(q, g) == RequestStop(q, g, "failed")
  IN  Over({g \in p.probes : Current(p, g)}, [p EXCEPT !.probes = {}], Unresponsive)

HostCall ==
  /\ UNCHANGED <<call, frames, scene>>
  /\ \/ May("connect")  /\ w.gen < MaxDials /\ w' = EnsureConnected(w)
     \/ May("shutdown") /\ w.active /\ w' = Shutdown(w)
     \/ May("relays")   /\ w.gen < MaxDials /\ \E relays \in scene.lists : w' = SetRelays(w, relays)
     \/ May("proxy")    /\ w.gen < MaxDials - 1 /\ w' = SetProxy(w)
     \/ May("retry")    /\ w.gen < MaxDials - 1 /\ w' = RetryNow(w)
     \/ May("sleep")    /\ w.gen < MaxDials - 1 /\ \E overdue \in SUBSET Relays : w' = CatchUp(w, overdue)
     \/ May("probe")    /\ w' = IF w.probes = {} THEN ProbeStarts(w) ELSE ProbeEnds(w)
     \/ \E s \in Subs : \/ s \notin w.asked /\ w' = Subscribe(w, s)
                        \/ May("close sub") /\ w.router.subs[s].open /\ w' = CloseSub(w, s)

-----------------------------------------------------------------------------
(* A relay's task, run_relay.  A task told to stop on purpose may lose the *)
(* race with its dial or its socket once more before it notices.           *)

DialSettles ==
  \E g \in 1..MaxDials :
    /\ w.task[g].at = "dialing"
    /\ \/ w' = OnRelayUp(w, g)
       \/ May("fail") /\ w' = OnRelayDead(w, g)
       \/ w.task[g].stop = "deliberate" /\ w' = [w EXCEPT !.task[g].at = "ended"]
    /\ UNCHANGED <<call, frames, scene>>

SocketEnds ==
  \E g \in 1..MaxDials :
    /\ w.task[g].at = "up"
    /\ \/ (May("fail") \/ w.task[g].stop = "failed") /\ w' = OnRelayDead(w, g)
       \/ w.task[g].stop = "deliberate" /\ w' = [w EXCEPT !.task[g].at = "ended"]
    /\ UNCHANGED <<call, frames, scene>>

WriterSends ==
  \E g \in 1..MaxDials :
    /\ w.task[g].at = "up" /\ w.task[g].queued > 0
    /\ w' = [w EXCEPT !.task[g].queued = @ - 1]
    /\ UNCHANGED <<call, frames, scene>>

RedialTimer ==
  /\ \E r \in w.timers : (w.gen < MaxDials \/ w.conn[r].gen # 0) /\ w' = Redial(w, r)
  /\ UNCHANGED <<call, frames, scene>>

\* A frame of the socket of dial g.  A detached task may still read some, but
\* not once its replacement is up.
RelayFrame ==
  \E g \in 1..MaxDials :
    LET r == w.task[g].relay
        heard == [w EXCEPT !.probes = @ \ {g}]
        t == w.router
    IN  /\ w.task[g].at = "up" /\ frames < MaxFrames
        /\ Current(w, g) \/ ~w.conn[r].up
        /\ frames' = frames + 1
        /\ \/ w' = heard /\ UNCHANGED call                       \* a Pong
           \/ \E s \in Subs : /\ \/ w' = Routed(heard, OnEose(t, r, s))
                                 \/ \E a \in (IF May("auth") THEN BOOLEAN ELSE {FALSE}) :
                                       w' = Routed(heard, OnClosed(t, r, s, a))
                              /\ UNCHANGED call
           \/ \E answer \in {"ok", "refused"} \cup (IF May("auth") THEN {"auth-required"} ELSE {}) :
                /\ call.at = "waiting"
                /\ w' = Routed(heard, OnOk(t, r, answer))
                /\ call' = IF answer = "ok" /\ r \in t.pub.awaiting THEN [call EXCEPT !.oks = @ \cup {r}] ELSE call
           \/ May("auth") /\ w' = Routed(heard, OnAuth(t, r)) /\ UNCHANGED call
           \/ \E accepted \in BOOLEAN : /\ r \in t.connected /\ t.auth[r].pending
                                        /\ w' = Routed(heard, AuthSettled(t, r, accepted))
                                        /\ UNCHANGED call
        /\ UNCHANGED scene

\* The signature of a challenge comes back, or signing it failed; an answer
\* for a connection that is gone is dropped.
SendAuth ==
  /\ \E g \in w.signing :
       LET r == w.task[g].relay
           done == [w EXCEPT !.signing = @ \ {g}]
       IN  \/ w' = IF Current(w, g) THEN Routed(done, AuthSignFailed(w.router, r)) ELSE done
           \/ w' = IF ~Current(w, g) \/ AuthIsSettled(w.router, r) THEN done
                   ELSE [Queue([done EXCEPT !.router = AuthSent(@, r)], r) EXCEPT !.deadlines = @ \cup {g}]
  /\ UNCHANGED <<call, frames, scene>>

AuthDeadline ==
  /\ \E g \in w.deadlines :
       LET due == [w EXCEPT !.deadlines = @ \ {g}]
       IN  w' = IF Current(w, g) THEN Routed(due, AuthTimedOut(w.router, w.task[g].relay)) ELSE due
  /\ UNCHANGED <<call, frames, scene>>

-----------------------------------------------------------------------------
(* publish_confirmed: one signed event, published again while no relay     *)
(* could be reached, within a budget.                                      *)

UpTargets == {r \in Relays : w.conn[r].up}

PublishConfirmed ==
  /\ May("publish") /\ call.at = "idle"
  /\ call' = [call EXCEPT !.at = "seeking"]
  /\ UNCHANGED <<w, frames, scene>>

Publish ==
  /\ call.at = "seeking" /\ UpTargets # {}
  /\ w' = Over(UpTargets, [w EXCEPT !.router = OpenPublish(@, UpTargets)], Queue)
  /\ call' = [call EXCEPT !.at = "waiting", !.tries = @ + 1]
  /\ UNCHANGED <<frames, scene>>

\* No relay is up: the loop waits for one while it is configured, until the
\* budget is spent.
NoTarget ==
  /\ call.at = "seeking" /\ UpTargets = {}
  /\ call' = [call EXCEPT !.at = "done"]
  /\ UNCHANGED <<w, frames, scene>>

Concluded(router) ==
  /\ w' = [w EXCEPT !.router = DropPublish(router)]
  /\ call' = [call EXCEPT !.last = router.pub.verdict,
                          !.at = IF router.pub.verdict = "unreachable" /\ call.tries < Attempts
                                 THEN "seeking" ELSE "done"]
  /\ UNCHANGED <<frames, scene>>

PublishSettles == call.at = "waiting" /\ w.router.pub.settled /\ Concluded(w.router)

BudgetElapses == call.at = "waiting" /\ ~w.router.pub.settled /\ Concluded(PublishTimedOut(w.router))

-----------------------------------------------------------------------------
PoolNext == HostCall \/ DialSettles \/ SocketEnds \/ WriterSends \/ RedialTimer \/ RelayFrame
            \/ SendAuth \/ AuthDeadline \/ PublishConfirmed \/ Publish \/ NoTarget \/ PublishSettles
            \/ BudgetElapses

PoolSpec == PoolInit /\ [][PoolNext]_poolVars

\* Once ensure_connected was called, every configured relay has a dial or a
\* socket whose end will be reported, or a redial armed; after shutdown there
\* is neither (ws.rs: per-relay redial).  A run that has used up its dials
\* says nothing.
RelayServed ==
  \A r \in Relays :
    LET g == w.conn[r].gen IN
    /\ g # 0 => /\ w.task[g].relay = r /\ w.task[g].stop # "deliberate"
                /\ w.task[g].at = (IF w.conn[r].up THEN "up" ELSE "dialing")
    /\ w.active /\ r \in w.relays /\ w.gen < MaxDials => g # 0 \/ r \in w.timers
    /\ ~w.active \/ r \notin w.relays => g = 0 /\ r \notin w.timers

\* The socket layer and the router agree on which relays are connected,
\* whatever stale dials report, and on_close has been raised exactly when no
\* connected relay carries the subscription: never while one does.
RouterAgrees ==
  /\ w.router.connected = {r \in Relays : w.conn[r].up}
  /\ \A s \in Subs : LET u == w.router.subs[s] IN
       /\ u.closedFired => LiveRelays(w.router, u) = {}
       /\ \A r \in u.parked : r \in w.router.connected /\ s \in w.router.auth[r].waiting

\* Whatever waits for an AUTH to be accepted waits for something that comes:
\* the relay has not challenged yet, a signature is on its way, or the AUTH
\* was sent and its deadline runs.
ParkedIsAwaited ==
  \A r \in w.router.connected :
    LET a == w.router.auth[r] IN
    a.waiting # {} =>
      /\ a.accepted = "none" /\ ~a.failed
      /\ ~a.answered \/ w.conn[r].gen \in w.signing \/ (a.pending /\ w.conn[r].gen \in w.deadlines)

\* A subscription is REQ'd to a connection once, and once more after AUTH:
\* never a REQ/CLOSED loop (router.rs).
NoReqLoop == \A g \in 1..MaxDials, s \in Subs : w.task[g].reqs[s] <= 2

\* A publish some relay answered with OK is reported as accepted, and only
\* then, whatever the other relays said and however often it was retried.
VerdictIsHonest == call.at = "done" => (call.last = "accepted" <=> call.oks # {})

\* The transport holds what its callers rely on: relays are dialled again, the
\* router knows the sockets that are up, nothing waits for an AUTH that is not
\* coming, nothing is asked for in a loop, and verdicts are true
\* (ws.rs, router.rs, publish.rs).
PoolSound == RelayServed /\ RouterAgrees /\ ParkedIsAwaited /\ NoReqLoop /\ VerdictIsHonest
=============================================================================
