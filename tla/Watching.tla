------------------------------- MODULE Watching -------------------------------
(***************************************************************************)
(* What a phone shows decides what a bridge streams to it.  The phone      *)
(* tells each machine which session and terminal it watches in `presence`  *)
(* commands: once a choice has settled, again after a reconnect, and with  *)
(* every renewal of its presence; a stop says `away`.  A command is signed *)
(* in order and then published by a task of its own, over the machine's    *)
(* direct link while that answers, else over the relays: two of them may   *)
(* arrive in either order or not at all.                                   *)
(***************************************************************************)
EXTENDS Naturals, FiniteSets, SequencesExt

CONSTANTS WatchMachines,
          Idle,            \* nothing of the kind is watched
          WatchScenes      \* records: conn (at first), acts, faults (bounds), may

VARIABLES
  watchScene,
  w,         \* the phone: what is on screen and what was told; history: `forgot`, the
             \* machines told of a watch that a reconnect then forgot having told
  signing,   \* commands handed to the signer, in order
  tasks,     \* machine -> commands being published, oldest first
  b          \* machine -> what the bridge takes this client to watch

watchVars == <<watchScene, w, signing, tasks, b>>
Watch(session, terminal) == [session |-> session, terminal |-> terminal]
Nothing == Watch(Idle, Idle)
Unknown == Watch("unknown", "unknown")
WMay(what) == what \in watchScene.may

WatchInit ==
  /\ watchScene \in WatchScenes
  /\ w = [session |-> Idle, terminal |-> Idle, visible |-> TRUE, hiding |-> FALSE, conn |-> watchScene.conn, stopping |-> FALSE,
          usable |-> WatchMachines, links |-> {}, sent |-> << >>, timer |-> FALSE, stale |-> {}, forgot |-> {}, acts |-> 0, faults |-> 0]
  /\ signing = <<>> /\ tasks = [m \in WatchMachines |-> <<>>] /\ b = [m \in WatchMachines |-> Unknown]

\* What the screen shows of a machine, while the app is in the foreground.
watch_for(p, m) ==
  IF ~p.visible THEN Nothing ELSE Watch(IF p.session = m THEN m ELSE Idle, IF p.terminal = m THEN m ELSE Idle)
watch_now(p) == {m \in WatchMachines : watch_for(p, m) # Nothing}
watch_changed(p) == [p EXCEPT !.timer = TRUE]

\* A presence goes only to machines that know this client by its session key.
Presence(m, watch) == [to |-> m, watch |-> watch]
Presences(ms, Of(_)) == [i \in 1..Cardinality(ms) |-> LET m == SetToSortSeq(ms, LAMBDA x, y : x # y)[i] IN Presence(m, Of(m))]
SignAndSend(p, ms, Of(_)) ==
  /\ signing' = signing \o Presences(ms \cap p.usable, Of)
  /\ w' = [p EXCEPT !.stale = @ \ (ms \cap p.usable), !.forgot = @ \ (ms \cap p.usable)]

\* The settle window closed: whoever's watch is not what it was told last, and
\* whoever was left behind, is told; only the told count as told.
\* Mutant: the machine left behind is not told.
settle_watch_ahead(p) ==
  LET now == watch_now(p)
      changed == {m \in now : m \notin DOMAIN p.sent \/ p.sent[m] # watch_for(p, m)}
      told == (now \ changed) \cup (changed \cap p.usable)
  IN SignAndSend([p EXCEPT !.timer = FALSE, !.sent = [m \in told |-> watch_for(p, m)]], changed, LAMBDA m : watch_for(p, m))
settle_watch(p) ==
  LET now == watch_now(p)
      changed == {m \in now : m \notin DOMAIN p.sent \/ p.sent[m] # watch_for(p, m)}
      left == {m \in DOMAIN p.sent : m \notin now /\ p.sent[m] # Nothing}
      told == (now \ changed) \cup (changed \cap p.usable)
  IN SignAndSend([p EXCEPT !.timer = FALSE, !.sent = [m \in told |-> watch_for(p, m)]], changed \cup left, LAMBDA m : watch_for(p, m))
WatchSettles == w.timer /\ settle_watch(w) /\ UNCHANGED <<watchScene, tasks, b>>

Acts == w.acts < watchScene.acts
Phone(p) == w' = [p EXCEPT !.acts = @ + 1] /\ UNCHANGED <<watchScene, signing, tasks, b>>
\* Another session or terminal on screen, or none (every intent ends so).
Selects == Acts /\ \E m \in WatchMachines \cup {Idle} : m # w.session /\ Phone(watch_changed([w EXCEPT !.session = m]))
Attaches == Acts /\ WMay("terminal") /\ \E m \in WatchMachines \cup {Idle} : m # w.terminal /\ Phone(watch_changed([w EXCEPT !.terminal = m]))
\* Hiding the app is debounced; showing it is not.
AppPauses == Acts /\ WMay("hide") /\ w.visible /\ ~w.hiding /\ Phone([w EXCEPT !.hiding = TRUE])
WatchSettled ==
  w.hiding /\ w' = watch_changed([w EXCEPT !.hiding = FALSE, !.visible = FALSE]) /\ UNCHANGED <<watchScene, signing, tasks, b>>
Resume == Acts /\ WMay("hide") /\ (w.hiding \/ ~w.visible) /\ Phone(watch_changed([w EXCEPT !.hiding = FALSE, !.visible = TRUE]))
\* A start takes back a stop that still waits on its `away`.
AppStarts == Acts /\ (w.conn = "stopped" \/ w.stopping) /\ Phone([w EXCEPT !.stopping = FALSE, !.conn = IF @ = "stopped" THEN "connecting" ELSE @])
\* Connected: what was told is told again.
RefreshAndReconcile ==
  watch_changed([w EXCEPT !.conn = "connected", !.sent = << >>, !.forgot = @ \cup {m \in DOMAIN w.sent : w.sent[m] # Nothing}])
LinkOpens == w.conn = "connecting" /\ w' = RefreshAndReconcile /\ UNCHANGED <<watchScene, signing, tasks, b>>
LinkCloses == Acts /\ WMay("drop") /\ w.conn = "connected" /\ Phone([w EXCEPT !.conn = "connecting"])
say_away ==
  /\ Acts /\ WMay("stop") /\ w.conn # "stopped" /\ ~w.stopping
  /\ SignAndSend([w EXCEPT !.stopping = TRUE, !.acts = @ + 1], IF w.conn = "connected" THEN WatchMachines ELSE {}, LAMBDA m : Nothing)
  /\ UNCHANGED <<watchScene, tasks, b>>
Stopped == w.stopping /\ w' = [w EXCEPT !.stopping = FALSE, !.conn = "stopped"] /\ UNCHANGED <<watchScene, signing, tasks, b>>
\* The bridge's grant is lost or confirmed; a direct link comes up or goes.
KeyChanges == Acts /\ WMay("keys") /\ \E m \in WatchMachines : Phone([w EXCEPT !.usable = IF m \in @ THEN @ \ {m} ELSE @ \cup {m}])
LinkChanges == Acts /\ WMay("link") /\ \E m \in WatchMachines : Phone([w EXCEPT !.links = IF m \in @ THEN @ \ {m} ELSE @ \cup {m}])

\* No command for PRESENCE_RENEW_SECS, far longer than any publish takes.
FallsSilent ==
  \E m \in WatchMachines : /\ WMay("renew") /\ m \notin w.stale /\ signing = <<>> /\ tasks[m] = <<>>
                           /\ w' = [w EXCEPT !.stale = @ \cup {m}] /\ UNCHANGED <<watchScene, signing, tasks, b>>
\* The watchdog, while connected or some link is up.
\* Mutant: a renewal repeats what the machine was last told.
RenewalRepeats(m) == IF m \in DOMAIN w.sent THEN w.sent[m] ELSE Nothing
Renewal(m) == watch_for(w, m)
renew_presence ==
  /\ w.stale # {} /\ (w.conn = "connected" \/ w.links # {})
  /\ SignAndSend(w, {m \in w.stale : w.conn = "connected" \/ m \in w.links}, Renewal)
  /\ UNCHANGED <<watchScene, tasks, b>>

\* Signed: published off the loop from here on.
publish_built ==
  /\ signing # <<>>
  /\ tasks' = [tasks EXCEPT ![Head(signing).to] = Append(@, Head(signing))]
  /\ signing' = Tail(signing) /\ UNCHANGED <<watchScene, w, b>>
Faulty == w.faults < watchScene.faults
\* Some task of the machine ends: the oldest, unless publishes overtake each
\* other; its command reached the bridge, or it failed quietly.
Ending(m) == IF WMay("overtake") THEN DOMAIN tasks[m] ELSE {1} \cap DOMAIN tasks[m]
note_presence(m, msg) == b' = [b EXCEPT ![m] = msg.watch]
PublishReached(m) ==
  \E i \in Ending(m) : /\ note_presence(m, tasks[m][i]) /\ tasks' = [tasks EXCEPT ![m] = RemoveAt(@, i)]
                       /\ UNCHANGED <<watchScene, w, signing>>
PublishFailed(m) ==
  \E i \in Ending(m) : /\ Faulty /\ WMay("lose") /\ w' = [w EXCEPT !.faults = @ + 1]
                       /\ tasks' = [tasks EXCEPT ![m] = RemoveAt(@, i)] /\ UNCHANGED <<watchScene, signing, b>>
\* The bridge restarts and knows no client's watch.
BridgeForgets(m) ==
  /\ Faulty /\ WMay("restart") /\ b[m] # Unknown
  /\ b' = [b EXCEPT ![m] = Unknown] /\ w' = [w EXCEPT !.faults = @ + 1] /\ UNCHANGED <<watchScene, signing, tasks>>

WatchSteps == WatchSettles \/ WatchSettled \/ LinkOpens \/ Stopped \/ FallsSilent \/ renew_presence \/ publish_built
              \/ \E m \in WatchMachines : PublishReached(m)
WatchNext ==
  \/ WatchSteps \/ Selects \/ Attaches \/ AppPauses \/ Resume \/ AppStarts \/ LinkCloses \/ say_away \/ KeyChanges \/ LinkChanges
  \/ \E m \in WatchMachines : PublishFailed(m) \/ BridgeForgets(m)
WatchSpec == WatchInit /\ [][WatchNext]_watchVars

-----------------------------------------------------------------------------
\* The bridge streams for what the screen shows of its machine.
Told(m) == b[m] = watch_for(w, m) \/ (b[m] = Unknown /\ watch_for(w, m) = Nothing)

\* The choice has settled and everything told has arrived.
AllTold == w.conn = "connected" /\ ~w.timer /\ signing = <<>> /\ \A m \in WatchMachines : tasks[m] = <<>>

\* "Leaving a machine for another also tells the one left behind that nothing is
\* watched there any more": once settled, each bridge streams for what is on screen.
\* In no run: a reconnect forgets what was told, so a machine left while the link was
\* down is not told so until the next renewal.
WatchAlwaysTold == AllTold => \A m \in WatchMachines : Told(m)

\* A change, a machine left behind or a hidden app never leaves a bridge streaming
\* for a screen that is gone, and after a reconnect every machine on screen is told
\* again (settle_watch, watch_changed); a machine left behind that a reconnect
\* forgot is excepted.
WatchTold == AllTold => \A m \in WatchMachines : Told(m) \/ (m \in w.forgot /\ watch_for(w, m) = Nothing)

\* "a bridge that missed a change catches up within one period": whatever was
\* lost, overtaken or forgotten, and whichever key could not be used, once the
\* user rests each bridge the phone can reach ends up with what is on screen
\* (renew_presence).
WatchConverges ==
  <>[](\A m \in WatchMachines : (m \in w.usable /\ w.conn = "connected") => Told(m))
=============================================================================
