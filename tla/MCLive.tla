-------------------------------- MODULE MCLive --------------------------------
(* What must come in time, for TLC: each component below owes its user an     *)
(* end to a wait.  They share no state, so a behaviour plays one of them; the *)
(* fairness of a component binds the behaviours that play it.                 *)
EXTENDS PhoneLink, SessionKeys, Pairing, Outbox, Watching, LiveText, Answers

VARIABLE part

MCLinkScenes ==
  {[paired |-> TRUE, may |-> {"Start", "Offline"}], [paired |-> TRUE, may |-> {"Start", "quiet"}],
   [paired |-> FALSE, may |-> {"Start", "Paired"}], [paired |-> TRUE, may |-> {"Start", "link"}]}

KeyScene(confirmed, until, n, may) ==
  [confirmed |-> confirmed, old |-> FALSE, until |-> until, commands |-> n, may |-> may]

MCKeyScenes ==
  {KeyScene(FALSE, 2, 1, {"input", "signer fails"}), KeyScene(FALSE, 2, 1, {"live", "lose"}), KeyScene(TRUE, 6, 1, {"input"})}

MCPairScenes == {[phones |-> {"p"}, bridges |-> {"b"}, windows |-> 1, may |-> {}],
                 [phones |-> {"p"}, bridges |-> {"b"}, windows |-> 1, may |-> {"stage", "reset"}]}

WatchScene(conn, n, m, may) == [conn |-> conn, acts |-> n, faults |-> m, may |-> may]

MCWatchScenes ==
  {WatchScene("connected", 3, 1, {"renew", "lose", "overtake"}), WatchScene("connected", 3, 1, {"renew", "restart", "link"}),
   WatchScene("connected", 3, 0, {"renew", "keys"}), WatchScene("stopped", 3, 0, {"renew", "stop"}),
   WatchScene("connected", 3, 0, {"drop", "renew"})}

MCReply == [k \in {"k"} |-> <<"t", "<", "m", ">", "v">>]

MCLiveScenes ==
  {[reply |-> MCReply, may |-> {"lose", "watch"}], [reply |-> MCReply, may |-> {"skip", "watch"}],
   [reply |-> [k \in {"k"} |-> <<"t", "u">>], may |-> {"again", "watch"}]}

MCAnswerScenes ==
  {[changes |-> {Change("plugin", "install", {"x"}, TRUE), Read("plugin")}, hostStops |-> TRUE],
   [changes |-> {Change("account", "sign in", {"x"}, FALSE), Change("account", "remove", {"x"}, FALSE)}, hostStops |-> FALSE]}

-------------------------------------------------------------------------------
Played == {"phone", "keys", "pairing", "outbox", "watch", "live", "answers"}

Plays(p, scene, scenes) == part = p \/ scene = CHOOSE s \in scenes : TRUE

MCInit ==
  /\ part \in Played
  /\ LinkInit /\ Plays("phone", setting, LinkScenes)
  /\ KeyInit /\ Plays("keys", keyScene, KeyScenes)
  /\ PairInit /\ Plays("pairing", pairScene, PairScenes)
  /\ OutboxInit
  /\ WatchInit /\ Plays("watch", watchScene, WatchScenes)
  /\ LiveInit /\ Plays("live", liveScene, LiveScenes)
  /\ AnswersInit /\ Plays("answers", answerScene, AnswerScenes)

MCNext ==
  /\ UNCHANGED part
  /\ \/ part = "phone" /\ LinkNext
        /\ UNCHANGED <<keyVars, pairVars, outboxVars, watchVars, liveVars, answerVars>>
     \/ part = "keys" /\ KeyNext
        /\ UNCHANGED <<linkVars, pairVars, outboxVars, watchVars, liveVars, answerVars>>
     \/ part = "pairing" /\ PairNext
        /\ UNCHANGED <<linkVars, keyVars, outboxVars, watchVars, liveVars, answerVars>>
     \/ part = "outbox" /\ OutboxNext
        /\ UNCHANGED <<linkVars, keyVars, pairVars, watchVars, liveVars, answerVars>>
     \/ part = "watch" /\ WatchNext
        /\ UNCHANGED <<linkVars, keyVars, pairVars, outboxVars, liveVars, answerVars>>
     \/ part = "live" /\ LiveNext
        /\ UNCHANGED <<linkVars, keyVars, pairVars, outboxVars, watchVars, answerVars>>
     \/ part = "answers" /\ AnswersNext
        /\ UNCHANGED <<linkVars, keyVars, pairVars, outboxVars, watchVars, liveVars>>

\* The loop runs, its timers fire and a relay that has not gone quiet answers.
LinkFair ==
  /\ WF_linkVars(part = "phone" /\ LoopStep) /\ WF_linkVars(part = "phone" /\ FarewellsSettle)
  /\ WF_linkVars(part = "phone" /\ RetryTimer) /\ WF_linkVars(part = "phone" /\ VisibilityTimer)
  /\ WF_linkVars(part = "phone" /\ WatchdogTimer) /\ WF_linkVars(part = "phone" /\ ph.subs = "opening" /\ Eose)

\* The signer answers, the loop runs its messages, and an armed timer fires.
KeyFair ==
  /\ WF_keyVars(part = "keys" /\ RunSigner) /\ WF_keyVars(part = "keys" /\ OnGrantPublished)
  /\ WF_keyVars(part = "keys" /\ OnGrantWaitOver)

\* Timers fire and the loop handles what is queued; nothing is asked of the relays.
PairFair ==
  \A p \in Phones : /\ WF_pairVars(part = "pairing" /\ PairTimerFires(p) /\ UNCHANGED pairScene)
                    /\ WF_pairVars(part = "pairing" /\ OnPairDeadline(p) /\ UNCHANGED pairScene)

\* Heartbeats arrive and sweep, and time passes.
OutboxFair == WF_outboxVars(part = "outbox" /\ SweepOutbox) /\ WF_outboxVars(part = "outbox" /\ OutboxTick)

\* Timers fire, the signer and the publishing tasks proceed, the watchdog ticks.
WatchFair ==
  /\ WF_watchVars(part = "watch" /\ WatchSettles) /\ WF_watchVars(part = "watch" /\ WatchSettled)
  /\ WF_watchVars(part = "watch" /\ LinkOpens) /\ WF_watchVars(part = "watch" /\ Stopped)
  /\ WF_watchVars(part = "watch" /\ renew_presence) /\ WF_watchVars(part = "watch" /\ publish_built)
  /\ \A m \in WatchMachines : /\ WF_watchVars(part = "watch" /\ PublishReached(m))
                              /\ SF_watchVars(part = "watch" /\ FallsSilent /\ w'.stale = w.stale \cup {m})

\* The relays deliver, and the bridge's heartbeat repeats its list.
LiveFair == WF_liveVars(part = "live" /\ LiveArrives) /\ WF_liveVars(part = "live" /\ OnSessionsIdle)

\* Time passes and the deadline's message is handled.
AnswersFair == WF_answerVars(part = "answers" /\ GiveUp) /\ WF_answerVars(part = "answers" /\ AnswersTick)

MCFair == LinkFair /\ KeyFair /\ PairFair /\ OutboxFair /\ WatchFair /\ LiveFair /\ AnswersFair

MCSpec ==
  MCInit /\ [][MCNext]_<<part, linkVars, keyVars, pairVars, outboxVars, watchVars, liveVars, answerVars>> /\ MCFair

-------------------------------------------------------------------------------
(* Every wait the user can see ends: the wait for a session key's grant, an   *)
(* attempt to pair, a message in the outbox, a spinner of a settings page.    *)
NothingWaitsForever == WaitEnds /\ AttemptSettles /\ SendsResolve /\ SpinnerEnds

(* What the two sides hold of each other converges: the bridge knows what the *)
(* phone watches, and no live row outlives the work it was of.                *)
ViewsConverge == WatchConverges /\ RowsEnd
===============================================================================
