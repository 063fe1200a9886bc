------------------------------ MODULE MCTerminal ------------------------------
(***************************************************************************)
(* The scenes: a long line over a bad network; two devices that pass the   *)
(* pen; a pen whose device is withdrawn; a terminal that ends or is        *)
(* forgotten in every way; and output over a bad network to a screen that  *)
(* is left and shown again.                                                *)
(***************************************************************************)
EXTENDS TerminalEngine

(***************************************************************************)
(* A terminal end to end: the phones of one identity and the bridge, over  *)
(* a live channel that loses, repeats and reorders.                        *)
(***************************************************************************)
ASSUME BoundsAssumption == MaxHeld \in Nat \ {0} /\ Keep \in Nat \ {0}

vars == <<scene, b, allow, changes, shell, proc, reports, out, up, down, frames, p, takeovers>>

Init == EngineInit /\ PhoneInit

Lose ==
  /\ "lose" \in scene.may
  /\ \/ \E m \in up : up' = up \ {m} /\ UNCHANGED <<down, frames>>
     \/ \E m \in down : down' = down \ {m} /\ UNCHANGED <<up, frames>>
     \/ \E m \in frames : frames' = frames \ {m} /\ UNCHANGED <<up, down>>
  /\ UNCHANGED <<b, allow, changes, shell, proc, reports, out, p, takeovers>>

Next ==
  /\ \/ BridgeActs /\ UNCHANGED <<p, takeovers>>
     \/ PhoneActs
     \/ Lose
  /\ UNCHANGED scene

Spec == Init /\ [][Next]_vars

(***************************************************************************)
(* Properties.                                                             *)
(***************************************************************************)
\* Every variable has its type.
TypeOK ==
  /\ b.phase \in {"none", "spawning", "open", "over"}
  /\ b.opener \in Devices \cup {"none"} /\ b.writer \in Devices \cup {"none"}
  /\ b.last \in [Devices -> Nat] /\ DOMAIN b.held \subseteq Nat
  /\ b.gap \in BOOLEAN /\ b.exited \in BOOLEAN
  /\ allow \subseteq Devices /\ changes \in 0..scene.changes /\ takeovers \in 0..scene.takeovers
  /\ \A i \in DOMAIN shell : shell[i] \in Devices \X Nat
  /\ proc \in {"none", "starting", "alive", "dying", "dead"}
  /\ reports \in Seq({"spawned", "spawn-failed", "exited"})
  /\ \A d \in Devices :
       /\ p[d].shows \in {"nothing", "opening", "term"} /\ p[d].count \in BOOLEAN
       /\ p[d].next \in Nat /\ p[d].resend \in Nat /\ p[d].typed \in 0..scene.typed[d]
       /\ Len(p[d].sent) <= Keep
       /\ p[d].expected \in 0..out.total /\ p[d].asked \in BOOLEAN
  /\ out.framed \in 0..out.total /\ out.total \in 0..scene.lines

\* The keys of device d that were written to the shell.
Received(d) == SelectSeq(shell, LAMBDA k : k[1] = d)

\* What a device typed is written to the shell in the order it was typed, each key
\* once and none left out before a later one, through losses, repeats,
\* reordering, resends and takeovers, as long as its phone keeps its count.
TypedInOrder ==
  \A d \in Devices :
    ~ p[d].lost => \A i \in DOMAIN Received(d) : Received(d)[i] = <<d, i>>

\* Input held behind a gap is never left there: a timer is armed that asks
\* the writer for what is missing.
HeldHasTimer == b.held # NoKeys => b.phase = "open" /\ b.gap

\* What is held is the writer's own and lies past the seq awaited, within the
\* window the bridge allows.
HeldIsAhead ==
  b.held # NoKeys => \A s \in DOMAIN b.held : s > last_seq + 1 /\ s <= last_seq + MaxHeld

\* A phone that kept its count numbers its next input past all the bridge has
\* typed of it, so its next keys are never taken for old ones.
CountNotBehind ==
  \A d \in Devices : p[d].count /\ ~ p[d].lost => b.last[d] < p[d].next

\* Once the engine has read what the runtime reported, an open terminal has a
\* live shell and one that is over has none left running.
ShellAgrees ==
  reports = <<>> =>
    /\ b.phase = "open" => proc = "alive"
    /\ b.phase = "over" => proc \in {"dying", "dead"}

\* What the screen of d has skipped below the byte it expects next had left
\* the ring.
NothingSkipped(d) == \A u \in 0..(p[d].expected - 1) : u \in ToSet(p[d].drawn) \/ u < oldest

\* A screen shows the output in order and each piece once.  Nothing that the
\* ring still holds is missing below the byte it expects next, unless the
\* screen was shown again while the answer to an earlier replay was under way.
ScreenHasNoHole ==
  \A d \in Devices :
    LET drawn == p[d].drawn
    IN p[d].shows = "term" =>
         /\ \A i \in 1..(Len(drawn) - 1) : drawn[i] < drawn[i + 1]
         /\ p[d].late \/ NothingSkipped(d)

\* The comment in `output` on the answer to a replay: it is past what was asked
\* for once that output has left the ring.  Not so for an answer from before a
\* detach: the store keeps no id of a replay, takes the old answer for the new
\* one, and drops the new one as drawn.
SkippedLeftTheRing == \A d \in Devices : p[d].shows = "term" => NothingSkipped(d)

------------------------------------------------------------------------------

Keys(a, c) == [d \in Devices |-> IF d = "A" THEN a ELSE c]

MCScenes ==
  {[who |-> {"A"}, typed |-> Keys(4, 0), takeovers |-> 0, changes |-> 0, lines |-> 0, may |-> {"lose", "repeat"}],
   [who |-> Devices, typed |-> Keys(2, 1), takeovers |-> 2, changes |-> 0, lines |-> 0, may |-> {}],
   [who |-> Devices, typed |-> Keys(0, 1), takeovers |-> 1, changes |-> 1, lines |-> 0, may |-> {}],
   [who |-> {"A"}, typed |-> Keys(2, 0), takeovers |-> 0, changes |-> 1, lines |-> 0, may |-> {"end", "forget"}],
   [who |-> {"A"}, typed |-> Keys(0, 0), takeovers |-> 0, changes |-> 0, lines |-> 4, may |-> {"lose", "repeat"}]}

\* A terminal is one shell whoever is attached and however frames travel: keys
\* reach it in the order typed, and a screen that was not shown again ahead of
\* an old replay shows output without a hole.
TerminalSound ==
  TypeOK /\ TypedInOrder /\ HeldHasTimer /\ HeldIsAhead /\ CountNotBehind /\ ShellAgrees /\ ScreenHasNoHole
===============================================================================
