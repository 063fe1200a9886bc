---------------------------- MODULE TerminalEngine ----------------------------
(***************************************************************************)
(* One terminal on the bridge: who types into it, in which order, and how  *)
(* it starts and ends (crates/bridge-core/src/engine/terminal.rs), with    *)
(* the shell the runtime runs for it (crates/bridge-runtime/src/terminal). *)
(*                                                                         *)
(* The devices are clients of one identity; the bridge has room for one    *)
(* terminal.  A key is its number among those its device typed.  The gates *)
(* of the configuration stand open, the allowlist is a variable.  Window   *)
(* sizes, labels, the audit and terminal-event, which only change what a   *)
(* person reads, are left out.  So is the queue to a program that reads no *)
(* input, which drops what does not fit.                                   *)
(***************************************************************************)
EXTENDS Integers, Sequences, FiniteSets, SequencesExt

CONSTANTS
  Devices,
  MaxHeld,     \* MAX_HELD_INPUTS
  MaxNet,      \* bound: messages under way in each direction
  Ring,        \* the ring's CAPACITY
  Scenes       \* bounds: who plays, keys each device types, takeovers, changes
               \* of the allowlist, pieces of output, and what may happen
               \* besides, a subset of {"lose", "repeat", "end", "forget"}

VARIABLES
  scene,    \* the one this behaviour plays
  b,        \* the engine's terminal
  allow,    \* TerminalAllowlist::devices
  changes,
  shell,    \* keys the runtime was told to write, as <<device, key>>
  proc,     \* the shell: "none", "starting", "alive", "dying", "dead"
  reports,  \* inputs of the runtime the engine has not read
  out,      \* output: pieces written, and how many of them were framed
  up, down, \* messages to the bridge, and to the phones
  frames    \* output under way

NoKeys == [s \in {} |-> <<>>]

Closed ==
  [phase |-> "none", opener |-> "none", writer |-> "none", last |-> [d \in Devices |-> 0],
   held |-> NoKeys, gap |-> FALSE, exited |-> FALSE]

EngineInit ==
  /\ scene \in Scenes /\ b = Closed /\ allow = Devices /\ changes = 0 /\ shell = <<>>
  /\ proc = "none" /\ reports = <<>> /\ out = [total |-> 0, framed |-> 0]
  /\ up = {} /\ down = {} /\ frames = {}

Input(d, seq, keys) == [kind |-> "input", dev |-> d, seq |-> seq, keys |-> keys]
Command(kind, d) == [kind |-> kind, dev |-> d, seq |-> 0, keys |-> <<>>]
Replay(d, from) == [kind |-> "replay", dev |-> d, seq |-> from, keys |-> <<>>]
InputFrom(d, seq) == [kind |-> "input-from", dev |-> d, seq |-> seq]
Answer(kind, d) == [kind |-> kind, dev |-> d, seq |-> 0]
Exited == {Answer("exited", d) : d \in scene.who}

Frame(d, from, to, replay) == [dev |-> d, from |-> from, to |-> to, replay |-> replay]

Tell(msgs) == down' = down \cup msgs /\ Cardinality(down') <= MaxNet

(***************************************************************************)
(* The pen and the order of the input.                                     *)
(***************************************************************************)
terminal_refusal(d) == d \notin allow
terminal_is_mine == b.phase = "open"
last_seq == b.last[b.writer]

Typed(d, keys) == [i \in DOMAIN keys |-> <<d, keys[i]>>]

\* The seqs held without a hole behind `seq`.
RunBehind(held, seq) == {s \in DOMAIN held : \A k \in (seq + 1)..s : k \in DOMAIN held}

Without(held, S) == [s \in DOMAIN held \ S |-> held[s]]

\* `apply` and `flush_pending`.  When everything held is typed its timer is
\* left to fire for nothing.
apply(seq, keys) ==
  LET run == RunBehind(b.held, seq)
      rest == Without(b.held, run)
      behind == FlattenSeq([i \in 1..Cardinality(run) |-> b.held[seq + i]])
  IN /\ b' = [b EXCEPT !.last[b.writer] = seq + Cardinality(run), !.held = rest,
                       !.gap = @ \/ DOMAIN rest # {}]
     /\ shell' = shell \o Typed(b.writer, keys \o behind)

AskAgain == InputFrom(b.writer, last_seq + 1)

resend_from ==
  /\ b' = [b EXCEPT !.held = NoKeys, !.gap = FALSE]
  /\ Tell({AskAgain}) /\ UNCHANGED shell

\* `hold`, of a seq within the window.
hold(seq, keys) ==
  b' = [b EXCEPT !.held = [s \in DOMAIN b.held \cup {seq} |-> IF s = seq THEN keys ELSE b.held[s]],
                 !.gap = TRUE]

Pen(device) == [b EXCEPT !.writer = device, !.held = NoKeys, !.gap = FALSE]

hand_writer(device) ==
  /\ b' = Pen(device)
  /\ Tell({InputFrom(device, b.last[device] + 1)})

\* `end_terminal`: one the bridge ends is hung up.
end_terminal(hangup) ==
  /\ b' = [b EXCEPT !.phase = "over", !.held = NoKeys, !.gap = FALSE]
  /\ proc' = IF hangup /\ proc = "alive" THEN "dying" ELSE proc

(***************************************************************************)
(* The phones' messages.                                                   *)
(***************************************************************************)
on_terminal_open(d) ==
  \/ /\ terminal_refusal(d) \/ b.phase \in {"spawning", "open"}
     /\ Tell({Answer("refused", d)}) /\ UNCHANGED <<b, proc>>
  \/ /\ ~ terminal_refusal(d) /\ b.phase = "none"
     /\ b' = [b EXCEPT !.phase = "spawning", !.opener = d, !.writer = d]
     /\ proc' = "starting" /\ UNCHANGED down

\* Mutant: an input that was applied is applied again.
Applied(m) == FALSE

AlreadyTyped(m) == m.seq <= last_seq

on_terminal_input(m) ==
  \/ /\ terminal_refusal(m.dev) \/ ~ terminal_is_mine
     /\ Tell({Answer("exited", m.dev)}) /\ UNCHANGED <<b, shell>>
  \/ /\ ~ terminal_refusal(m.dev) /\ terminal_is_mine
     /\ \/ /\ m.dev # b.writer \/ AlreadyTyped(m)
           /\ UNCHANGED <<b, shell, down>>
        \/ /\ m.dev = b.writer /\ ~ AlreadyTyped(m)
           /\ \/ m.seq <= last_seq + 1 /\ apply(m.seq, m.keys) /\ UNCHANGED down
              \/ m.seq > last_seq + 1 /\ m.seq <= last_seq + MaxHeld /\ hold(m.seq, m.keys) /\ UNCHANGED <<shell, down>>
              \/ m.seq > last_seq + MaxHeld /\ resend_from

on_terminal_takeover(d) ==
  \/ /\ terminal_refusal(d) \/ ~ terminal_is_mine
     /\ Tell({Answer("exited", d)}) /\ UNCHANGED b
  \/ ~ terminal_refusal(d) /\ terminal_is_mine /\ d = b.writer /\ UNCHANGED <<b, down>>
  \/ ~ terminal_refusal(d) /\ terminal_is_mine /\ d # b.writer /\ hand_writer(d)

on_terminal_close(d) ==
  \/ /\ terminal_refusal(d) \/ ~ terminal_is_mine
     /\ Tell({Answer("exited", d)}) /\ UNCHANGED <<b, proc>>
  \/ ~ terminal_refusal(d) /\ terminal_is_mine /\ d # b.writer /\ UNCHANGED <<b, proc, down>>
  \/ ~ terminal_refusal(d) /\ terminal_is_mine /\ d = b.writer /\ end_terminal(TRUE) /\ Tell(Exited)

oldest == IF out.total > Ring THEN out.total - Ring ELSE 0

\* `on_terminal_replay`, and Ring::read_from behind the effect.
on_terminal_replay(d, from) ==
  \/ /\ terminal_refusal(d) \/ ~ terminal_is_mine
     /\ Tell({Answer("exited", d)}) /\ UNCHANGED frames
  \/ /\ ~ terminal_refusal(d) /\ terminal_is_mine
     /\ LET start == IF from > oldest THEN from ELSE oldest
        IN frames' = frames \cup (IF start < out.total THEN {Frame(d, start, out.total, TRUE)} ELSE {})
     /\ Cardinality(frames') <= MaxNet /\ UNCHANGED down

BridgeReceives ==
  /\ \E m \in up :
       /\ \/ up' = up \ {m}
          \/ up' = up /\ m.kind = "input" /\ "repeat" \in scene.may
       /\ \/ m.kind = "open" /\ on_terminal_open(m.dev) /\ UNCHANGED <<shell, frames>>
          \/ m.kind = "input" /\ on_terminal_input(m) /\ UNCHANGED <<proc, frames>>
          \/ m.kind = "takeover" /\ on_terminal_takeover(m.dev) /\ UNCHANGED <<shell, proc, frames>>
          \/ m.kind = "close" /\ on_terminal_close(m.dev) /\ UNCHANGED <<shell, frames>>
          \/ m.kind = "replay" /\ on_terminal_replay(m.dev, m.seq) /\ UNCHANGED <<b, shell, proc>>
  /\ UNCHANGED <<allow, changes, reports, out>>

(***************************************************************************)
(* Timers and the allowlist.                                               *)
(***************************************************************************)
on_terminal_gap ==
  /\ b.phase = "open" /\ b.gap
  /\ IF b.held = NoKeys
     THEN b' = [b EXCEPT !.gap = FALSE] /\ UNCHANGED <<shell, down>>
     ELSE resend_from
  /\ UNCHANGED <<allow, changes, proc, reports, out, up, frames>>

\* The idle limit of a terminal no present client shows.
on_terminal_idle ==
  /\ "end" \in scene.may /\ b.phase = "open" /\ end_terminal(TRUE) /\ Tell(Exited)
  /\ UNCHANGED <<allow, changes, shell, reports, out, up, frames>>

LosesPen(devices) == b.opener \in devices /\ b.writer \notin devices

on_terminal_allowlist(devices) ==
  /\ allow' = devices
  /\ CASE b.phase = "open" /\ b.opener \notin devices -> end_terminal(TRUE) /\ Tell(Exited)
       [] b.phase = "open" /\ LosesPen(devices) -> hand_writer(b.opener) /\ UNCHANGED proc
       [] OTHER -> UNCHANGED <<b, proc, down>>
  /\ UNCHANGED <<shell, reports, out, up, frames>>

AllowlistChanges ==
  /\ changes < scene.changes /\ changes' = changes + 1
  /\ \E devices \in SUBSET Devices : devices # allow /\ on_terminal_allowlist(devices)

(***************************************************************************)
(* The runtime: a shell is started on another thread, and the report of    *)
(* its end may pass the one of its start.                                  *)
(***************************************************************************)
ShellStarts ==
  /\ proc = "starting" /\ proc' = "alive"
  /\ UNCHANGED <<b, allow, changes, shell, reports, out, up, down, frames>>

SpawnFails ==
  /\ "end" \in scene.may /\ proc = "starting" /\ proc' = "dead"
  /\ reports' = Append(reports, "spawn-failed")
  /\ UNCHANGED <<b, allow, changes, shell, out, up, down, frames>>

SpawnReported ==
  /\ b.phase = "spawning" /\ proc \in {"alive", "dead"}
  /\ {"spawned", "spawn-failed"} \cap ToSet(reports) = {}
  /\ reports' = Append(reports, "spawned")
  /\ UNCHANGED <<b, allow, changes, shell, proc, out, up, down, frames>>

ShellExits ==
  /\ "end" \in scene.may /\ proc \in {"alive", "dying"} /\ proc' = "dead"
  /\ reports' = Append(reports, "exited")
  /\ UNCHANGED <<b, allow, changes, shell, out, up, down, frames>>

ExitKept == b' = [b EXCEPT !.exited = TRUE]

on_terminal_spawned ==
  IF b.exited
  THEN b' = [b EXCEPT !.phase = "over"] /\ Tell({Answer("opened", b.opener)} \cup Exited)
  ELSE b' = [b EXCEPT !.phase = "open"] /\ Tell({Answer("opened", b.opener)})

on_terminal_spawn_failed == b' = [b EXCEPT !.phase = "over"] /\ Tell({Answer("refused", b.opener)})

on_terminal_exited ==
  \/ b.phase = "spawning" /\ ExitKept /\ UNCHANGED <<proc, down>>
  \/ b.phase = "open" /\ end_terminal(FALSE) /\ Tell(Exited)
  \/ b.phase = "over" /\ UNCHANGED <<b, proc, down>>

EngineReads ==
  /\ reports # <<>> /\ reports' = Tail(reports)
  /\ \/ Head(reports) = "spawned" /\ on_terminal_spawned /\ UNCHANGED proc
     \/ Head(reports) = "spawn-failed" /\ on_terminal_spawn_failed /\ UNCHANGED proc
     \/ Head(reports) = "exited" /\ on_terminal_exited
  /\ UNCHANGED <<allow, changes, shell, out, up, frames>>

\* A chunk the reader thread hands over goes to the ring (Ring::push).
ShellWrites ==
  /\ proc = "alive" /\ out.total < scene.lines
  /\ out' = [out EXCEPT !.total = @ + 1]
  /\ UNCHANGED <<b, allow, changes, shell, proc, reports, up, down, frames>>

\* `coalesce` frames what waits, and `on_terminal_output` sends the frame to
\* the clients showing the terminal, which presence may have wrong.
OutputFramed ==
  /\ out.framed < out.total /\ out' = [out EXCEPT !.framed = out.total]
  /\ \E to \in SUBSET (IF b.phase = "open" THEN scene.who ELSE {}) :
       frames' = frames \cup {Frame(d, out.framed, out.total, FALSE) : d \in to}
  /\ Cardinality(frames') <= MaxNet
  /\ UNCHANGED <<b, allow, changes, shell, proc, reports, up, down>>

BridgeActs ==
  \/ BridgeReceives \/ on_terminal_gap \/ on_terminal_idle \/ AllowlistChanges
  \/ ShellStarts \/ SpawnFails \/ SpawnReported \/ ShellExits \/ EngineReads
  \/ ShellWrites \/ OutputFramed

(***************************************************************************)
(* The phones' side of one terminal: what is typed, batched, sent, kept    *)
(* for a resend and numbered, and what is drawn of the output              *)
(* (crates/client-core/src/stores/terminals.rs).                           *)
(*                                                                         *)
(* The relay's cap on events a second is the number of events a flush is   *)
(* let through; the pause before a flush is that a key may or may not send *)
(* what waits.  Who may type is for the view alone and is left out.        *)
(***************************************************************************)
CONSTANT Keep  \* INPUT_KEEP_EVENTS

VARIABLES
  p,         \* p[d]: the store of device d
  takeovers

NewPhone == [shows |-> "nothing", count |-> FALSE, next |-> 1, pending |-> <<>>, sent |-> <<>>,
             resend |-> 0, typed |-> 0, lost |-> FALSE,
             expected |-> 0, asked |-> FALSE, drawn |-> <<>>, late |-> FALSE]

PhoneInit == p = [d \in Devices |-> NewPhone] /\ takeovers = 0

\* InputState::fresh.  `lost` remembers that keys were counted before.
fresh(q) == [q EXCEPT !.count = TRUE, !.next = 1, !.pending = <<>>, !.sent = <<>>, !.resend = 0,
                      !.lost = @ \/ q.typed > 0]

\* The entry of an input state, made when there is none.
Entry(q) == IF q.count THEN q ELSE fresh(q)

KeepLast(sent) == IF Len(sent) > Keep THEN Tail(sent) ELSE sent

held(q, seq) == {i \in DOMAIN q.sent : q.sent[i].seq = seq}

\* The sent events a resend goes through: consecutive, up to one not kept.
Resent(q) == {i \in DOMAIN q.sent : /\ q.resend # 0 /\ q.sent[i].seq >= q.resend
                                    /\ \A s \in q.resend..q.sent[i].seq : held(q, s) # {}}

\* The typed bytes go first, as one event, and move the count on.
Batch(d, q) == Input(d, q.next, q.pending)
Batched(d, q) ==
  IF q.pending = <<>> THEN q
  ELSE [q EXCEPT !.next = @ + 1, !.pending = <<>>,
                 !.sent = KeepLast(Append(@, [seq |-> q.next, keys |-> q.pending]))]

\* `flush` with `room` events let through: [q |-> the state, sends |-> the events].
flush(d, q, room) ==
  LET typed == q.pending # <<>> /\ room > 0
      r == IF typed THEN Batched(d, q) ELSE q
      left == room - (IF typed THEN 1 ELSE 0)
      again == {i \in Resent(r) : r.sent[i].seq < r.resend + left}
      whole == left > Cardinality(again)
  IN [q |-> [r EXCEPT !.resend = IF @ = 0 \/ whole THEN 0 ELSE @ + Cardinality(again)],
      sends |-> (IF typed THEN {Batch(d, q)} ELSE {})
                  \cup {Input(d, r.sent[i].seq, r.sent[i].keys) : i \in again}]

\* A flush of the terminal on screen; of any other it sends nothing.
Flushed(d, q, room) ==
  IF q.shows = "term" /\ q.count THEN flush(d, q, room) ELSE [q |-> q, sends |-> {}]

All == Keep + 2
Rooms == {0, 1, All}

Sends(msgs) == up' = up \cup msgs /\ Cardinality(up') <= MaxNet

UNCHANGEDBridge == UNCHANGED <<b, allow, changes, shell, proc, reports, out>>

\* An earlier replay of this device, from past the oldest byte kept, is still
\* to be answered or its answer is still under way.
OldAnswerComes(d) ==
  \/ \E m \in frames : m.dev = d /\ m.replay /\ m.from > oldest
  \/ \E m \in up : m.dev = d /\ m.kind = "replay" /\ m.seq > oldest

\* A screen that shows nothing yet, waiting for a replay or not.  `late`
\* remembers that an answer may reach it that is not the one it asked for.
Blank(q, asked, late) ==
  [q EXCEPT !.shows = "term", !.expected = 0, !.asked = asked, !.drawn = <<>>, !.late = late]

\* One open is under way at a time: its id is then the only one there is.
begin_open(d) ==
  /\ d \in scene.who /\ p[d].shows = "nothing" /\ b.phase = "none"
  /\ \A m \in up \cup down : m.kind \notin {"open", "opened", "refused"}
  /\ p' = [p EXCEPT ![d].shows = "opening"]
  /\ Sends({Command("open", d)}) /\ UNCHANGED <<takeovers, down, frames>> /\ UNCHANGEDBridge

begin_attach(d) ==
  /\ d \in scene.who /\ p[d].shows = "nothing" /\ b.phase = "open"
  /\ p' = [p EXCEPT ![d] = Blank(Entry(@), TRUE, OldAnswerComes(d))]
  /\ Sends({Replay(d, 0)}) /\ UNCHANGED <<takeovers, down, frames>> /\ UNCHANGEDBridge

detach(d) ==
  /\ p[d].shows # "nothing"
  /\ LET step == Flushed(d, p[d], All)
     IN p' = [p EXCEPT ![d] = [step.q EXCEPT !.shows = "nothing"]] /\ Sends(step.sends)
  /\ UNCHANGED <<takeovers, down, frames>> /\ UNCHANGEDBridge

Key(q) == [q EXCEPT !.typed = @ + 1, !.pending = Append(@, q.typed + 1)]

\* `input` and `paste`: a key that acts, or a paste, flushes at once; any
\* other waits, which is a flush without room.
input(d) ==
  /\ p[d].shows = "term" /\ p[d].typed < scene.typed[d]
  /\ \E room \in Rooms :
       LET step == Flushed(d, Key(Entry(p[d])), room)
       IN p' = [p EXCEPT ![d] = step.q] /\ Sends(step.sends)
  /\ UNCHANGED <<takeovers, down, frames>> /\ UNCHANGEDBridge

flush_due(d) ==
  /\ p[d].shows = "term" /\ p[d].count /\ (p[d].pending # <<>> \/ p[d].resend # 0)
  /\ \E room \in Rooms \ {0} :
       LET step == Flushed(d, p[d], room) IN p' = [p EXCEPT ![d] = step.q] /\ Sends(step.sends)
  /\ UNCHANGED <<takeovers, down, frames>> /\ UNCHANGEDBridge

AskTakeover(d) ==
  /\ p[d].shows = "term" /\ takeovers < scene.takeovers /\ takeovers' = takeovers + 1
  /\ Sends({Command("takeover", d)}) /\ UNCHANGED <<p, down, frames>> /\ UNCHANGEDBridge

AskClose(d) ==
  /\ "end" \in scene.may /\ p[d].shows = "term" /\ Sends({Command("close", d)})
  /\ UNCHANGED <<p, takeovers, down, frames>> /\ UNCHANGEDBridge

\* `input_from`: resend what is kept, or continue from what the bridge named.
Adopted(q, seq) ==
  IF q.sent # <<>> /\ seq >= Head(q.sent).seq /\ seq <= Last(q.sent).seq
  THEN [q EXCEPT !.resend = seq]
  ELSE [q EXCEPT !.next = seq, !.resend = 0, !.lost = @ \/ seq < q.next]

PhoneReceives ==
  /\ \E m \in down :
       LET d == m.dev
           q == p[d]
       IN /\ down' = down \ {m}
          /\ \/ m.kind = "opened" /\ q.shows = "opening"
                /\ p' = [p EXCEPT ![d] = Blank(fresh(q), FALSE, FALSE)] /\ UNCHANGED up
             \/ m.kind = "opened" /\ q.shows # "opening" /\ UNCHANGED <<p, up>>
             \/ m.kind = "refused"
                /\ p' = [p EXCEPT ![d].shows = IF @ = "opening" THEN "nothing" ELSE @] /\ UNCHANGED up
             \/ m.kind = "exited"
                /\ p' = [p EXCEPT ![d].count = FALSE, ![d].asked = FALSE] /\ UNCHANGED up
             \/ m.kind = "input-from" /\ q.count
                /\ \E room \in Rooms :
                     LET step == Flushed(d, Adopted(q, m.seq), room)
                     IN p' = [p EXCEPT ![d] = step.q] /\ Sends(step.sends)
             \/ m.kind = "input-from" /\ ~ q.count /\ UNCHANGED <<p, up>>
  /\ UNCHANGED <<takeovers, frames>> /\ UNCHANGEDBridge

(***************************************************************************)
(* `output`.                                                               *)
(***************************************************************************)

\* The answer to the replay may start past what was asked for.
IsAnswer(q, m) == q.asked /\ m.replay

Draw(q, m) ==
  LET start == IF m.from > q.expected THEN m.from ELSE q.expected
  IN [q EXCEPT !.expected = m.to, !.asked = FALSE,
               !.drawn = @ \o [i \in 1..(m.to - start) |-> start + i - 1]]

output ==
  /\ \E m \in frames :
       LET d == m.dev
           q == p[d]
           lost == m.from > q.expected /\ ~ IsAnswer(q, m)
       IN /\ frames' = frames \ {m} \/ ("repeat" \in scene.may /\ UNCHANGED frames)
          /\ \/ /\ q.shows # "term" \/ (lost /\ q.asked) \/ m.to <= q.expected
                /\ UNCHANGED <<p, up>>
             \/ q.shows = "term" /\ lost /\ ~ q.asked
                /\ p' = [p EXCEPT ![d].asked = TRUE] /\ Sends({Replay(d, q.expected)})
             \/ q.shows = "term" /\ ~ lost /\ m.to > q.expected
                /\ p' = [p EXCEPT ![d] = Draw(q, m)] /\ UNCHANGED up
  /\ UNCHANGED <<takeovers, down>> /\ UNCHANGEDBridge

\* A list without the terminal on screen, the present one or a late one that
\* was made before it opened, or the app starting again.
apply_list(d) ==
  /\ p[d].shows = "term" /\ (b.phase # "open" \/ "forget" \in scene.may)
  /\ p' = [p EXCEPT ![d].shows = "nothing", ![d].count = FALSE]
  /\ UNCHANGED <<takeovers, up, down, frames>> /\ UNCHANGEDBridge

PhoneActs ==
  \/ PhoneReceives \/ output
  \/ \E d \in Devices :
       \/ begin_open(d) \/ begin_attach(d) \/ detach(d) \/ input(d) \/ flush_due(d)
       \/ AskTakeover(d) \/ AskClose(d) \/ apply_list(d)
=============================================================================
