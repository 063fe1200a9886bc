------------------------------ MODULE Publisher ------------------------------
(***************************************************************************)
(* The bridge's publish queue (bridge-runtime/relay.rs): one task takes    *)
(* jobs in order, joins what continues what, paces terminal output, and    *)
(* keeps a few publishes in flight on the relays, one per lane.            *)
(*                                                                         *)
(* A job is a message with its addressees (a sequence of phones), or a     *)
(* flush, or word that a relay came up or went down.  key is its session   *)
(* or terminal; from and len its range of seqs, offsets or bytes; parts    *)
(* the part a piece belongs to or the parts an output's entries complete;  *)
(* ids (history) the numbers of the jobs it was put together from.  Sizes  *)
(* are counted in entries, characters and bytes of length 1.               *)
(***************************************************************************)
EXTENDS Integers, Sequences, SequencesExt, FiniteSets, FiniteSetsExt

CONSTANTS Phones,
          RunMax, TermMax,    \* RUN_MAX_BYTES, TERMINAL_PENDING_MAX_BYTES
          InFlight,           \* IN_FLIGHT
          RateLimitRetries,   \* RATE_LIMIT_RETRIES
          MaxChanges,         \* bound: times the relays come up or go down
          PublishScenes       \* [feed: the jobs given, direct: phones linked, may]

VARIABLES pub,      \* the publishing task
          relayUp,  \* some relay is up
          changes,  \* how often that changed
          fed,      \* jobs given so far
          log,      \* history: [m, phone, ok, beat] in the order publishes settle
          play      \* the scene
pubVars == <<pub, relayUp, changes, fed, log, play>>

NoLane == <<"", "">>

PubInit ==
  /\ play \in PublishScenes
  /\ pub = [jobs |-> <<>>, cur |-> <<>>, ready |-> <<>>, pending |-> <<>>, flight |-> {}, quiet |-> FALSE,
            beats |-> [p \in Phones |-> 0], unsent |-> [p \in Phones |-> 0], flushed |-> {}, skipped |-> {}]
  /\ relayUp = FALSE /\ changes = 0 /\ fed = 0 /\ log = <<>>

Changed == [kind |-> "changed", to |-> <<>>, key |-> "", from |-> 0, len |-> 0, parts |-> {}, ids |-> {}]

LaneOf(m) ==
  CASE m.kind \in {"output", "partial"} -> <<"output", m.key>>
    [] m.kind = "terminal" -> <<"terminal", m.key>>
    [] m.kind = "sessions" -> <<"heartbeat", "">>
    [] OTHER -> NoLane

Lanes(fl) == {x.lane : x \in fl}

\* room_in and land_all: what a message waits for before it is started.
RoomIn(b, m) ==
  IF LaneOf(m) = NoLane THEN b.flight = {}
  ELSE LaneOf(m) \notin Lanes(b.flight) /\ Cardinality(b.flight) < InFlight

-----------------------------------------------------------------------------
(* Joining.                                                                *)

\* absorb_run, absorb_partial: the jobs right behind a run that continue it.
Continues(run, jobs, i) ==
  LET prev == IF i = 1 THEN run ELSE jobs[i - 1]
      next == jobs[i]
  IN  /\ next.kind = run.kind /\ next.to = run.to /\ next.key = run.key
      /\ run.kind = "partial" => next.parts = run.parts
      /\ next.from = prev.from + prev.len
      /\ next.from + next.len - run.from <= RunMax

Absorbed(run, jobs) ==
  IF run.kind \notin {"output", "partial"} THEN 0
  ELSE Max({0} \cup {k \in 1..Len(jobs) : \A i \in 1..k : Continues(run, jobs, i)})

JoinedJobs(run, jobs) ==
  LET k == Absorbed(run, jobs)
      all == {run} \cup {jobs[i] : i \in 1..k}
  IN  [run EXCEPT !.len = IF k = 0 THEN @ ELSE jobs[k].from + jobs[k].len - run.from,
                  !.parts = UNION {m.parts : m \in all}, !.ids = UNION {m.ids : m \in all}]

\* completed: the entry that completes a piece's part is queued already.
Completed(m, jobs) ==
  /\ m.kind = "partial"
  /\ \E i \in DOMAIN jobs : jobs[i].kind = "output" /\ jobs[i].to = m.to /\ jobs[i].key = m.key
                            /\ m.parts \subseteq jobs[i].parts

\* Mutant: a heartbeat to any phone supersedes.
SupersededByAny(m, jobs) ==
  m.kind = "sessions" /\ \E i \in DOMAIN jobs : jobs[i].kind = "sessions"

\* superseded: a newer heartbeat to the same phones is queued.
Superseded(m, jobs) ==
  m.kind = "sessions" /\ \E i \in DOMAIN jobs : jobs[i].kind = "sessions" /\ jobs[i].to = m.to

-----------------------------------------------------------------------------
(* Terminal output waits for its window, merged (TerminalPace).            *)

ContinuesRange(p, m) ==
  p.key = m.key /\ p.to = m.to /\ p.parts = m.parts /\ p.from + p.len = m.from

Merge(pending, m) ==
  LET hits == {i \in DOMAIN pending : ContinuesRange(pending[i], m)} IN
  IF hits = {} THEN Append(pending, [due |-> FALSE] @@ m)
  ELSE LET i == Min(hits)
           total == pending[i].len + m.len
           drop == Max({0, total - TermMax})
       IN  [pending EXCEPT ![i] = [@ EXCEPT !.len = total - drop, !.from = @ + drop, !.ids = @ \cup m.ids]]

RECURSIVE AbsorbTerminal(_, _)
AbsorbTerminal(pending, jobs) ==
  IF jobs # <<>> /\ Head(jobs).kind = "terminal" /\ \E i \in DOMAIN pending : ContinuesRange(pending[i], Head(jobs))
  THEN AbsorbTerminal(Merge(pending, Head(jobs)), Tail(jobs))
  ELSE <<pending, jobs>>

WindowPasses ==
  /\ \E i \in DOMAIN pub.pending :
       /\ ~pub.pending[i].due /\ \A j \in 1..(i - 1) : pub.pending[j].due
       /\ pub' = [pub EXCEPT !.pending[i].due = TRUE]
  /\ UNCHANGED <<relayUp, changes, fed, log, play>>

AnyDue == \E i \in DOMAIN pub.pending : pub.pending[i].due

FlushDue ==
  /\ pub.cur = <<>> /\ pub.ready = <<>> /\ AnyDue
  /\ pub' = [pub EXCEPT !.ready = SelectSeq(pub.pending, LAMBDA p : p.due),
                        !.pending = SelectSeq(@, LAMBDA p : ~p.due)]
  /\ UNCHANGED <<relayUp, changes, fed, log, play>>

-----------------------------------------------------------------------------
(* Sending.                                                                *)

\* One copy's publish: for a heartbeat, the number it is for its phone.
Sending(b, m, phone) ==
  [m |-> m, phone |-> phone, lane |-> LaneOf(m), attempt |-> 0,
   beat |-> IF m.kind = "sessions" THEN b.beats[phone] + 1 ELSE 0]

\* send_message: every addressee's copy is handed to the direct link and
\* started on the relays.
SendMessage(b, m) ==
  [b EXCEPT !.flight = @ \cup {Sending(b, m, p) : p \in Range(m.to)},
            !.beats = [p \in Phones |-> IF m.kind = "sessions" /\ p \in Range(m.to) THEN @[p] + 1 ELSE @[p]]]

SendReady ==
  /\ pub.ready # <<>> /\ RoomIn(pub, Head(pub.ready))
  /\ pub' = [SendMessage(pub, Head(pub.ready)) EXCEPT !.ready = Tail(@)]
  /\ UNCHANGED <<relayUp, changes, fed, log, play>>

\* Take the next job once no terminal window is due.
TakeJob ==
  /\ pub.cur = <<>> /\ pub.ready = <<>> /\ ~AnyDue /\ pub.jobs # <<>>
  /\ LET m == Head(pub.jobs) IN
     pub' = CASE m.kind = "terminal" ->
                   LET r == AbsorbTerminal(Merge(pub.pending, m), Tail(pub.jobs))
                   IN  [pub EXCEPT !.pending = r[1], !.jobs = r[2]]
              [] m.kind = "flush" ->
                   [pub EXCEPT !.ready = pub.pending, !.pending = <<>>, !.cur = <<m>>, !.jobs = Tail(@)]
              [] OTHER -> [pub EXCEPT !.cur = <<m>>, !.jobs = Tail(@)]
  /\ UNCHANGED <<relayUp, changes, fed, log, play>>

\* The message taken is started when its lane is free, with what continues it.
SendCur ==
  /\ pub.cur # <<>> /\ pub.cur[1].kind \in {"output", "partial", "sessions"} /\ RoomIn(pub, pub.cur[1])
  /\ LET m == pub.cur[1] IN
     pub' = IF Completed(m, pub.jobs) \/ Superseded(m, pub.jobs)
            THEN [pub EXCEPT !.cur = <<>>, !.skipped = @ \cup m.ids]
            ELSE [SendMessage(pub, JoinedJobs(m, pub.jobs)) EXCEPT
                    !.cur = <<>>, !.jobs = SubSeq(@, Absorbed(m, @) + 1, Len(@))]
  /\ UNCHANGED <<relayUp, changes, fed, log, play>>

\* Out of any lane: each copy alone, one after another.
SendAlone ==
  /\ pub.cur # <<>> /\ pub.cur[1].kind = "other" /\ RoomIn(pub, pub.cur[1])
  /\ LET m == pub.cur[1] IN
     pub' = IF m.to = <<>> THEN [pub EXCEPT !.cur = <<>>]
            ELSE [SendMessage(pub, [m EXCEPT !.to = <<Head(@)>>]) EXCEPT !.cur = <<[m EXCEPT !.to = Tail(@)]>>]
  /\ UNCHANGED <<relayUp, changes, fed, log, play>>

FlushDone ==
  /\ pub.cur # <<>> /\ pub.cur[1].kind = "flush" /\ pub.ready = <<>> /\ pub.flight = {}
  /\ pub' = [pub EXCEPT !.cur = <<>>, !.flushed = @ \cup pub.cur[1].ids]
  /\ UNCHANGED <<relayUp, changes, fed, log, play>>

\* A relay's socket came up or went down: once nothing is in flight, and with
\* a relay up, every heartbeat owed is published again.
RelaysChanged ==
  /\ pub.cur # <<>> /\ pub.cur[1].kind = "changed" /\ pub.flight = {}
  /\ \E took \in SUBSET {p \in Phones : pub.unsent[p] # 0 /\ relayUp} :
       /\ pub' = [pub EXCEPT !.cur = <<>>, !.unsent = [p \in Phones |-> IF p \in took THEN 0 ELSE @[p]]]
       /\ log' = log \o SetToSeq({[m |-> [Changed EXCEPT !.kind = "sessions"], phone |-> p, ok |-> TRUE, beat |-> pub.unsent[p]] : p \in took})
  /\ UNCHANGED <<relayUp, changes, fed, play>>

-----------------------------------------------------------------------------
(* How a publish ends (publish, settle).                                   *)

Settle(b, x, ok) ==
  LET latest == x.beat # 0 /\ x.beat = b.beats[x.phone]
  IN  [b EXCEPT !.flight = @ \ {x},
                !.unsent[x.phone] = IF ~latest THEN @ ELSE IF ok THEN 0 ELSE x.beat]

\* A relay takes it, or none does in time; with no relay up a copy the direct
\* link carried is not published at all.
Settles ==
  \E x \in pub.flight, ok \in BOOLEAN :
    /\ ok => relayUp /\ ~pub.quiet
    /\ pub.quiet => ~relayUp /\ x.phone \in play.direct /\ x.attempt = 0
    /\ pub' = Settle(pub, x, ok)
    /\ log' = Append(log, [m |-> x.m, phone |-> x.phone, ok |-> ok, beat |-> x.beat])
    /\ UNCHANGED <<relayUp, changes, fed, play>>

\* Every relay refuses it as too many: all publishes hold off for a while.
RateLimited ==
  \E x \in pub.flight :
    /\ "limit" \in play.may /\ relayUp /\ ~pub.quiet /\ x.attempt < RateLimitRetries
    /\ pub' = [pub EXCEPT !.quiet = TRUE, !.flight = (@ \ {x}) \cup {[x EXCEPT !.attempt = @ + 1]}]
    /\ UNCHANGED <<relayUp, changes, fed, log, play>>

QuietOver ==
  /\ pub.quiet /\ pub' = [pub EXCEPT !.quiet = FALSE]
  /\ UNCHANGED <<relayUp, changes, fed, log, play>>

-----------------------------------------------------------------------------
(* What the engine and the transport put on the queue.                     *)

Give ==
  /\ fed < Len(play.feed)
  /\ pub' = [pub EXCEPT !.jobs = Append(@, play.feed[fed + 1])]
  /\ fed' = fed + 1
  /\ UNCHANGED <<relayUp, changes, log, play>>

RelayTurns ==
  /\ changes < MaxChanges
  /\ relayUp' = ~relayUp /\ changes' = changes + 1
  /\ pub' = [pub EXCEPT !.jobs = Append(@, Changed)]
  /\ UNCHANGED <<fed, log, play>>

PubNext == WindowPasses \/ FlushDue \/ SendReady \/ TakeJob \/ SendCur \/ SendAlone \/ FlushDone \/ RelaysChanged
           \/ Settles \/ RateLimited \/ QuietOver \/ Give \/ RelayTurns

PubSpec == PubInit /\ [][PubNext]_pubVars

-----------------------------------------------------------------------------
\* What a phone's relay copies say, in the order they settled.
Copies(p) == SelectSeq(log, LAMBDA x : x.phone = p)

\* Order is kept: a session's outputs and pieces, and one terminal's frames,
\* settle in the order they were queued, and a message in no lane settles
\* after all that was queued before it and before all that was queued after
\* it, save terminal output still waiting for its window (lane_of, room_in,
\* land_all).
OrderKept ==
  \A p \in Phones : LET c == Copies(p) IN
    \A i, j \in DOMAIN c :
      /\ i < j /\ c[i].m.ids # {} /\ c[j].m.ids # {}
      /\ \/ LaneOf(c[i].m) = LaneOf(c[j].m)
         \/ NoLane \in {LaneOf(c[i].m), LaneOf(c[j].m)} /\ "terminal" \notin {c[i].m.kind, c[j].m.kind}
      => Max(c[i].m.ids) < Min(c[j].m.ids)

\* What is still on its way.
Underway ==
  UNION ({m.ids : m \in Range(pub.jobs) \cup Range(pub.cur) \cup Range(pub.ready) \cup Range(pub.pending)}
         \cup {x.m.ids : x \in pub.flight})

Told(p, id) == \E i \in DOMAIN log : log[i].phone = p /\ id \in log[i].m.ids

\* Nothing is lost by joining, pacing or skipping: every message given is on
\* its way, or its publish settled for every phone it was for, or it was left
\* out because a later heartbeat to the same phones, or the output that
\* completes the piece's part, is in the queue behind it; and a flush is
\* answered only when nothing given before it is on its way.
Accounted ==
  /\ \A id \in 1..fed :
       LET m == play.feed[id] IN
       \/ id \in Underway \/ m.kind = "flush"
       \/ \A p \in Range(m.to) : Told(p, id)
       \/ /\ id \in pub.skipped
          /\ \E n \in (id + 1)..fed :
               /\ play.feed[n].to = m.to
               /\ \/ m.kind = "sessions" /\ play.feed[n].kind = "sessions"
                  \/ m.kind = "partial" /\ play.feed[n].kind = "output" /\ m.parts \subseteq play.feed[n].parts
  /\ \A f \in pub.flushed : \A id \in Underway : id > f

\* A heartbeat no relay took is owed until one does: when none is in flight,
\* what is owed a phone is its latest heartbeat exactly when that one was not
\* delivered, and never an earlier one (unsent_beats).
BeatOwed ==
  \A p \in Phones :
    (\A x \in pub.flight : x.phone = p => x.beat = 0) =>
      pub.unsent[p] = IF \E i \in DOMAIN log : log[i].phone = p /\ log[i].ok /\ log[i].beat = pub.beats[p] /\ pub.beats[p] > 0
                      THEN 0 ELSE pub.beats[p]

\* The bridge's publish queue: order, completeness and the owed heartbeat.
PublishSound == OrderKept /\ Accounted /\ BeatOwed
=============================================================================
