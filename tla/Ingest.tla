-------------------------------- MODULE Ingest --------------------------------
(***************************************************************************)
(* How the bridge runs each command once although relays give it again:    *)
(* the dedup set and cursor of crates/bridge-core/src/ingest.rs, the        *)
(* engine's use of them, and the state file that keeps them over a restart *)
(* (crates/bridge-runtime/src/state.rs), which a thread of its own writes. *)
(*                                                                         *)
(* An event is its id.  Time counts in steps; an event's created_at is its *)
(* sender's clock when it was signed.                                      *)
(***************************************************************************)
EXTENDS Integers, Sequences, FiniteSets, SequencesExt

CONSTANTS
  Commands,     \* events of a paired phone that decode
  Junk,         \* events of a paired phone that do not
  ByIdentity,   \* the events encrypted with their author's own key
  MaxAge,       \* MAX_EVENT_AGE_SECS
  Grace,        \* the 5 s of since_for_connect
  Cap,          \* MAX_PROCESSED_IDS
  Behind,       \* created_at may lie so far before the publication ...
  Ahead,        \* ... or so far after it
  Disorder,     \* InOrder: how much younger the command given first may be
  IngestFaults,       \* subset of {"stop", "crash", "write", "pairing"}
  MaxRestarts,  \* bound: restarts of the bridge
  MaxSnapshots,   \* bound: snapshots the writer thread lags behind
  MaxNow       \* bound: the clock

Events == Commands \cup Junk

ASSUME IngestAssumption ==
  /\ {MaxAge, Grace, Cap, Behind, Ahead, Disorder, MaxRestarts, MaxSnapshots, MaxNow} \subseteq Nat
  /\ Cap > 0
  /\ Commands \cap Junk = {} /\ ByIdentity \subseteq Events
  /\ IngestFaults \subseteq {"stop", "crash", "write", "pairing"}

VARIABLES
  ingestNow,        \* the bridge's clock, in seconds
  created,    \* created[e], Unsent until e is published
  ingestUp,         \* the bridge runs
  since,      \* the filter of its command subscription
  order,      \* Ingest::order (and `seen`, its ids): <<id, at>>, oldest first
  last_seen,  \* Ingest::last_seen
  doc,        \* StateFile::doc: the cursor and ids set last
  pending,    \* snapshots the writer thread has not written yet
  disk,       \* state.json
  runs,       \* runs[e]: how often the event's command was run (2: twice or more)
  saved,      \* events whose id was on disk at some time
  restarts,
  orderly,    \* history: no crash and no failed write so far
  flooded     \* history: more than Cap ids at once, so one went before its time

memory == <<since, order, last_seen>>
ingestVars == <<ingestNow, created, ingestUp, memory, doc, pending, disk, runs, saved, restarts, orderly, flooded>>

Unsent == -1
Max0(n) == IF n > 0 THEN n ELSE 0
Larger(a, b) == IF a >= b THEN a ELSE b
IdsIn(o) == [i \in DOMAIN o |-> o[i][1]]
Doc(last, ids) == [last |-> last, ids |-> ids]

(***************************************************************************)
(* ingest.rs                                                               *)
(***************************************************************************)

since_for_connect(last) == IF last > 0 THEN Max0(last - Grace) ELSE Max0(ingestNow - MaxAge)

is_stale(at) == at + MaxAge < ingestNow

forget_stale(o) == SelectSeq(o, LAMBDA p : ~ is_stale(p[2]))

Capped(o) == IF Len(o) > Cap THEN Tail(o) ELSE o

\* `mark`, of an id that is not remembered yet.
mark(o, e, at) == Capped(Append(o, <<e, at>>))

Flood(o) == flooded' = (flooded \/ Len(o) = Cap)

CountedRun(e) == runs' = [runs EXCEPT ![e] = IF @ < 2 THEN @ + 1 ELSE @]

Remembers(o, e) == e \in ToSet(IdsIn(o))

\* Mutant: the ids read back are given no time, so they are forgotten first.
ResumeUntimed(d) == [i \in DOMAIN d.ids |-> <<d.ids[i], 0>>]

\* Ingest::new: the ids read back count as created when the cursor was.
Resume(d) ==
  LET kept == SubSeq(d.ids, Max0(Len(d.ids) - Cap) + 1, Len(d.ids))
  IN  [i \in DOMAIN kept |-> <<kept[i], d.last>>]

(***************************************************************************)
(* The engine's persist_cursor: two `set`s, each of which queues a         *)
(* snapshot unless it changes nothing.                                     *)
(***************************************************************************)
\* Mutant: the ids are set before the cursor.
SnapshotsIdsFirst(d, last, ids) ==
  SelectSeq(<<Doc(d.last, ids), Doc(last, ids)>>, LAMBDA s : s # d)

Snapshots(d, last, ids) ==
  LET first == Doc(last, d.ids)
      second == Doc(last, ids)
  IN  (IF first # d THEN <<first>> ELSE <<>>) \o (IF second # first THEN <<second>> ELSE <<>>)

persist_cursor(o, last) ==
  LET kept == forget_stale(o)
  IN /\ order' = kept /\ last_seen' = last
     /\ pending' = pending \o Snapshots(doc, last, IdsIn(kept))
     /\ Len(pending') <= MaxSnapshots
     /\ doc' = Doc(last, IdsIn(kept))

IngestInit ==
  /\ ingestNow = MaxAge /\ created = [e \in Events |-> Unsent]
  /\ ingestUp = TRUE /\ since = 0 /\ order = <<>> /\ last_seen = 0
  /\ doc = Doc(0, <<>>) /\ pending = <<>> /\ disk = Doc(0, <<>>)
  /\ runs = [e \in Events |-> 0] /\ saved = {} /\ restarts = 0 /\ orderly = TRUE /\ flooded = FALSE

Tick ==
  /\ ingestNow < MaxNow /\ ingestNow' = ingestNow + 1
  /\ UNCHANGED <<created, ingestUp, memory, doc, pending, disk, runs, saved, restarts, orderly, flooded>>

\* A phone publishes an event; the relays keep it.
PublishEvent(e) ==
  /\ created[e] = Unsent
  /\ \E at \in Max0(ingestNow - Behind)..(ingestNow + Ahead) : created' = [created EXCEPT ![e] = at]
  /\ UNCHANGED <<ingestNow, ingestUp, memory, doc, pending, disk, runs, saved, restarts, orderly, flooded>>

\* `accept`, and running the command it returns.  A relay may give an event
\* again, and one that ignores `since` any event it keeps.
Accept(e) ==
  /\ ingestUp /\ created[e] # Unsent /\ ~ is_stale(created[e])
  /\ LET kept == forget_stale(order)
         marked == mark(kept, e, created[e])
     IN \/ /\ Remembers(kept, e) /\ order' = kept
           /\ UNCHANGED <<last_seen, doc, pending, runs, flooded>>
        \/ /\ ~ Remembers(kept, e) /\ Flood(kept) /\ e \in Junk /\ order' = marked
           /\ UNCHANGED <<last_seen, doc, pending, runs>>
        \/ /\ ~ Remembers(kept, e) /\ Flood(kept) /\ e \in Commands
           /\ persist_cursor(marked, Larger(last_seen, created[e]))
           /\ CountedRun(e)
  /\ UNCHANGED <<ingestNow, created, ingestUp, since, disk, saved, restarts, orderly>>

\* `accept_pairing`, while the window is open: its subscription names no
\* authors, so it gives the paired phones' events too, and opens them with
\* their author's own key only.  The id is remembered whatever the event holds
\* (what a pair-request does is the pairing's concern), and saved with the next
\* write.
AcceptPairing(e) ==
  /\ ingestUp /\ "pairing" \in IngestFaults /\ e \in ByIdentity
  /\ created[e] # Unsent /\ ~ is_stale(created[e])
  /\ LET kept == forget_stale(order)
     IN \/ Remembers(kept, e) /\ order' = kept /\ UNCHANGED flooded
        \/ ~ Remembers(kept, e) /\ order' = mark(kept, e, created[e]) /\ Flood(kept)
  /\ UNCHANGED <<ingestNow, created, ingestUp, since, last_seen, doc, pending, disk, runs, saved, restarts, orderly>>

OnHeartbeat ==
  /\ ingestUp /\ persist_cursor(order, last_seen)
  /\ UNCHANGED <<ingestNow, created, ingestUp, since, disk, runs, saved, restarts, orderly, flooded>>

\* Pairing changed: the command subscription is opened again.
Resubscribe ==
  /\ "pairing" \in IngestFaults /\ ingestUp /\ since' = since_for_connect(last_seen)
  /\ UNCHANGED <<ingestNow, created, ingestUp, order, last_seen, doc, pending, disk, runs, saved, restarts, orderly, flooded>>

\* The writer thread: the newest snapshot it finds, then the ones behind it.
WriteState ==
  /\ \E n \in DOMAIN pending :
       /\ disk' = pending[n]
       /\ pending' = SubSeq(pending, n + 1, Len(pending))
       /\ saved' = saved \cup ToSet(pending[n].ids)
  /\ UNCHANGED <<ingestNow, created, ingestUp, memory, doc, runs, restarts, orderly, flooded>>

\* Every attempt to write fails; the snapshot is given up.
WriteFails ==
  /\ "write" \in IngestFaults
  /\ \E n \in DOMAIN pending : pending' = SubSeq(pending, n + 1, Len(pending))
  /\ orderly' = FALSE
  /\ UNCHANGED <<ingestNow, created, ingestUp, memory, doc, disk, runs, saved, restarts, flooded>>

\* The process ends, and what it held in memory with it.
Ends ==
  /\ ingestUp /\ restarts < MaxRestarts
  /\ ingestUp' = FALSE /\ restarts' = restarts + 1
  /\ since' = 0 /\ order' = <<>> /\ last_seen' = 0 /\ pending' = <<>> /\ doc' = Doc(0, <<>>)

\* A shutdown persists the cursor and waits for the writer.
Stop ==
  /\ "stop" \in IngestFaults /\ Ends
  /\ disk' = Last(<<disk>> \o pending \o Snapshots(doc, last_seen, IdsIn(forget_stale(order))))
  /\ saved' = saved \cup ToSet(disk'.ids)
  /\ UNCHANGED <<ingestNow, created, runs, orderly, flooded>>

Crash ==
  /\ "crash" \in IngestFaults /\ Ends
  /\ orderly' = FALSE
  /\ UNCHANGED <<ingestNow, created, disk, runs, saved, flooded>>

Start ==
  /\ ~ ingestUp /\ ingestUp' = TRUE
  /\ doc' = disk /\ last_seen' = disk.last /\ order' = Resume(disk)
  /\ since' = since_for_connect(disk.last)
  /\ UNCHANGED <<ingestNow, created, pending, disk, runs, saved, restarts, orderly, flooded>>

(***************************************************************************)
(* The relays give the commands that are new nearly in the order of their  *)
(* created_at: the cursor asks for nothing older than its grace again.     *)
(***************************************************************************)
Waits(e) == created[e] # Unsent /\ runs[e] = 0 /\ ~ is_stale(created[e])

InOrder(e) == \A f \in Commands : runs[e] = 0 /\ Waits(f) => created[e] <= created[f] + Disorder

IngestNext ==
  \/ Tick \/ OnHeartbeat \/ Resubscribe \/ WriteState \/ WriteFails \/ Stop \/ Crash \/ Start
  \/ \E e \in Events : PublishEvent(e) \/ AcceptPairing(e)
  \/ \E e \in Events : InOrder(e) /\ Accept(e)

IngestSpec == IngestInit /\ [][IngestNext]_ingestVars

Symmetry == Permutations(Commands)

(***************************************************************************)
(* Properties.                                                             *)
(***************************************************************************)
\* Every variable keeps its type; the dedup set is bounded and holds no id
\* twice (Ingest::mark).
IngestTypeOK ==
  /\ ingestNow \in Nat /\ since \in Nat /\ last_seen \in Nat
  /\ created \in [Events -> {Unsent} \cup Nat]
  /\ order \in Seq(Events \X Nat) /\ Len(order) <= Cap
  /\ Cardinality(ToSet(IdsIn(order))) = Len(order)
  /\ \A d \in {doc, disk} \cup ToSet(pending) : d.last \in Nat /\ d.ids \in Seq(Events)
  /\ runs \in [Events -> Nat] /\ saved \subseteq Events

\* A command runs once, however often relays give it again, over any number of
\* orderly restarts (the header of ingest.rs: without the ids "they would run
\* twice"), unless a flood of ids pushed its own out (MAX_PROCESSED_IDS "only
\* bounds a flood").
RunsOnce == orderly /\ ~flooded => \A e \in Commands : runs[e] <= 1

\* What the comment in on_relay_event says of crashes: "The id is durable before
\* the command runs", so no replay runs it a second time.
NeverTwice == \A e \in Commands : runs[e] <= 1

\* A command whose id was on disk before never runs again, crashes and failed
\* writes included, short of a flood of ids: neither the forgetting of old ids nor the times given to
\* the ids read back at start reopen it (Ingest::new, forget_stale).
SavedNeverRunsAgain ==
  [][\A e \in Commands : e \in saved /\ runs[e] > 0 /\ ~flooded => runs'[e] = runs[e]]_ingestVars

\* A command on the relays that has not run and is not too old to act on will
\* be when a relay gives it: the subscription asks for it, so no cursor that was
\* moved, saved and read back has passed it by, whatever the phones' clocks
\* within the grace; and its id is not taken for one that ran
\* (since_for_connect, Engine::persist_cursor, Ingest::mark).
StillRuns ==
  ingestUp => \A e \in Commands : Waits(e) => created[e] >= since /\ ~ Remembers(order, e)

\* Commands over restarts: none runs twice after an orderly one, and none that
\* can still be acted on is passed by.
IngestSound == IngestTypeOK /\ RunsOnce /\ StillRuns
===============================================================================
