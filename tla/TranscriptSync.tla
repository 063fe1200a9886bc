---------------------------- MODULE TranscriptSync ----------------------------
(***************************************************************************)
(* Transcript sync end to end, for one session: SyncServer on the bridge,  *)
(* and here the phone (crates/client-core/src/stores/transcript.rs and     *)
(* what the runtime does around it: dispatch.rs, stores.rs, runtime.rs),   *)
(* over the relays.  The clock is left out: a backoff may end, and a cycle *)
(* count as stalled, at any time.                                          *)
(***************************************************************************)
EXTENDS SyncServer

CONSTANTS
  MaxAttempts,  \* TranscriptState::max_attempts
  Listed        \* the session is in the machine list kept on the phone from
                \* the start

ASSUME ClientAssumption == MaxAttempts \in Nat \ {0} /\ Listed \in BOOLEAN

VARIABLES
  rows,      \* seqs in the transcript store, which survives the app
  known,     \* seq_high in the machine list (kept too); Unlisted without one
  have,      \* have_ranges
  state,     \* sync.state; "none" while TranscriptState has no entry for it
  attempts,  \* sync.attempts, counted up to MaxAttempts: beyond it only the
             \* length of the backoff depends on the count
  target,    \* sync.target
  backoff,   \* next_retry_at lies ahead
  held       \* pending_acks, as <<sync id, range>>

clientVars == <<rows, known, have, state, attempts, target, backoff, held>>

Unlisted == -1
States == {"none", "idle", "requested", "syncing", "complete", "failed"}
InFlight == {"requested", "syncing"}
Greater(a, b) == IF a > b THEN a ELSE b
local_high == CHOOSE h \in have \cup {0} : \A s \in have : s <= h

ClientTypeOK ==
  /\ rows \subseteq Nat /\ have \subseteq Nat
  /\ known \in Nat \cup {Unlisted}
  /\ state \in States
  /\ attempts \in 0..MaxAttempts
  /\ target \in Nat
  /\ backoff \in BOOLEAN
  /\ backoff => state = "failed"
  /\ \A a \in held : a[2][1] <= a[2][2]

ClientInit ==
  /\ rows = {} /\ have = {} /\ held = {}
  /\ known = IF Listed THEN 0 ELSE Unlisted
  /\ state = IF Listed THEN "idle" ELSE "none"
  /\ attempts = 0 /\ target = 0 /\ backoff = FALSE

(***************************************************************************)
(* The transitions of TranscriptState.                                     *)
(***************************************************************************)
Request == [kind |-> "request", have |-> have]

start_cycle(goal) ==
  /\ state' = "requested"
  /\ attempts' = IF attempts < MaxAttempts THEN attempts + 1 ELSE attempts
  /\ target' = Greater(goal, target)
  /\ backoff' = FALSE

Completed ==
  /\ state' = "complete" /\ attempts' = 0 /\ backoff' = FALSE
  /\ target' = target

GiveUp ==
  /\ state' = "failed" /\ backoff' = TRUE
  /\ UNCHANGED <<attempts, target>>

Quiet == UNCHANGED <<state, attempts, target, backoff>>

Gap(goal) == ~ (1..goal \subseteq have)

\* Mutant: a failed cycle is not tried again.
AsksOnce(goal, st, waits) ==
  goal > 0 /\ Gap(goal) /\ st \notin InFlight \cup {"failed"}

\* Whether ensure_synced(goal) starts a cycle, finding state `st`.
Asks(goal, st, waits) ==
  goal > 0 /\ Gap(goal) /\ st \notin InFlight /\ ~ (st = "failed" /\ waits)

\* The store takes the entries it does not have; coverage grows by those.

integrate_rows(entries, range) ==
  /\ rows' = rows \cup entries
  /\ have' = have \cup (entries \ rows)

get_or_create == IF state = "none" THEN "idle" ELSE state

(***************************************************************************)
(* What arrives.                                                           *)
(***************************************************************************)
\* `output`: a failed write leaves the entry to the sync.
OnOutput(m) ==
  /\ m.kind = "output"
  /\ \/ Deliver(m, {}) /\ integrate_rows({m.seq}, {m.seq}) /\ state' = get_or_create
     \/ DeliverFailing(m, {}, "store") /\ UNCHANGED <<rows, have, state>>
  /\ UNCHANGED <<known, attempts, target, backoff, held>>

apply_sync_begin(m) ==
  /\ m.kind = "begin"
  /\ Deliver(m, {})
  /\ state' = "syncing" /\ backoff' = FALSE
  /\ target' = Greater(target, m.high)
  /\ UNCHANGED <<rows, known, have, attempts, held>>

\* Mutant: the ack is held before the store has answered.
ChunkAckedFirst(m) ==
  /\ m.kind = "chunk"
  /\ \/ Deliver(m, {}) /\ integrate_rows(m.entries, m.range[1]..m.range[2])
     \/ DeliverFailing(m, {}, "store") /\ UNCHANGED <<rows, have>>
  /\ held' = held \cup {<<m.id, m.range>>}
  /\ state' = get_or_create
  /\ UNCHANGED <<known, attempts, target, backoff>>

\* `sync-chunk`: acked only once its entries are stored.
OnChunk(m) ==
  /\ m.kind = "chunk"
  /\ \/ /\ Deliver(m, {})
        /\ integrate_rows(m.entries, m.range[1]..m.range[2])
        /\ state' = IF m.entries = {} THEN state ELSE get_or_create
        /\ held' = held \cup {<<m.id, m.range>>}
     \/ DeliverFailing(m, {}, "store") /\ UNCHANGED <<rows, have, state, held>>
  /\ UNCHANGED <<known, attempts, target, backoff>>

\* `sync-end`, whichever sync it ends.
apply_sync_end(m) ==
  /\ m.kind = "end"
  /\ LET goal == Greater(target, local_high)
     IN \/ state = "none" /\ Deliver(m, {}) /\ Quiet
        \/ state # "none" /\ ~ Gap(goal) /\ Deliver(m, {}) /\ Completed
        \/ Gap(goal) /\ attempts < MaxAttempts /\ Deliver(m, {Request}) /\ start_cycle(goal)
        \/ Gap(goal) /\ attempts >= MaxAttempts /\ Deliver(m, {}) /\ GiveUp
  /\ UNCHANGED <<rows, known, have, held>>

\* A session list with `seqHigh`, not older than the one before: kept,
\* then ensure_synced(seqHigh).
OnSessions(seqHigh) ==
  /\ known <= seqHigh
  /\ known' = seqHigh
  /\ \/ Asks(seqHigh, state, backoff) /\ Send({Request}) /\ start_cycle(seqHigh)
     \/ /\ ~ Asks(seqHigh, state, backoff) /\ Send({})
        /\ \/ seqHigh > 0 /\ ~ Gap(seqHigh) /\ IF state = "complete" THEN Quiet ELSE Completed
           \/ /\ seqHigh > 0 /\ Gap(seqHigh) /\ state \in InFlight
              /\ target' = Greater(target, seqHigh)
              /\ UNCHANGED <<state, attempts, backoff>>
           \/ (seqHigh = 0 \/ (Gap(seqHigh) /\ state \notin InFlight)) /\ Quiet
  /\ NoFault
  /\ UNCHANGED <<rows, have, held>>

(***************************************************************************)
(* What the runtime does by itself.                                        *)
(***************************************************************************)
\* A batch of acks goes out, one command per sync.
FlushAcks ==
  /\ held # {}
  /\ Send({[kind |-> "ack", id |-> i, ranges |-> {a[2] : a \in {b \in held : b[1] = i}}] :
             i \in {a[1] : a \in held}})
  /\ held' = {}
  /\ NoFault
  /\ UNCHANGED <<rows, known, have, state, attempts, target, backoff>>

\* The connection was lost and is back.  on_refresh_reconcile: on_reconnect,
\* then ensure_synced(known).
Reconnect ==
  LET idle == IF state \in {"none", "complete"} THEN state ELSE "idle"
      spent == IF state \in {"idle", "complete"} THEN attempts ELSE 0
  IN /\ \/ /\ Asks(known, idle, FALSE) /\ Send({Request})
           /\ state' = "requested" /\ attempts' = spent + 1
           /\ target' = Greater(known, target)
        \/ /\ known > 0 /\ ~ Gap(known) /\ Send({})
           /\ state' = "complete"
           /\ attempts' = IF idle = "complete" THEN attempts ELSE 0
           /\ target' = target
        \/ /\ known <= 0 /\ Send({})
           /\ state' = idle /\ attempts' = spent /\ target' = target
     /\ backoff' = FALSE
     /\ Fault("reconnect")
     /\ UNCHANGED <<rows, known, have, held>>

\* stall_sweep: the cycle has been silent for SYNC_STALL_MS, which is longer
\* than a message travels.
StallSweep ==
  /\ state \in InFlight /\ target > 0
  /\ \A m \in net : m.kind \in {"output", "ack"}
  /\ \/ attempts < MaxAttempts /\ Send({Request}) /\ start_cycle(target)
     \/ attempts >= MaxAttempts /\ Send({}) /\ GiveUp
  /\ NoFault
  /\ UNCHANGED <<rows, known, have, held>>

BackoffElapses ==
  /\ backoff /\ backoff' = FALSE
  /\ UNCHANGED <<relayVars, rows, known, have, state, attempts, target, held>>

\* The app is killed and starts again: `hydrate` reads back the coverage of
\* the sessions in the kept machine list.
RestartPhone ==
  /\ have' = IF known = Unlisted THEN {} ELSE rows
  /\ held' = {}
  /\ state' = IF known = Unlisted THEN "none" ELSE "idle"
  /\ attempts' = 0 /\ target' = 0 /\ backoff' = FALSE
  /\ Fault("phone")
  /\ UNCHANGED <<net, rows, known>>

(***************************************************************************)
(* The bridge and the phone together.                                      *)
(***************************************************************************)
vars == <<relayVars, serverVars, clientVars>>

\* The sync ids a message, the bridge or the phone's held acks still name.
UsedIds ==
  {sync.id} \cup {a[1] : a \in held}
    \cup {m.id : m \in {n \in net : n.kind \notin {"request", "output"}}}

Init == net = {} /\ faults = 0 /\ ServerInit /\ ClientInit

BridgeGets(m) == (request(m, UsedIds) \/ ack(m)) /\ UNCHANGED clientVars

BridgeActs ==
  /\ AckTimeout \/ IdleTimeout \/ AppendEntry \/ Retention \/ RestartBridge
  /\ UNCHANGED clientVars

PhoneGets(m) ==
  /\ OnOutput(m) \/ apply_sync_begin(m) \/ OnChunk(m) \/ apply_sync_end(m)
  /\ UNCHANGED serverVars

\* The session list the phone gets is the bridge's newest or one before it.
PhoneActs ==
  /\ (\E h \in 0..high : OnSessions(h)) \/ FlushAcks \/ Reconnect \/ StallSweep \/ BackoffElapses \/ RestartPhone
  /\ UNCHANGED serverVars

Lost(m) == Lose(m) /\ UNCHANGED <<serverVars, clientVars>>

Next ==
  \/ \E m \in net : BridgeGets(m) \/ PhoneGets(m) \/ Lost(m)
  \/ BridgeActs
  \/ PhoneActs

Spec == Init /\ [][Next]_vars

(***************************************************************************)
(* Fairness: a message that is not lost arrives (the relays keep commands  *)
(* and responses for an hour and give them again on every connect); the    *)
(* ack window, a backoff and the stall sweep end because they are timers;  *)
(* the phone keeps receiving the bridge's newest session list (the         *)
(* heartbeat).  Nothing forces new entries, nor the bridge's sync timers.  *)
(***************************************************************************)
Arrives(kind) == \E m \in net : m.kind = kind /\ (BridgeGets(m) \/ PhoneGets(m)) /\ NoFault

ChunkArrives(r) == \E m \in net : m.kind = "chunk" /\ m.range = r /\ PhoneGets(m) /\ NoFault

Fairness ==
  /\ \A kind \in {"request", "ack", "begin", "end", "output"} : WF_vars(Arrives(kind))
  /\ \A r \in Seqs \X Seqs : WF_vars(ChunkArrives(r))
  /\ WF_vars(FlushAcks /\ UNCHANGED serverVars)
  /\ WF_vars(BackoffElapses /\ UNCHANGED serverVars)
  /\ WF_vars(StallSweep /\ UNCHANGED serverVars)
  /\ WF_vars(OnSessions(high) /\ UNCHANGED serverVars)

FairSpec == Spec /\ Fairness

(***************************************************************************)
(* Properties.                                                             *)
(***************************************************************************)
\* Every variable keeps its type, on both ends.
TypeOK ==
  /\ faults \in 0..MaxFaults
  /\ ServerTypeOK
  /\ ClientTypeOK
  /\ rows \subseteq Seqs /\ have \subseteq rows

\* A chunk the bridge counts as acked is in the phone's store, up to entries
\* retention has dropped meanwhile (SyncServer::ack, dispatch of sync-chunk).
AckedIsStored == stored \cap SeqsIn(sync.acked) \subseteq rows

\* `sync-end` never reports as delivered what the phone does not hold
\* (SyncServer::finish names only the acked chunks).
EndIsTruthful == \A m \in net : m.kind = "end" => stored \cap m.delivered \subseteq rows

\* The phone's coverage, which every `sync-request` carries, is exactly what
\* its store holds, app restarts included (integrate_rows, hydrate_from_seqs).
CoverageIsStored == have = rows

\* Every entry the bridge keeps reaches the phone's store (the sync, the
\* retries on both ends, the heartbeat that starts them).
EveryEntryArrives == \A s \in Seqs : s \in stored ~> (s \in rows \/ s \notin stored)

\* From some point on the phone covers every seq, and it keeps coming back to
\* `complete`; a `sync-begin` that arrives after its `sync-end` opens a
\* finished cycle again, until the next list (ensure_synced, apply_sync_end).
SyncSettles == <>[](1..high \subseteq have) /\ []<>(state = "complete")

\* Seqs the bridge has pruned do not keep a sync from completing: a chunk's
\* range covers them, and the phone then has them as far as sync goes
\* (docs/PROTOCOL.md on `sync-chunk`).
PrunedCounts == []<>(state = "complete")

\* The sync says nothing untrue: what the bridge takes as acked is stored, a
\* `sync-end` names what was delivered, and the coverage is the store's.
SyncTruthful == TypeOK /\ AckedIsStored /\ EndIsTruthful /\ CoverageIsStored

\* And it gets there: every entry arrives, and the phone comes back to complete.
SyncCompletes == EveryEntryArrives /\ SyncSettles
=============================================================================
