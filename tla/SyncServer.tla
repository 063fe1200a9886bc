------------------------------ MODULE SyncServer ------------------------------
(***************************************************************************)
(* The bridge side of transcript sync, for one session and one client:     *)
(* crates/bridge-core/src/sync.rs and the calls the engine makes into it.  *)
(*                                                                         *)
(* Entries stand for their seqs (BridgeTranscript: a seq keeps its entry), *)
(* lists of ranges for the seqs they cover (Ranges: the range functions    *)
(* compute those sets), a chunk for its range <<first, last>>.  The sizes  *)
(* that decide where `cut` ends a chunk are left out: any way of cutting   *)
(* the missing seqs into runs may happen (SyncCut is about the cutting).   *)
(* Both timers of a sync are armed as long as it lives.                    *)
(***************************************************************************)
EXTENDS Integers, FiniteSets

(***************************************************************************)
(* The relays between the phone and the bridge, as the handlers on either  *)
(* end meet them: messages travel unordered and may be lost.  Both ends    *)
(* drop a second copy of the same event by its id, but the bridge answers  *)
(* a repeated command and resends a chunk in events of their own, so a     *)
(* message may also reach its handler twice.                               *)
(***************************************************************************)
CONSTANTS
  Faults,      \* what may go wrong, a subset of FaultKinds
  MaxFaults,   \* bound: how often
  MaxNet       \* bound: messages under way; a step that would send more waits

(* lose: a message is lost; repeat: one is handled twice; store: the       *)
(* phone's store refuses a write; read: the bridge cannot read its         *)
(* transcript; reconnect: the phone's connection breaks; bridge, phone:    *)
(* that end restarts.                                                      *)
FaultKinds == {"lose", "repeat", "store", "read", "reconnect", "bridge", "phone"}

ASSUME RelayAssumption == Faults \subseteq FaultKinds /\ MaxFaults \in Nat /\ MaxNet \in Nat

VARIABLES
  net,     \* the messages under way
  faults   \* how many of the faults have happened

relayVars == <<net, faults>>

Fault(kind) ==
  /\ kind \in Faults /\ faults < MaxFaults
  /\ faults' = faults + 1

NoFault == faults' = faults

Under(messages) ==
  /\ Cardinality(messages) <= MaxNet
  /\ net' = messages

\* `m` reaches its handler, which sends `out`.
Deliver(m, out) ==
  /\ m \in net
  /\ \/ Under((net \ {m}) \cup out) /\ NoFault
     \/ Under(net \cup out) /\ Fault("repeat")

\* `m` reaches its handler, where something fails; `out` is sent.
DeliverFailing(m, out, kind) ==
  /\ m \in net
  /\ Under((net \ {m}) \cup out)
  /\ Fault(kind)

Send(out) == Under(net \cup out)

Lose(m) ==
  /\ m \in net
  /\ net' = net \ {m}
  /\ Fault("lose")

------------------------------------------------------------------------------

CONSTANTS
  SyncIds,     \* bound: ids of the syncs alive or still named in a message
  Backlog,     \* entries appended while the phone was away
  MaxSeq,      \* bound: entries ever appended
  MaxRetries,  \* SyncConfig::max_retries
  KeepLast     \* EngineConfig::transcript_keep_last (0 keeps everything)

ASSUME ServerAssumption ==
  /\ SyncIds \subseteq Nat \ {0}
  /\ MaxSeq \in Nat /\ Backlog \in 0..MaxSeq /\ MaxRetries \in Nat /\ KeepLast \in Nat

VARIABLES
  stored,   \* seqs of the entries in the bridge's transcript
  high,     \* seq_highs[session]
  sync      \* by_id[by_key[session, client]], NoSync when there is none

serverVars == <<stored, high, sync>>

Seqs == 1..MaxSeq
Span(r) == r[1]..r[2]
SeqsIn(ranges) == UNION {Span(r) : r \in ranges}

NoSync == [id |-> 0, unacked |-> {}, acked |-> {}, pass |-> 0]

ServerTypeOK ==
  /\ stored \subseteq 1..high
  /\ high \in 0..MaxSeq
  /\ sync \in [id : SyncIds \cup {0}, unacked : SUBSET (Seqs \X Seqs),
               acked : SUBSET (Seqs \X Seqs), pass : 0..MaxRetries]
  /\ sync.id # 0 => sync.unacked # {}

ServerInit ==
  /\ high = Backlog /\ stored = 1..Backlog
  /\ sync = NoSync

(***************************************************************************)
(* `cut`: the runs of `missing`, cut before each seq of `cuts`.            *)
(***************************************************************************)
ChunksOf(missing, cuts) ==
  LET starts == {s \in missing : s - 1 \notin missing \/ s \in cuts}
  IN {r \in starts \X missing :
        /\ Span(r) # {} /\ Span(r) \subseteq missing
        /\ Span(r) \cap starts = {r[1]}
        /\ r[2] + 1 \in starts \/ r[2] + 1 \notin missing}

ChunkMsgs(s) ==
  {[kind |-> "chunk", id |-> s.id, range |-> r, entries |-> stored \cap Span(r)] :
     r \in s.unacked}

EndMsg(s) == [kind |-> "end", id |-> s.id, delivered |-> SeqsIn(s.acked)]

\* send_pass, when every read succeeds: `finish` if no chunk is left to send.
SendPass(s) == IF s.unacked = {} THEN {EndMsg(s)} ELSE ChunkMsgs(s)
AfterPass(s) == IF s.unacked = {} THEN NoSync ELSE s

\* send_pass, when reading the chunk that holds `at` fails: the chunks before
\* it are out, and the sync ends.
PassCutAt(s, at) == {c \in ChunkMsgs(s) : c.range[2] < at} \cup {EndMsg(s)}

\* The engine's new_id, never an id some message or held ack still names.
Free(used) == CHOOSE i \in SyncIds \ used : \A j \in SyncIds \ used : i <= j

\* `sync-request`: supersedes the sync under way, which gets no `sync-end`.
request(m, used) ==
  /\ m.kind = "request"
  /\ SyncIds \ used # {}
  /\ LET missing == (1..high) \ m.have
         id == Free(used)
         begin == [kind |-> "begin", id |-> id, high |-> high]
     IN \E cuts \in SUBSET missing :
          LET s == [NoSync EXCEPT !.id = id, !.unacked = ChunksOf(missing, cuts)]
          IN \/ /\ Deliver(m, {begin} \cup SendPass(s))
                /\ sync' = AfterPass(s)
             \/ \E at \in SeqsIn(s.unacked) :
                  /\ DeliverFailing(m, {begin} \cup PassCutAt(s, at), "read")
                  /\ sync' = NoSync
  /\ UNCHANGED <<stored, high>>

\* The chunks of the sync that `m` names, each by its exact range.
AckedBy(m) == IF m.id = sync.id THEN sync.unacked \cap m.ranges ELSE {}

\* `sync-ack`: an ack of an earlier sync, or of chunks acked before, only
\* restarts the idle clock at most.
ack(m) ==
  /\ m.kind = "ack"
  /\ LET s == [sync EXCEPT !.unacked = @ \ AckedBy(m), !.acked = @ \cup AckedBy(m)]
         done == sync.id # 0 /\ s.unacked = {}
     IN /\ sync' = IF done THEN NoSync ELSE s
        /\ Deliver(m, IF done THEN {EndMsg(s)} ELSE {})
  /\ UNCHANGED <<stored, high>>

\* The ack timer fires: resend what is unacked, or give up.
AckTimeout ==
  /\ sync.id # 0
  /\ LET s == [sync EXCEPT !.pass = @ + 1]
     IN \/ /\ sync.pass < MaxRetries
           /\ Send(SendPass(s)) /\ sync' = s /\ NoFault
        \/ /\ sync.pass < MaxRetries
           /\ \E at \in SeqsIn(s.unacked) : Send(PassCutAt(s, at))
           /\ sync' = NoSync /\ Fault("read")
        \/ /\ sync.pass >= MaxRetries
           /\ Send({EndMsg(sync)}) /\ sync' = NoSync /\ NoFault
  /\ UNCHANGED <<stored, high>>

IdleTimeout ==
  /\ sync.id # 0
  /\ Send({EndMsg(sync)}) /\ sync' = NoSync /\ NoFault
  /\ UNCHANGED <<stored, high>>

\* Engine::append of one entry, with its live `output`.
AppendEntry ==
  /\ high < MaxSeq
  /\ high' = high + 1
  /\ stored' = stored \cup {high + 1}
  /\ Send({[kind |-> "output", seq |-> high + 1]}) /\ NoFault
  /\ UNCHANGED sync

Retention ==
  /\ KeepLast > 0 /\ Cardinality(stored) > KeepLast
  /\ stored' = {s \in stored : Cardinality({t \in stored : t > s}) < KeepLast}
  /\ UNCHANGED <<relayVars, high, sync>>

\* The bridge stops or crashes and starts again: `close` and a crash alike end
\* the syncs without a `sync-end`.
RestartBridge ==
  /\ sync.id # 0
  /\ sync' = NoSync
  /\ Fault("bridge")
  /\ UNCHANGED <<net, stored, high>>
===============================================================================
