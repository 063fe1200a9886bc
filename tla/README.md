# Verification of codedeck-plus

TLA+ models of codedeck-plus, the TLC runs that check them on small instances, and
TLAPS proofs of what matters most. Paths are relative to the root of the repository
(`crates/…` is `src/crates/…`); `PROJECT.json` maps every definition to its lines and
lists, for each hazard of the code, the properties that would catch it.

Contents: 1 the system; 2 the modules and how they correspond to the code; 3 the runs;
4 bounds; 5 fairness; 6 the proofs; 7 where code and text disagree; 8 what is not
modelled.

## 1. The system

A **phone** (Rust core in `crates/client-core`, driven by the event loop of
`client-runtime`, handed to the Android app by `client-ffi`) talks over **Nostr relays**
or a direct WebSocket (`nostr-transport`) to a **bridge** (`bridge-core`, a pure engine
of inputs and outputs; `bridge-runtime`, which does its I/O). The bridge runs one
**agent host** (`src/packages/agent-host`, Node, over a pipe of JSON lines), which runs
the coding agents. The bridge keeps transcripts, the registry of sessions, settings and
the command cursor in files; the phone keeps its copy of all of it in a database.

Relays lose nothing on purpose, but give events late, again, in another order, or not
at all to a phone that was away; either process may be killed between any two steps.
What has to be right in spite of that, in one line each: a seq stands for one entry for
ever; what the bridge thinks the phone has, it has; every entry arrives in the end; a
command runs once; bridge and host agree on what runs and what is asked; keys reach the
shell in order and once; nothing the user sent vanishes; what the user deleted stays
away; what is on screen is what is stored; one token pairs one phone; and no wait that
the user sees goes on for ever.

## 2. The modules

Every module keeps the names of the source: a definition in `snake_case` is the function
of that name, and an action named after a handler is the whole handler. A definition
whose comment begins with `Mutant:` is a faulty variant of the one below it. It is not
part of the model; it shows that a property can fail.

**Scenes.** Many modules have a constant such as `PairScenes`: a set of records that say
who takes part and which faults may happen. `Init` picks one and it never changes, so
that instances add up instead of multiplying. The proofs quantify over any set of scenes.
Components that share no state are checked by one run: the modules `MCPhone`,
`MCBridge`, `MCLink`, `MCAccess` and `MCLive` EXTEND them, and a variable `part` says
which one a behaviour plays.

### The transcript

* **`BridgeTranscript`**: numbering and keeping the entries of one session
  (`Engine::append`, `bridge-runtime/src/transcripts.rs`). `file` is the lines that parse,
  how the file ends (clean, torn, or a last line without its newline) and whether
  something in it does not parse. The loop of `append` is one step per line
  (`StoreEntry`), then `Publish`, because a crash can fall between any two writes or
  inside one. `Start` is `load` with its rewrite and the first sweep of retention. The
  history variable `intact` stays true while the only faults are crashes that left part
  of a line or none; a whole line left without its newline is a fault of its own
  ("bare", section 7). Proofs: **`BridgeProofs`**.
* **`Ranges`**: `protocol/src/ranges.rs` and `SyncServer::cut`, as functions on
  sequences, with the saturating arithmetic of `u64` at the top.
* **`SyncServer`** and **`TranscriptSync`**: the bridge's half of a sync, and the phone's
  half with the relays between them. The relays are a set of messages that may be lost,
  handled twice and taken in any order. Lists of ranges are sets of seqs here, which
  `RangesSound` justifies. Where `cut` ends a chunk is any choice. A sync id is reused
  only when nothing names it any more. Time is left out: the bridge's timers fire at any
  moment; the phone's stall sweep only when no message of the cycle is under way
  (`SYNC_STALL_MS`, two minutes, is taken to be longer than a message travels). Proofs:
  **`SyncProofs`**.
* **`TranscriptView`**: the rows built from entries (`display_entries.rs`), the activity
  sheet, and the deltas a screen is handed against the copy it is believed to hold
  (`client-ffi/src/views.rs`).
* **`RowCache`**: the cache over the table of rows (`client-runtime/src/ports.rs`), with
  operations that are under way together. Proofs in the module.
* **`LiveText`**: the text of a reply while it is written, from the driver through
  `bridge-core/src/live.rs` to the live row of `stores/live_text.rs`. Characters are
  symbols; `<`, `m` and `>` make up the session-meta comment. Proofs in the module.

### Sessions

* **`AgentHost`**, **`SessionEngine`**, composed in **`SessionLife`**: one session in
  the engine and in the host, over two bounded pipes. The engine is one record `b`, and
  each handler a function from it to the next, as in the code, where handlers call each
  other; `out` is what a handler sends. The host may die at any point and is started
  again; the bridge shuts down, crashes and resumes from the registry its writer wrote
  last (`disk`). `open` are the requests in the transcript without a `resolved` entry.
  History: `refused` are conversation deletes the host answered with an error, `forgot`
  those under way when the bridge stopped, `unmade` a creation the stop forgot.
* **`Options`**: mode, effort, model and persona of a session and its commit mark. No
  agent reports its effort, so only the phone's choice and the host's answer set it.
* **`SessionList`**: lists and their revisions, tombstones, dismissals, close commands
  and their retries, the undo window over pauses and kills. **`SessionDeletes`** is the
  promise made to the user in `docs/CLIENT.md`, "Deleting a session", as an abstract
  specification over one life per session (open, hidden, deleting, closed, removed);
  `Promise` in `SessionList` is the refinement mapping. Proofs: **`ListProofs`**.
* **`Outbox`**: what the user sends, from the intent to the bridge's ack.
* **`Attention`**: the unread dot, the notification and the card of a session that is
  being created. Proofs: `ScreenProofs`.
* **`TerminalEngine`**, with its scenes and the relay in **`MCTerminal`**: one terminal
  and the devices of one identity. A key is its number among those its device typed;
  `shell` is what the runtime was told to write. Output is counted in pieces through a
  ring. A phone's `lost` turns true when its count was restarted, and `late` when the
  terminal is shown again while an older replay is still to be answered (section 7).
* **`TerminalAllow`**, **`AuditLog`**: the allowlist file with its lock, the owner's
  commands and the writer thread, a stale lock found and removed in two steps; the
  hash-chained audit, its crashes and its retention.

### Connections

* **`PhoneLink`**: the connection reducer of the phone, its timers and the loop's
  effects. The host app, timers and transport only post to the loop's queue, so what a
  message says may be out of date when it is read.
* **`RelayPool`**: dials, redials, AUTH, what is parked on it, and confirmed publishes
  (`nostr-transport/src/ws.rs`, `router.rs`, `publish.rs`).
* **`DirectLink`**, **`Listener`**: the direct link from hello to replay, its lanes and
  budgets; the listener's counts, and the requests of the web page. Proofs of the
  listener: `BridgeProofs`.
* **`Publisher`**: the bridge's paced publish queue. **`Chunks`**: splitting a message
  by encoded size and putting it together again.
* **`Watching`**: what the phone tells bridges of the screen it shows.
* **`ClientLoop`**: for each message, intent and timer of the loop (an *arm*), which
  parts of the state it changes, flags and saves; the screens that read slices again,
  and the debounced writes. What an arm computes is in the modules of the stores. Proofs:
  `ScreenProofs`.

### Access and settings

* **`Ingest`**: accepting, deduplicating and forgetting events, the cursor, its snapshots
  (`doc`, then `pending`, then `disk`), the writer thread, stops, crashes and the resume.
  `flooded` says that the cap on ids pushed one out that was still needed.
* **`SessionKeys`**: rotation, grants, held commands, presence and missed copies, and a
  bridge that crashes before its clients are on disk (`saved`).
* **`Pairing`**: the pair flow on the phone, the windows and one-time tokens of the
  bridge, and the pairing link, written and parsed over a small alphabet. A timer that
  fired has put a message in its loop's queue which cancelling no longer takes back.
  Proofs in the module.
* **`Web`**, **`Uploads`**, **`Backup`**: browser sign-in; files as blobs or in chunks;
  the config backup that two devices keep on a relay.
* **`Answers`**, **`Profiles`**, **`BridgeConfig`**, **`BridgeShell`**: settings requests
  and what answers them; provider profiles and credentials; the sources of the
  configuration and the page's edits of the file; `run`, `pair` and `unpair` as
  processes that share one home; `unpair` takes the lock, gives it back and only then
  reads the state, as `lock_holder` does.

## 3. The runs

Each property that holds has a mutant in `PROJECT.json`: a plausible fault in the code
under which TLC finds it violated.

**`phone`** (`MCPhone`): the phone's stores and screens.

| property | says |
|---|---|
| `EachEntryOnce` | every entry is shown by exactly one row, or by the activity bar or card that takes it over, in order; running agents and tasks are on the sheet once |
| `ScreenIsCurrent` | a screen with no call under way shows the rows of what is stored |
| `NothingVanishes` | a message is held until it has a verdict, retried or not; one shown as confirmed was given to the agent; no late outcome takes a verdict back |
| `ViewedIsClean` | the session on screen has no dot and no notification |
| `LoopSound` | what changed is on the way to the screens, and what is not on disk is due to be written |
| `LiveIsPrefix` | a live row is a beginning of the text its entry will have |
| `ReadsExact` | a cached or fetched read answers what is stored |
| `WatchTold` | once quiet, each bridge streams for what is on screen, through changes, hiding and reconnects; one left behind that a reconnect forgot is excepted |
| `DeletesKept` | bridge, wire and phone implement `SessionDeletes`, and what was deleted stays hidden |

**`bridge`** (`MCBridge`): what the bridge keeps and answers.

| property | says |
|---|---|
| `AnswersSound` | a settings page waits only with a deadline, and the bridge answers what it took exactly once |
| `WritesSound` | each write of a profile is answered, the newest stands, and a verdict on a credential is about the value in force |
| `OptionsAgree` | once everything was read the record says what the agent runs with, effort included if one was chosen, and the newest list shows the record |
| `ConfigSound` | after an edit cut off anywhere the bridge starts again, with what was saved |
| `HomeSound` | one identity per home, told only once stored; the file says what the operator was told unless an `unpair` and a bridge had it open together; a window shown is open |
| `AllowSound` | a device is allowed by the owner's word only and a withdrawn one has no terminal, but for a lock removed under its holder and a list that was overtaken by a newer one |
| `AuditSound` | the log verifies and its records are in order, none twice, over restarts and crashes that cut no line; with no crash it holds every record taken; the oldest recordings go first |
| `NeverRenumbered`, `TranscriptKept` | a published seq never gets other content; what was published is on disk in order, as far as retention kept it: through crashes that cut a line short and restarts, until a write fails or a crash leaves a whole line without its newline |
| `RangesSound` | the range functions compute the set operations they are taken for, and chunks tile what is missing within the limits |

**`link`** (`MCLink`): the transports.

| property | says |
|---|---|
| `LinkSound` | the connection never rests in a state with no timer, and what was missed is asked for once it is up |
| `PoolSound` | relays are dialled again, the router knows the sockets that are up, nothing waits for an AUTH that is not coming, publish verdicts are true |
| `DirectSound` | a direct link resumes without a gap, its budget counts what is there and bounds what is buffered, a late end of one publish never ends another |
| `PublishSound` | per lane the order is kept, every message settles, and an owed heartbeat is owed by somebody |
| `ChunksSound` | frames fit, only whole messages come out, the assembler's counts are exact |
| `ListenSound` | connection counts are exact on every way out, and only a page signed in when its request is routed changes anything |

**`access`** (`MCAccess`): who may talk to the bridge, and what it takes from them.

| property | says |
|---|---|
| `KeysSound` | commands are written to a key the bridge reads, or took in a grant that a crash made it lose; they are sent once, and a client that was away is told what it missed |
| `PairingSound` | a token pairs one phone once, an ack is awaited with one deadline from a bridge the phone hears (`PairSound`), and a link is read back as written |
| `WebSound` | a browser is let in by its own code only, and the file says who is signed in once its writes are done, crashes included |
| `UploadsSound` | a file arrives whole or not at all, and arrives unless something failed or its encrypted body is over the bridge's cap |
| `IngestSound` | over orderly restarts a command runs once, and none that can still be acted on is passed by, short of a flood of ids |
| `SavedNeverRunsAgain` | a command whose id reached the disk never runs again, crashes included, short of a flood of ids |
| `BackupKept` | quiet devices whose saves did not cross agree, none is left believing it saves, and an edit made on top of another is not undone by it unless a crash tore a device's record from its store |

**`live`** (`MCLive`), under fairness: `Reconnects` (the phone gets back to open
subscriptions), `NothingWaitsForever` (the wait for a grant, a pairing attempt, a send
and a spinner end), `ViewsConverge` (a bridge comes to know what is watched, and no live
row outlives its work).

**`sync_safety`**, **`sync_live`** (`TranscriptSync`): `SyncTruthful`, what the bridge
takes as acked is stored, a `sync-end` names what was delivered and the coverage is the
store's; `SyncCompletes`, every entry arrives and the phone comes back to complete again
and again (rather than staying there: a `sync-begin` that arrives after its `sync-end`
opens a finished cycle once more, until the next list closes it).

**`session_safe`**, **`session_live`** (`SessionLife`): `SessionsAgree`, whenever the
pipes are empty engine and host agree on what runs and what is asked, no card is dropped
silently (a card replaced by another included), two inputs arrive in order and once,
repeated deaths use up the restart budget, and conversations are deleted only when no
session holds them; `SessionsSettle`, creations end, cards close, conversations of closed
sessions go. A creation may be forgotten and a delete given up when the bridge stops, and
a delete is refused by an agent that is not installed; the engine logs the refusal and
does not ask again.

**`terminal`** (`MCTerminal`): `TerminalSound`, keys reach the shell in order and once
through loss, repeats, resends and takeovers; held input has a timer; engine and shell
agree once the queue is empty; a screen misses only what left the ring, unless it was
shown again ahead of the answer to an older replay (section 7).

**`transcript_write_error`**, **`ingest_replay`**: violations, section 7.

## 4. Bounds

Every bound is a constant, named in the module that uses it and given in the `.cfg`.

* Transcript: 4 entries in runs of up to 2 with retention at 2 lines: a sweep of retention
  with a crash inside a run before and after it (the proof removes the bounds). Ranges:
  lists of up to 3 ranges over 0..4, inverted ones included, which is every way in which
  one can touch, overlap or contain two others; chunks of sizes below, at and above the
  limit.
* Sync: 2 seqs, 2 syncs alive at once (one superseded), 1 retry of the bridge, 2 attempts
  of the phone, 3 messages under way, 1 fault. Two seqs make one chunk or two, and so
  partial acks and a pruned seq beside a kept one. The fault meets every handler at every
  point; the proof removes these bounds for `SyncTruthful`.
* Rows: every transcript of up to 4 entries over an alphabet of 14 shapes: an agent call,
  a call nested in it, and whatever can name either. Screens: 2, with 1 or 2 sessions;
  the screens are symmetric.
* Sessions: 1 session, up to 2 inputs and 2 requests under one request id, in scenes
  that have the one or the other (`SafeScenes`), pipes of 2 frames, 2 deaths of the agent
  against a budget of 1 restart, 1 death of host or bridge; the bridge closes the session,
  shuts down or crashes. In the code one session's
  handlers touch no other session. Session list: 2 sessions, 2 lists in flight.
* Terminal: 2 devices, a window and resend buffer of 2 and a ring of 3, with more keys and
  output than fit: a replay begins inside the ring or behind it. The code's limits are
  larger (256 events each way); what matters is that they are passed. The same holds for
  the queues, caps, budgets and time-outs of the link and access runs: each is 1 to 3 and
  is reached in some scene.
* Outbox: 2 attempts, the second as long as one message was written (`MaxRetried`). Backup:
  edits with a crash, a failure or a race of the two devices; the largest of these scenes
  happen within one second ("still"). Uploads: files at the cap and one tag short of it.
* Client loop: every arm of the loop against every single slice on screen.
* Pairing: 2 phones and 1 bridge, 1 phone and 2 bridges, or 1 of each with 2 windows; 2
  requests (the proof removes the bounds).
  Links: up to 2 texts of 2 characters with every reserved character.
* Ingest: 2 commands and an event that is none, an age limit of 1, a grace of 2, a clock
  of 0..3: an id is forgotten, a command goes stale and the clock moves on after a
  restart. The cap on ids is 2, which is passed. `Disorder` says how far out of order
  relays give new commands; it is within the grace, as `since_for_connect` assumes. The
  commands are symmetric.

Deadlock is checked in `sync_safety`, `sync_live` and the two violation runs. In the
others everything may come to rest (a closed session, an ended terminal, a bounded
number of calls) and the cfg says so.

## 5. Fairness

* `sync_live`: a message that is not lost arrives (relays keep commands and responses for
  an hour and give them again on each connect); the ack batch, the backoff and the stall
  sweep are timers and elapse; the phone keeps getting the newest session list (the
  heartbeat). New entries and the bridge's own sync timers are not forced. Losses are
  bounded: a network that loses everything delivers nothing.
* `session_live`: both processes read what waits in their pipes; the supervisor starts a
  dead host; card timers fire; an agent that was started becomes ready or stops; an
  install that is tried again and again ends (strong fairness: a download may be cut by a
  host death, but not for ever). Nothing forces the user to answer.
* `live`: weak fairness of the loops that read their queues, of timers that are armed, of
  the signer and of publishing tasks, which the runtimes poll until they end; a relay
  that has not gone quiet answers a subscription; heartbeats repeat. For `Watching` a
  presence that a machine was told grows old and is renewed again and again
  (`PRESENCE_RENEW_SECS`; strong fairness, per machine, as other commands put it off).
  Pairing asks nothing of the relays or the bridge: the phone owns its deadline.

## 6. The proofs

TLAPS checks the following for every value of the constants, and so for every set of
scenes that meets the assumptions. None of the properties is inductive as it stands;
each proof has an inductive invariant, one lemma per action (or per handler) that keeps
it, and lemmas on the operators below them. TLC checked each invariant on the
instances of the runs before it was proved.

| theorem | states | assumptions |
|---|---|---|
| `BridgeProofs`: `SeqsNeverRenumbered`, `TranscriptIsKept` (also `AlwaysInductive`, `TranscriptSurvives`, `LinesStaySorted`) | `Spec => []NeverRenumbered`, `Spec => []TranscriptKept` | `TranscriptAssumption` (bounds are naturals, faults known ones) |
| `SyncProofs`: `AcksAreTruthful`, `SyncIsTruthful` (also `SyncAlwaysInductive`) | `Spec => [](AckedIsStored /\ EndIsTruthful)`, `Spec => []SyncTruthful` | bounds are naturals; `Listed` for the second |
| `ListProofs`: `DeletedStaysHidden`, `DeletesAreKept` (also `ListAlwaysInductive`) | `ListSpec => []StaysHidden`, `ListSpec => DeletesKept` | `ListAssumption`; `Orderly` |
| `RowCache`: `ReadsAreExact` | `RowsSpec => []ReadsExact` | `CacheAssumption`, `RowAssumption`; `Sequential` |
| `ScreenProofs`: `LoopIsSound` | `LoopSpec => []LoopSound` | `LoopAssumption` (a screen watches known slices) |
| `LiveText`: `LiveRowsArePrefixes` | `LiveSpec => []LiveIsPrefix` | `LiveAssumption` (a reply has finitely many parts, each a text) |
| `ScreenProofs`: `ViewedStaysClean` | `AttSpec => []ViewedIsClean` | none |
| `PhoneLink`: `LinkIsSound` | `LinkSpec => []LinkSound` | `LinkAssumption` (a phone is paired or not) |
| `BridgeProofs`: `ListenersAreSound` | `ListenSpec => []ListenSound` | `ListenAssumption` (the limits are naturals) |
| `Pairing`: `PairIsSound` | `PairSpec => []PairSound` | `PairingAssumption` |

**Transcript.** That a seq is not used twice depends on the highest seq being read back
correctly at each start, so on the last line carrying it; that on the lines being
consecutive, and on everything published lying at or below the last line. `Inductive`
says this: a running bridge never has an unfinished line, and a stopped one only a torn
one (`Tidy`); the lines are consecutive, agree with what was published and miss nothing
behind their first (`LinesFit`); while the bridge runs, the high and the run under way
continue the lines (`Continues`, `RunContent`, `BelowHigh`). A crash in the middle of a
run leaves lines that were not published: `LinesFit` allows for them, and the next start
counts them as used. The theorems speak of behaviours in which no write failed, no file was
unreadable and no crash left a whole line without its newline (`intact`); without that
they are false (section 7). `HarmStays` says that `intact` never comes back, so the implication
is preserved although harmful steps break `Inductive`.

**Sync.** An ack under way may name any range, so `AckedIsStored` alone is not kept.
`SyncInv` follows a range from the cut that makes it to the ack that returns it: it is
cut at or below the bridge's `high`, so an entry appended later is outside it; a chunk
under way carries everything stored in its range (pruning only takes away); an ack held
or under way names only ranges whose stored entries are in the phone's store, and the
store never shrinks. `Listed` says that the session is in the machine list kept on the
phone from the start; without it the coverage is not restored before the first list.

**Deletes, and the refinement.** `DeletesAreKept` shows that bridge, wire and phone
implement `SessionDeletes`: the initial states map to its initial state, and each action
maps to one of its actions or to a stutter. What has to be carried along (`ListInv`) is
why a dismissal is never pruned while the bridge still has the session: each list in
flight that lacks the session is older than the session's first list, none of them
outlives the first tick after the delete, and so the dismissal's `quiet` stays 0; and
the copy of it on disk is as good as the one in memory. `Orderly` excludes the scene
"late ready": a `session-ready` older than the delete brings the session back (section 7).

**Row cache.** While an operation is under way the cache may be behind the table.
`RowInv` says what that operation will do to it: an insert that has reached the table
holds the rows the cache still lacks, a read holds the cached and the fetched rows that
make up its answer, and whether it may still be cached. `Sequential` is the store of the
app, whose answers are ready futures (`TranscriptStoreSqlite` in `client-ffi/src/db.rs`);
section 7 has what happens otherwise.

**Client loop.** The argument is about each handler: `ArmSound` says that it flags or
persists whatever it changes of what a screen shows, and persists what it changes of a
store. There is a lemma per group of arms, and `AllArmsSound` puts them together. The
loop adds that an answer under way is behind only in what the screen does not have
either (`behind \subseteq unseen`), which is why a late answer never hides a change.

**Live text.** `LiveInv` follows a text from the driver to the screen: what the bridge
passed on of a part, what is on the wire or may come again, and what a row shows are each
a piece of the reply before the session-meta comment, at the offset they name. The lemmas
below it are about `Find`, `held_tail` and `strip_session_meta`: nothing that might begin
the comment is passed on before it is known not to. The second half of `LiveIsPrefix`
(no row comes back beside its entry) rests on the set of completed parts, which is
emptied only when the turn ends.

**Attention.** A handler that is given a phone on which the session on screen is clean
returns one such, whatever the message says; this is proved for each handler as a
function on the phone's record (`Clean`), so the order of messages does not matter.

**Phone's connection.** The reducer posts messages to its own loop, so a timer that has
fired is for a while a message in the queue, and during a handler it is the message just
taken. `LinkInv` is `LinkSound` with that made precise (`OnItsWay`): a retry that is
waited for has its timer or its message, and only while there is a network; hiding has its
timer; a connection and a direct link that is up have the watchdog, unless the loop has
stopped and only the link's end is still to be heard; what was missed is asked for, or the
message that asks is queued. Each helper of the reducer is a lemma on the phone's record
(`Holds(p, now)`), and a handler's lemma is put together from those of its helpers.

**Pairing.** That a token pairs once needs that no request accepted so far carries the
token of the window open now; and since a window's token is spent when it is accepted,
each accepted token is at most the number of windows opened and not the open one
(`PairInv`). An ack that says yes follows from an accepted request, so a phone lists a
bridge only because of one. Per phone, `PairPhoneFits` holds the deadline and the authors.
`PairIsSound` is the part `PairSound` of the run's `PairingSound`; the other part is
about texts.

**Listener.** A count is decremented where a task ends, on several ways out, so exactness
needs to know which task holds what: `ListenInv` adds that the sockets are finitely many
(numbered up to `arrived`), each of a known host and at a known step of its task.
`TaskEnds`, `TaskGoesOn` and `Arrives` say what one task's end, step or arrival does to
the three cardinalities. That a change was signed in follows from the route alone, but the
route must look the browser up again after the body was read (`RequestIsRead`).

**Only model-checked**, and why:

* liveness (`live`, `sync_live`, `session_live`): fairness and ENABLED are out of the
  prover's reach;
* what folds and recursive definitions compute on inputs of every length (`Ranges`, the
  pairing link, the rows of `TranscriptView`, `Chunks`): induction over data;
* `Outbox`, `SessionKeys`, `Watching`, `Ingest`: their handlers are folds, filtered
  sequences and counts of sets, whose general facts need the same induction;
* `Backup`, `Chunks`, `Publisher`, `TranscriptView`, `Web`: they use RECURSIVE operators;
* `SessionLife`, `TerminalEngine`, `RelayPool`, `DirectLink` and the settings modules:
  no proof has been attempted.

## 7. Where code and text disagree

Two runs show the code doing other than a text in the repository says; both are in
`findings` with the words quoted.

* **A failed write costs a seq** (`transcript_write_error`, `SeqsUnique`).
  `Engine::append` sends an entry live when its append failed. After a restart the
  highest seq comes from the file, the next entry gets the same seq, and a phone that has
  the first refuses the second. The comment on seqs says "once, never renumbered".
* **A crash can run a command twice** (`ingest_replay`, `NeverTwice`). The id is queued
  for the writer thread, not on disk, when the command runs. The comment says "The id is
  durable before the command runs."

The modules also state sentences of the repository that TLC finds violated on the
instances of the runs, or on one more where the row names it. No run checks them there; to
see one, put it in the cfg of the run with the constant or scene the row gives.

| statement | run | what happens |
|---|---|---|
| `PrunedCounts` (`TranscriptSync`) | `sync_live` with `KeepLast = 1` | the coverage grows by the rows inserted, not by the range of the chunk, so with pruned seqs a sync is asked for again for ever |
| `SeqsUnique` (`BridgeTranscript`) | `transcript_write_error` with `Faults = {"bare"}` | a crash that writes a whole line but not its newline: `load` counts the line, the next one is written behind it, and the glued line does not parse at the next start, so both are gone and a published seq is given again |
| `NeverSilent` (`SessionLife`) | `session_live` | a creation is in memory until it is ready: a bridge that stops before tells the phone nothing, then or later |
| `SkippedLeftTheRing` (`MCTerminal`) | `terminal` | a replay has no id: after a detach the answer to an old one is taken for the new one, which is then dropped, and output the ring holds is not drawn |
| `OpenHasCard` (`SessionLife`) | `session_safe` | cards are in memory: after a crash a request in the transcript has neither a card nor a `resolved` entry |
| `AnsweredIsLeftAlone` (`Answers`) | `bridge` | giving up on a change that was answered also ends the spinner of a later change of the same target |
| `ListIsCurrent` (`Profiles`) | `bridge` | a fetch that is answered while a save is about to fail leaves the phone with a list that was undone, held as current |
| `StartsAgain` (`BridgeConfig`) | `bridge`, two edits together | two edits share one temporary file, and one of them may be cut off in the other's text |
| `HomeAsTold` (`BridgeShell`) | `bridge` | `unpair` gives the lock back before it reads and writes: a bridge started meanwhile has the phone paired and writes it back |
| `OwnerAlwaysDecides` (`TerminalAllow`) | `bridge` | two waiters find the same stale lock and the second removes the one the first has taken, or a holder is held up past `LOCK_STALE`: one edit is lost |
| `WithdrawnAlwaysOut` (`TerminalAllow`) | `bridge` | a list the watcher read waits in the queue while a command's check hands the engine a newer one, and then takes its place until the file changes again |
| `BudgetOnSum` (`DirectLink`) | `link` | a publish counts its frame as queued and as pending but checks it once, so the sum passes the cap by that frame |
| `OfferedArrives` (`Uploads`) | `access` | the phone offers files up to the cap, the bridge holds the encrypted body, 16 bytes longer, to the same cap: the largest go up as a blob and are refused |
| `LaterEditAlwaysWins` (`Backup`) | `access` | record and machines are written apart: after a crash in between an older value looks like a fresh edit and undoes a later one |
| `TiesAgree` (`Backup`) | `access` | of two saves of one second a relay may keep either, and each device may end with the other's |
| `KeyAlwaysRead` (`SessionKeys`) | `access` | a rotation that the bridge confirmed and lost in a crash: the phone has dropped the key the bridge is back to, and neither reads the other until the next key is due |
| `OldKeyNotWritten` (`SessionKeys`) | `access` | a command that was written with the old key and arrives late is answered to that key |
| `DeviceAgrees` (`SessionKeys`) | `access` | a grant sent with the identity key makes a second client with another device name for the same install |
| `CodesAgree` (`Web`) | `access` | of two codes that end at the same moment, page and engine may drop different ones at the cap |
| `ToldTheTruth` (`Web`) | `access` | a code pushed out by a newer browser while a phone confirms it: the phone is told it let the browser in |
| `MarkIsTold` (`ClientLoop`) | `phone` | the mark of a machine that speaks another version is persisted but flags no slice, and a read already answered does not have it |
| `DotIsTold` (`ClientLoop`) | `phone` | the arm that clears the unread dot flags no slice, so the screen keeps it until something else is told |
| `CacheExact` (`RowCache`) | `phone`, scene "async" | with a store that answers later, an insert and a read under way together leave a cache that lacks a row |
| `WatchAlwaysTold` (`Watching`) | `phone` | a reconnect forgets what was told: a machine left while the link was down streams on until the next renewal (`ViewsConverge`) |
| `DeletesKept` (`SessionList`) | `phone`, scene "late ready" | a `session-ready` older than the delete brings the session back |

Known from reading, or left out of a property by a history variable: an app that starts
again counts its terminal input from 1 although the bridge keeps its count (`lost` in
`TerminalEngine`: `TerminalSound` speaks of phones that kept theirs); a replay request
that is lost is not repeated until the terminal is shown anew; the delete of a
conversation is lost when the bridge stops with it waiting, or when the agent is not
installed as it is asked (`forgot` and `refused` in `SessionEngine`); a flood of more ids
than `MAX_PROCESSED_IDS` lets a replay run a command again (`flooded` in `Ingest`); a
browser that was signed out just before a crash may be signed in again, and a page's
config change that was routed is written although its browser signs out meanwhile; the
Qwen driver may run at the model's own effort when it does not have the one asked for,
which the transcript says and the record does not; a command under the identity key that
the pairing subscription hears first is marked and not run; an install begun while a
removal of the same agent waits loses its files to it.

## 8. What is not modelled

* Whole parts: folders and files of the workspace (file system calls without state of
  their own); settings, prompts and selection on the phone (values written whole by one
  handler each; that they are saved and shown is part of `ClientLoop`); wire formats and
  cryptography (messages are records); the agent drivers (`AgentHost` says what the host
  may rely on); the Android app and its generated bindings.
* The pump between bridge and host awaits its write to the host before it reads again.
  In `AgentHost` it reads and writes in separate steps, so a deadlock on two full pipes
  would not show. The two halves of removing an agent are one step.
* In the modelled parts: the read cache of the transcript store and the removal of a
  whole transcript; sessions removed during a sync; the version read and plugin requests
  of the host; window sizes, labels, recordings and the input queue of a stalled program
  of terminals; sockets, TLS, certificates and signatures, which succeed or fail as a
  whole; compression of chunks; HTML and headers of the web page; the wording of rows,
  notifications and lists. `PROJECT.json` says for each component what is left out.
* Two faults at once in the sync, session and terminal runs, for size.
