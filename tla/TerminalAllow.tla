---------------------------- MODULE TerminalAllow ----------------------------
(* Which devices may have a terminal.                                       *)
(*                                                                          *)
(* The owner approves and withdraws devices with the command line           *)
(* (bridge-runtime terminal_allow.rs, allow and disallow); the file they    *)
(* edit is re-read by the bridge when its stamp moves (Cache), handed to    *)
(* the engine (bridge-core engine/terminal.rs, on_terminal_allowlist), and  *)
(* written back by a thread that records the devices that were refused.     *)
(* Command line and thread share a lock file. A terminal is named by the    *)
(* device that opened it.                                                   *)
EXTENDS Integers, Sequences, FiniteSets

CONSTANTS
    AllowDevices,
    MaxPendingDevices,  \* MAX_PENDING_DEVICES
    LockWait,           \* LOCK_WAIT, in ticks
    LockStale,          \* LOCK_STALE, in ticks
    MaxAsked,           \* bound: refusals
    AllowScenes         \* [live: devices, edits, commands: bounds, may: what can happen]

VARIABLES
    allowScene,
    allowFile,       \* terminal-allow.json: [devices, pending, stamp]
    lockFile,   \* [held, age]
    cli, wr,    \* the command line's run and the writer thread
    toWriter,   \* the channel to the writer thread
    cache,      \* Cache::seen
    queue,      \* the runtime's inputs
    eng,        \* the engine: [devices, pending, live, open]; history: the stamp of the newest
                \* list it was given, and `behind`, it then took an older one
    opensAsked,      \* refusals so far: the clock of last_seen_ms
    edits, allowCommands,    \* counters, bounded
    owner,      \* history: the devices the owner approved and did not withdraw
    robbed      \* history: a lock was removed under the one that held it

allowVars == <<allowScene, allowFile, lockFile, cli, wr, toWriter, cache, queue, eng, opensAsked, edits,
               allowCommands, owner, robbed>>

AllowMay(x) == x \in allowScene.may
None == [d \in {} |-> 0]

----------------------------------------------------------------------------
(* The engine. Pending devices map to when they were last refused. *)

\* The newest entries of a pending list, up to the cap.
Newest(p) ==
    LET kept == { d \in DOMAIN p :
                    Cardinality({ e \in DOMAIN p : p[e] > p[d] }) < MaxPendingDevices }
    IN  [d \in kept |-> p[d]]

\* What the engine hands the writer: TerminalDevices.
Report(e) == [pending |-> e.pending, live |-> e.live]

note_pending(e, d) ==
    [e EXCEPT !.pending = Newest([x \in DOMAIN @ \cup {d} |-> IF x = d THEN opensAsked + 1 ELSE @[x]])]

\* Two pending lists as one: of two entries for a device the later stays.
MergePending(p, q) ==
    Newest([d \in DOMAIN p \cup DOMAIN q |->
              IF d \notin DOMAIN q THEN p[d]
              ELSE IF d \in DOMAIN p /\ p[d] >= q[d] THEN p[d] ELSE q[d]])

\* The terminals whose device is no longer approved end.
on_terminal_allowlist(e, list) ==
    [e EXCEPT !.devices = list.devices, !.pending = MergePending(list.pending, @),
              !.open = @ \cap list.devices,
              !.behind = list.stamp < e.newest, !.newest = IF list.stamp < @ THEN @ ELSE list.stamp]

Lists(f) == [devices |-> f.devices, pending |-> f.pending, stamp |-> f.stamp]

\* terminal-open: a device that is not approved is noted and reported.
on_terminal_open(e, d) ==
    IF d \in e.devices
    THEN eng' = [e EXCEPT !.open = @ \cup {d}] /\ UNCHANGED <<toWriter, opensAsked>>
    ELSE /\ eng' = note_pending(e, d)
         /\ toWriter' = Append(toWriter, Report(eng'))
         /\ opensAsked' = opensAsked + 1

\* The retention timer: devices no client is any more are forgotten, and
\* the file is to do the same.
forget_gone_devices ==
    LET e == [eng EXCEPT !.devices = @ \cap eng.live,
                         !.pending = [d \in DOMAIN @ \cap eng.live |-> @[d]]]
    IN
    /\ e # eng
    /\ eng' = e
    /\ toWriter' = Append(toWriter, Report(e))
    /\ UNCHANGED <<allowScene, allowFile, lockFile, cli, wr, cache, queue, opensAsked, edits, allowCommands, owner, robbed>>

\* A client is evicted or its keys lapse; its phone comes back as a new device.
ClientGone(d) ==
    /\ AllowMay("gone") /\ d \in eng.live
    /\ eng' = [eng EXCEPT !.live = @ \ {d}]
    /\ UNCHANGED <<allowScene, allowFile, lockFile, cli, wr, toWriter, cache, queue, opensAsked, edits, allowCommands, owner, robbed>>

\* A phone is granted a key: a device no client was before.
ClientJoins(d) ==
    /\ AllowMay("join") /\ d \notin eng.live
    /\ eng' = [eng EXCEPT !.live = @ \cup {d}]
    /\ UNCHANGED <<allowScene, allowFile, lockFile, cli, wr, toWriter, cache, queue, opensAsked, edits, allowCommands, owner, robbed>>

----------------------------------------------------------------------------
(* The runtime. *)

\* Cache::changed, as the engine is about to get a command: a file that moved
\* is read and handed over first.
Step(d) ==
    LET moved == cache # allowFile.stamp
        e == IF moved THEN on_terminal_allowlist(eng, Lists(allowFile)) ELSE eng
    IN  /\ cache' = allowFile.stamp
        /\ on_terminal_open(e, d)

\* A terminal command arrives, from a device that has a client, and waits its turn.
CommandArrives(d) ==
    /\ allowCommands < allowScene.commands /\ opensAsked < MaxAsked
    /\ allowCommands' = allowCommands + 1
    /\ d \in eng.live
    /\ queue' = Append(queue, [kind |-> "command", dev |-> d])
    /\ UNCHANGED <<allowScene, allowFile, lockFile, cli, wr, toWriter, cache, eng, opensAsked, edits, owner, robbed>>

\* watch_allowlist: the change is read now and handed over in its turn.
WatchTick ==
    /\ cache # allowFile.stamp
    /\ cache' = allowFile.stamp
    /\ queue' = Append(queue, [kind |-> "list", list |-> Lists(allowFile)])
    /\ UNCHANGED <<allowScene, allowFile, lockFile, cli, wr, toWriter, eng, opensAsked, edits, allowCommands, owner, robbed>>

RuntimeTakes ==
    /\ queue # <<>>
    /\ queue' = Tail(queue)
    /\ LET i == Head(queue) IN
       IF i.kind = "list"
       THEN eng' = on_terminal_allowlist(eng, i.list) /\ UNCHANGED <<cache, toWriter, opensAsked>>
       ELSE Step(i.dev)
    /\ UNCHANGED <<allowScene, allowFile, lockFile, cli, wr, edits, allowCommands, owner, robbed>>

\* The bridge stops and starts: the writer drains, the list is read anew.
BridgeRestarts ==
    /\ AllowMay("restart") /\ toWriter = <<>> /\ wr.phase = "idle"
    /\ cache' = allowFile.stamp
    /\ eng' = [eng EXCEPT !.devices = allowFile.devices, !.pending = allowFile.pending, !.open = {},
                         !.newest = allowFile.stamp, !.behind = FALSE]
    /\ queue' = <<>>
    /\ UNCHANGED <<allowScene, allowFile, lockFile, cli, wr, toWriter, opensAsked, edits, allowCommands, owner, robbed>>

----------------------------------------------------------------------------
(* The lock file, and the two that edit the list under it. A run is         *)
(* [phase, op, dev, list, waited]: it waits for the lock, holds it having   *)
(* read the file, and is idle again once it wrote.                          *)

Idle == [phase |-> "idle", op |-> "none", dev |-> "none", list |-> Lists([devices |-> {}, pending |-> None, stamp |-> 0]),
         waited |-> 0]
Waiting(op, d, report) == [Idle EXCEPT !.phase = "waiting", !.op = op, !.dev = d, !.list = report]

Free == ~ lockFile.held

\* Lock::acquire succeeding: the file is read under the lock.
Acquired(r) == [r EXCEPT !.phase = "holding", !.list = Lists(allowFile)]

Released == [held |-> FALSE, age |-> 0]
Taken == [held |-> TRUE, age |-> 0]

Write(list) == allowFile' = [devices |-> list.devices, pending |-> list.pending, stamp |-> allowFile.stamp + 1]

\* The owner runs `terminal allow` or `terminal disallow`.
CliStarts(op, d) ==
    /\ cli.phase \in {"idle", "dead"} /\ edits < allowScene.edits
    /\ edits' = edits + 1
    /\ cli' = Waiting(op, d, Idle.list)
    /\ UNCHANGED <<allowScene, allowFile, lockFile, wr, toWriter, cache, queue, eng, opensAsked, allowCommands, owner, robbed>>

CliLocks ==
    /\ cli.phase = "waiting" /\ Free
    /\ cli' = Acquired(cli)
    /\ lockFile' = Taken
    /\ UNCHANGED <<allowScene, allowFile, wr, toWriter, cache, queue, eng, opensAsked, edits, allowCommands, owner, robbed>>

\* allow: a device waiting for approval is moved to the approved ones.
allow(list, d) ==
    [devices |-> list.devices \cup {d},
     pending |-> [x \in DOMAIN list.pending \ {d} |-> list.pending[x]]]

\* disallow: an approved device is removed.
disallow(list, d) == [list EXCEPT !.devices = @ \ {d}]

\* What the command finds may leave nothing to do.
CliApplies ==
    \/ cli.op = "allow" /\ cli.dev \notin cli.list.devices /\ cli.dev \in DOMAIN cli.list.pending
    \/ cli.op = "disallow" /\ cli.dev \in cli.list.devices

CliWrites ==
    /\ cli.phase = "holding"
    /\ IF CliApplies
       THEN /\ Write(IF cli.op = "allow" THEN allow(cli.list, cli.dev) ELSE disallow(cli.list, cli.dev))
            /\ owner' = IF cli.op = "allow" THEN owner \cup {cli.dev} ELSE owner \ {cli.dev}
       ELSE UNCHANGED <<allowFile, owner>>
    /\ cli' = Idle
    /\ lockFile' = Released
    /\ UNCHANGED <<allowScene, wr, toWriter, cache, queue, eng, opensAsked, edits, allowCommands, robbed>>

\* The command line dies with the lock held: its file stays.
CliDies ==
    /\ AllowMay("die") /\ cli.phase = "holding"
    /\ cli' = [Idle EXCEPT !.phase = "dead"]
    /\ UNCHANGED <<allowScene, allowFile, lockFile, wr, toWriter, cache, queue, eng, opensAsked, edits, allowCommands, owner, robbed>>

\* writer_loop: the newest report, then the lock.
WriterTakes ==
    /\ wr.phase = "idle" /\ toWriter # <<>>
    /\ wr' = [Waiting("report", "none", Idle.list) EXCEPT !.dev = toWriter[Len(toWriter)]]
    /\ toWriter' = <<>>
    /\ UNCHANGED <<allowScene, allowFile, lockFile, cli, cache, queue, eng, opensAsked, edits, allowCommands, owner, robbed>>

WriterLocks ==
    /\ wr.phase = "waiting" /\ Free
    /\ wr' = Acquired(wr)
    /\ lockFile' = Taken
    /\ UNCHANGED <<allowScene, allowFile, cli, toWriter, cache, queue, eng, opensAsked, edits, allowCommands, owner, robbed>>

\* Mutant: the approved devices are the ones a client is now.
MergeAll(list, report) == [devices |-> report.live, pending |-> report.pending]

merge(list, report) == [devices |-> list.devices \cap report.live, pending |-> report.pending]

WriterWrites ==
    /\ wr.phase = "holding"
    /\ Write(merge(wr.list, wr.dev))
    /\ wr' = Idle
    /\ lockFile' = Released
    /\ UNCHANGED <<allowScene, cli, toWriter, cache, queue, eng, opensAsked, edits, allowCommands, owner, robbed>>

\* A waiter gives up, and what the thread was to write is lost. A run needs the
\* lock for less than a tick, unless something holds it up.
LockTimes ==
    /\ lockFile.held /\ lockFile.age < LockStale
    /\ AllowMay("slow") \/ (cli.phase # "holding" /\ wr.phase # "holding")
    /\ lockFile' = [lockFile EXCEPT !.age = @ + 1]
    /\ wr' = IF wr.phase # "waiting" THEN wr
             ELSE IF wr.waited >= LockWait THEN Idle ELSE [wr EXCEPT !.waited = @ + 1]
    /\ cli' = IF cli.phase # "waiting" THEN cli
              ELSE IF cli.waited >= LockWait THEN Idle ELSE [cli EXCEPT !.waited = @ + 1]
    /\ UNCHANGED <<allowScene, allowFile, toWriter, cache, queue, eng, opensAsked, edits, allowCommands, owner, robbed>>

\* stale: a waiter finds the lock old enough to be a dead run's ...
FindsStale ==
    /\ lockFile.held /\ lockFile.age >= LockStale
    /\ \/ wr.phase = "waiting" /\ wr' = [wr EXCEPT !.phase = "stealing"] /\ UNCHANGED cli
       \/ cli.phase = "waiting" /\ cli' = [cli EXCEPT !.phase = "stealing"] /\ UNCHANGED wr
    /\ UNCHANGED <<allowScene, allowFile, lockFile, toWriter, cache, queue, eng, opensAsked, edits, allowCommands, owner, robbed>>

\* ... and removes whatever lock file is there by then, and tries again.
LockStolen ==
    /\ \/ wr.phase = "stealing" /\ wr' = [wr EXCEPT !.phase = "waiting"] /\ UNCHANGED cli
       \/ cli.phase = "stealing" /\ cli' = [cli EXCEPT !.phase = "waiting"] /\ UNCHANGED wr
    /\ lockFile' = Released
    /\ robbed' = (robbed \/ (lockFile.held /\ "holding" \in {cli.phase, wr.phase}))
    /\ UNCHANGED <<allowScene, allowFile, toWriter, cache, queue, eng, opensAsked, edits, allowCommands, owner>>

----------------------------------------------------------------------------

AllowInit ==
    /\ allowScene \in AllowScenes
    /\ allowFile = [devices |-> {}, pending |-> None, stamp |-> 0]
    /\ lockFile = Released
    /\ cli = Idle /\ wr = Idle /\ toWriter = <<>>
    /\ cache = 0 /\ queue = <<>>
    /\ eng = [devices |-> {}, pending |-> None, live |-> allowScene.live, open |-> {},
              newest |-> 0, behind |-> FALSE]
    /\ opensAsked = 0 /\ edits = 0 /\ allowCommands = 0
    /\ owner = {} /\ robbed = FALSE

AllowNext ==
    \/ \E d \in AllowDevices :
         CommandArrives(d) \/ ClientGone(d) \/ ClientJoins(d) \/ CliStarts("allow", d) \/ CliStarts("disallow", d)
    \/ forget_gone_devices
    \/ WatchTick \/ RuntimeTakes \/ BridgeRestarts
    \/ CliLocks \/ CliWrites \/ CliDies
    \/ WriterTakes \/ WriterLocks \/ WriterWrites \/ LockTimes \/ FindsStale \/ LockStolen

AllowSpec == AllowInit /\ [][AllowNext]_allowVars

----------------------------------------------------------------------------

\* "All under the lock, so the CLI editing the file at the same moment cannot lose
\* this write (nor this one the CLI's)": every device the owner approved that is still
\* one of a client is in the file, and none they withdrew.  In no run: a waiter that
\* found a stale lock removes the one a second waiter has taken in between, and a
\* holder held up for LOCK_STALE loses its own; both then write what they read.
OwnerAlwaysDecides ==
    /\ allowFile.devices \subseteq owner
    /\ owner \cap eng.live \subseteq allowFile.devices

\* The file says what the owner decided, whatever the writer thread recorded between
\* their edits, as long as no lock was removed under its holder.
OwnerDecides == ~ robbed => OwnerAlwaysDecides

\* "`terminal disallow` then takes effect on the very next command": when the bridge
\* has read the file as it is and has nothing left to take in, the engine's approved
\* devices are the file's, and no terminal is left to a device that is not one of
\* them.  In no run: a list the watcher read waits in the queue while a command's
\* check hands the engine a newer one, and then takes its place.
WithdrawnAlwaysOut ==
    cache = allowFile.stamp /\ queue = <<>>
        => /\ eng.devices \subseteq allowFile.devices
           /\ allowFile.devices \cap eng.live \subseteq eng.devices
           /\ eng.open \cap eng.live \subseteq eng.devices

\* The same, unless the last list the engine took was older than one it had.
WithdrawnIsOut == ~ eng.behind => WithdrawnAlwaysOut

\* The terminal allowlist is the owner's: a device is on it by the owner's word
\* only, and one that was withdrawn has no terminal, but for a lock removed under its
\* holder and a list overtaken by a newer one.
AllowSound == OwnerDecides /\ WithdrawnIsOut
============================================================================
