----------------------------- MODULE BridgeShell -----------------------------
(***************************************************************************)
(* The bridge as processes on one machine: `run`, `pair` and `unpair` on   *)
(* one home directory, with its lock, its state file (written by a thread  *)
(* of each process) and the identity kept in it; and inside a run the loop *)
(* that feeds the engine one input at a time and carries out its effects,  *)
(* from the pairing window it keeps open to the stop.  A process may be    *)
(* killed anywhere and the disk may fail.                                  *)
(***************************************************************************)
EXTENDS Naturals, Sequences, FiniteSets, SequencesExt

CONSTANTS ShellScenes,   \* records: the commands run one after another, and the faults that may happen
          MaxWindows,    \* bound: pairing windows one run opens
          MaxFaults      \* bound: kills and failed writes in all

VARIABLES
  shellScene,
  lock,       \* the process holding bridge.lock, 0 for none
  disk,       \* what state.json holds
  procs,      \* the processes alive: pid -> Proc
  launched,   \* how many of the scene's commands have been started
  faults,
  known,      \* identities some process has shown as the bridge's (history)
  homeTold,   \* what the operator was last told of the phone: "", "paired", "unpaired" (history)
  shared      \* two processes had the state file open at once (history)

shellVars == <<shellScene, lock, disk, procs, launched, faults, known, homeTold, shared>>

Doc(identity, paired) == [identity |-> identity, paired |-> paired]
\* The engine as far as the shell sees it.
Engine0 == [stopped |-> FALSE, paired |-> FALSE, window |-> 0, opened |-> 0, timers |-> {}]
Proc(cmd) == [cmd |-> cmd, step |-> "begin", doc |-> Doc(0, FALSE), unsaved |-> FALSE, engine |-> Engine0,
              inputs |-> <<>>, tasks |-> {}, hostUp |-> FALSE, outbox |-> 0, outcome |-> "Stopped"]
ShellMay(fault) == fault \in shellScene.may

CommandIs(pid, cmds, step) == pid \in DOMAIN procs /\ procs[pid].cmd \in cmds /\ procs[pid].step = step
Runs == {"run", "pair"}
Become(pid, proc) == procs' = [procs EXCEPT ![pid] = proc]
Ends(pid) ==
  /\ procs' = [p \in DOMAIN procs \ {pid} |-> procs[p]]
  /\ lock' = IF lock = pid THEN 0 ELSE lock

ShellInit ==
  /\ shellScene \in ShellScenes
  /\ lock = 0 /\ disk = Doc(0, FALSE) /\ procs = << >> /\ launched = 0 /\ faults = 0
  /\ known = {} /\ homeTold = "" /\ shared = FALSE

\* main: the next command is started; a bridge serves until it is stopped.
Launch ==
  /\ launched < Len(shellScene.commands)
  /\ procs = << >> \/ ShellMay("overlap")
  /\ launched' = launched + 1
  /\ procs' = [p \in DOMAIN procs \cup {launched'} |-> IF p = launched' THEN Proc(shellScene.commands[p]) ELSE procs[p]]
  /\ UNCHANGED <<shellScene, lock, disk, faults, known, homeTold, shared>>

-----------------------------------------------------------------------------
(* serve: the lock, the state file, the identity. *)

acquire_lock(pid) ==
  /\ CommandIs(pid, Runs, "begin")
  /\ IF lock = 0
     THEN lock' = pid /\ Become(pid, [procs[pid] EXCEPT !.step = "open"])
     ELSE Ends(pid)
  /\ UNCHANGED <<shellScene, disk, launched, faults, known, homeTold, shared>>
\* A process that has read the state file and may write it.
HasState(p) == procs[p].step \notin {"begin", "looking", "open"}
Open(pid) ==
  /\ CommandIs(pid, Runs \cup {"unpair"}, "open")
  /\ Become(pid, [procs[pid] EXCEPT !.step = "opened", !.doc = disk])
  /\ shared' = (shared \/ \E p \in DOMAIN procs : HasState(p))
  /\ UNCHANGED <<shellScene, lock, disk, launched, faults, known, homeTold>>
\* The identity, made and written before it is used; a failed write ends it.
identity(pid) ==
  /\ CommandIs(pid, Runs, "opened")
  /\ IF procs[pid].doc.identity # 0
     THEN /\ Become(pid, [procs[pid] EXCEPT !.step = "start"])
          /\ known' = known \cup {procs[pid].doc.identity} /\ UNCHANGED <<disk, lock>>
     ELSE \/ /\ disk' = [procs[pid].doc EXCEPT !.identity = pid]
             /\ Become(pid, [procs[pid] EXCEPT !.step = "start", !.doc.identity = pid])
             /\ known' = known \cup {pid} /\ UNCHANGED lock
          \/ ShellMay("disk") /\ Ends(pid) /\ UNCHANGED <<disk, known>>
  /\ UNCHANGED <<shellScene, launched, faults, homeTold, shared>>

-----------------------------------------------------------------------------
(* The runtime's loop. *)

OpenPairing == [kind |-> "OpenPairing", id |-> 0]
Timer(id) == [kind |-> "Timer", id |-> id]
PairRequest(window) == [kind |-> "PairRequest", id |-> window]
Shutdown == [kind |-> "Shutdown", id |-> 0]

\* Everything is started, the engine loads its state, and a bridge with no
\* phone (or asked to pair) opens a window.
RunBridge(pid) ==
  /\ CommandIs(pid, Runs, "start")
  /\ LET paired == procs[pid].doc.paired
     IN Become(pid, [procs[pid] EXCEPT !.step = "loop", !.hostUp = TRUE, !.engine.paired = paired,
          !.inputs = IF @ = <<>> /\ (procs[pid].cmd = "pair" \/ ~paired) THEN <<OpenPairing>> ELSE @])
  /\ UNCHANGED <<shellScene, lock, disk, launched, faults, known, homeTold, shared>>

\* `run` and `pair` up to the loop, each step ending the process if it fails.
serve(pid) == acquire_lock(pid) \/ Open(pid) \/ identity(pid) \/ RunBridge(pid)

\* What the engine asks of the runtime.
Effect(kind, arg) == [kind |-> kind, arg |-> arg]
Said(engine, effects) == [engine |-> engine, effects |-> effects]
set_timer(engine, id) == Said([engine EXCEPT !.timers = @ \cup {id}], <<Effect("SetTimer", id)>>)
cancel_timer(engine, id) ==
  Said([engine EXCEPT !.timers = @ \ {id}], IF id \in engine.timers THEN <<Effect("CancelTimer", id)>> ELSE <<>>)

\* The window is closed for `reason` if one is open, and a new one replaces it.
close_pairing(engine, reason) ==
  IF engine.window = 0 THEN Said(engine, <<>>)
  ELSE LET c == cancel_timer([engine EXCEPT !.window = 0], engine.window)
       IN Said(c.engine, Append(c.effects, Effect("PairingClosed", reason)))
open_pairing(engine) ==
  LET c == close_pairing(engine, "Closed")
      t == set_timer([c.engine EXCEPT !.window = engine.opened + 1, !.opened = @ + 1], engine.opened + 1)
  IN Said(t.engine, c.effects \o t.effects)

\* The engine's answer to one input; a stopped one answers nothing, and a
\* timer it cancelled is not its timer any more.
handle(engine, input) ==
  IF engine.stopped THEN Said(engine, <<>>) ELSE
  CASE input.kind = "OpenPairing" -> open_pairing(engine)
    [] input.kind = "Timer" ->
         IF input.id \notin engine.timers THEN Said(engine, <<>>)
         ELSE close_pairing([engine EXCEPT !.timers = @ \ {input.id}], "Expired")
    [] input.kind = "PairRequest" ->
         IF engine.window # input.id THEN Said(engine, <<Effect("Publish", "pair-nack")>>)
         ELSE LET c == close_pairing(engine, "Paired")
              IN Said([c.engine EXCEPT !.paired = TRUE], Append(c.effects, Effect("Publish", "pair-ack")))
    [] input.kind = "Shutdown" ->
         LET c == close_pairing(engine, "Closed")
         IN Said([c.engine EXCEPT !.stopped = TRUE], c.effects \o <<Effect("Publish", "sessions"), Effect("Stopped", 0)>>)

\* The pairing window closed, for the operator: a run keeps one open while no
\* phone is paired, `pair` stops with the outcome.
pairing_closed(proc, reason) ==
  IF proc.cmd = "pair"
  THEN [proc EXCEPT !.outcome = IF reason = "Paired" THEN "Paired" ELSE "PairingFailed", !.inputs = Append(@, Shutdown)]
  ELSE IF reason = "Expired" /\ ~proc.engine.paired THEN [proc EXCEPT !.inputs = Append(@, OpenPairing)]
  ELSE proc

\* One effect carried out.
execute(proc, effect) ==
  CASE effect.kind = "SetTimer" -> [proc EXCEPT !.tasks = @ \cup {effect.arg}]
    [] effect.kind = "CancelTimer" -> [proc EXCEPT !.tasks = @ \ {effect.arg}]
    [] effect.kind = "Publish" -> [proc EXCEPT !.outbox = @ + 1]
    [] effect.kind = "PairingClosed" -> pairing_closed(proc, effect.arg)
    [] effect.kind = "Stopped" -> [proc EXCEPT !.step = "stopping"]

\* One input: a fired timer's handle is dropped, the engine handles it (and
\* hands its store what it changed) and its effects are carried out in order.
dispatch(proc, input) ==
  LET s == handle(proc.engine, input)
      handled == [proc EXCEPT !.engine = s.engine, !.tasks = IF input.kind = "Timer" THEN @ \ {input.id} ELSE @,
                    !.doc.paired = s.engine.paired, !.unsaved = @ \/ s.engine.stopped \/ s.engine.paired # proc.engine.paired]
  IN FoldLeft(execute, handled, s.effects)
ShellStep(pid) ==
  /\ CommandIs(pid, Runs, "loop") /\ procs[pid].inputs # <<>>
  /\ LET after == dispatch([procs[pid] EXCEPT !.inputs = Tail(@)], Head(procs[pid].inputs))
     IN /\ Become(pid, after)
        /\ homeTold' = IF after.engine.paired /\ ~procs[pid].engine.paired THEN "paired" ELSE homeTold
  /\ UNCHANGED <<shellScene, lock, disk, launched, faults, known, shared>>

\* What reaches the loop: a timer's task, a phone's pair-request for the
\* window it saw, a signal.
Room1(pid) == Len(procs[pid].inputs) < 2
TaskFires(pid, id) ==
  /\ CommandIs(pid, Runs, "loop") /\ id \in procs[pid].tasks /\ Room1(pid)
  /\ procs[pid].engine.opened < MaxWindows
  /\ Become(pid, [procs[pid] EXCEPT !.inputs = Append(@, Timer(id)), !.tasks = @ \ {id}])
  /\ UNCHANGED <<shellScene, lock, disk, launched, faults, known, homeTold, shared>>
PhoneAsks(pid, window) ==
  /\ CommandIs(pid, Runs, "loop") /\ Room1(pid) /\ window \in 1..procs[pid].engine.opened
  /\ procs[pid].outbox < MaxWindows   \* bound: requests one run answers
  /\ Become(pid, [procs[pid] EXCEPT !.inputs = Append(@, PairRequest(window))])
  /\ UNCHANGED <<shellScene, lock, disk, launched, faults, known, homeTold, shared>>
watch_signals(pid) ==
  /\ CommandIs(pid, Runs, "loop") /\ Room1(pid)
  /\ Shutdown \notin {procs[pid].inputs[i] : i \in DOMAIN procs[pid].inputs}
  /\ Become(pid, [procs[pid] EXCEPT !.inputs = Append(@, Shutdown)])
  /\ UNCHANGED <<shellScene, lock, disk, launched, faults, known, homeTold, shared>>

\* Stopped: what was published still goes out, the host is stopped, and the
\* state's writer is joined before the process exits.
RelaysFlushed(pid) ==
  /\ CommandIs(pid, Runs, "stopping")
  /\ Become(pid, [procs[pid] EXCEPT !.step = "dropping", !.outbox = 0, !.hostUp = FALSE, !.tasks = {}, !.inputs = <<>>])
  /\ UNCHANGED <<shellScene, lock, disk, launched, faults, known, homeTold, shared>>
\* Mutant: the process does not wait for its writer.
WriterNotJoined(pid) ==
  /\ CommandIs(pid, Runs \cup {"unpair"}, "dropping") /\ Ends(pid)
  /\ UNCHANGED <<shellScene, disk, launched, faults, known, homeTold, shared>>
WriterJoined(pid) ==
  /\ CommandIs(pid, Runs \cup {"unpair"}, "dropping") /\ ~procs[pid].unsaved /\ Ends(pid)
  /\ UNCHANGED <<shellScene, disk, launched, faults, known, homeTold, shared>>

\* The writer thread writes the newest state, or gives it up after its retries.
Writes(pid) ==
  /\ pid \in DOMAIN procs /\ procs[pid].unsaved
  /\ disk' = procs[pid].doc
  /\ Become(pid, [procs[pid] EXCEPT !.unsaved = FALSE])
  /\ UNCHANGED <<shellScene, lock, launched, faults, known, homeTold, shared>>
WriteGivenUp(pid) ==
  /\ ShellMay("disk") /\ faults < MaxFaults
  /\ pid \in DOMAIN procs /\ procs[pid].unsaved
  /\ Become(pid, [procs[pid] EXCEPT !.unsaved = FALSE])
  /\ faults' = faults + 1
  /\ UNCHANGED <<shellScene, lock, disk, launched, known, homeTold, shared>>
Killed(pid) ==
  /\ ShellMay("kill") /\ faults < MaxFaults /\ pid \in DOMAIN procs
  /\ Ends(pid) /\ faults' = faults + 1
  /\ UNCHANGED <<shellScene, disk, launched, known, homeTold, shared>>

-----------------------------------------------------------------------------
(* unpair: only while no bridge holds the lock, which it takes to look and gives back. *)

lock_holder(pid) ==
  /\ CommandIs(pid, {"unpair"}, "begin")
  /\ IF lock = 0 THEN lock' = pid /\ Become(pid, [procs[pid] EXCEPT !.step = "looking"]) ELSE Ends(pid)
  /\ UNCHANGED <<shellScene, disk, launched, faults, known, homeTold, shared>>
LockGivenBack(pid) ==
  /\ CommandIs(pid, {"unpair"}, "looking")
  /\ lock' = 0 /\ Become(pid, [procs[pid] EXCEPT !.step = "open"])
  /\ UNCHANGED <<shellScene, disk, launched, faults, known, homeTold, shared>>
unpair(pid) ==
  /\ CommandIs(pid, {"unpair"}, "opened")
  /\ IF procs[pid].doc.paired
     THEN /\ Become(pid, [procs[pid] EXCEPT !.step = "dropping", !.doc.paired = FALSE, !.unsaved = TRUE])
          /\ homeTold' = "unpaired" /\ UNCHANGED lock
     ELSE Ends(pid) /\ UNCHANGED homeTold
  /\ UNCHANGED <<shellScene, disk, launched, faults, known, shared>>

ShellNext ==
  \/ Launch
  \/ \E pid \in DOMAIN procs :
       \/ serve(pid) \/ ShellStep(pid)
       \/ (\E id \in procs[pid].tasks : TaskFires(pid, id)) \/ (\E w \in 1..MaxWindows : PhoneAsks(pid, w))
       \/ watch_signals(pid) \/ RelaysFlushed(pid) \/ WriterJoined(pid)
       \/ Writes(pid) \/ WriteGivenUp(pid) \/ Killed(pid)
       \/ lock_holder(pid) \/ LockGivenBack(pid) \/ unpair(pid)
ShellSpec == ShellInit /\ [][ShellNext]_shellVars

-----------------------------------------------------------------------------
\* "a bridge is running and owns the state file. Stop it first, then unpair": once no
\* process is left, the file says of the phone what the operator was last told, if
\* the disk worked and nothing was killed.  In no run: `unpair` does not keep the lock
\* it looks at, so a bridge started meanwhile reads the phone as paired and writes it
\* back.
HomeAsTold == (procs = << >> /\ faults = 0 /\ homeTold # "") => disk.paired = (homeTold = "paired")

\* The bridge is one identity for good: every process on the home that got as
\* far as using one used the same, whatever was killed or failed to be written
\* before. And the file says what the operator was told, as long as no bridge read
\* it while an `unpair` had it open, or the other way round.
HomeAgrees ==
  /\ Cardinality(known) <= 1
  /\ known # {} => disk.identity \in known
  /\ ~shared => HomeAsTold

\* "while none is paired, keep a pairing window open": a run with no phone has
\* a window open or is about to open one, and its expiry is still to come; a
\* `pair` that ended well did pair.
WindowKept ==
  \A pid \in DOMAIN procs :
    LET p == procs[pid] IN
    /\ (p.cmd = "run" /\ p.step = "loop" /\ ~p.engine.paired) =>
         \/ p.engine.window # 0 /\ (p.engine.window \in p.tasks \/ \E i \in DOMAIN p.inputs : p.inputs[i] = Timer(p.engine.window))
         \/ \E i \in DOMAIN p.inputs : p.inputs[i] = OpenPairing
    /\ (p.cmd = "pair" /\ p.step \in {"stopping", "dropping"} /\ p.outcome = "Paired") => p.doc.paired

\* The bridge's home: the commands and the running bridge agree on it, and a
\* pairing window shown is one that is open.
HomeSound == HomeAgrees /\ WindowKept
=============================================================================
