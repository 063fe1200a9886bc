----------------------------- MODULE ScreenProofs ---------------------------
(***************************************************************************)
(* Proofs about what the phone shows: what changed is told to the screens  *)
(* and saved (ClientLoop), and the session on screen is clean (Attention). *)
(***************************************************************************)
EXTENDS Attention, ClientLoop, TLAPS

(***************************************************************************)
(* LoopSound for every choice of handlers and screens.  The loop's part of *)
(* the argument is a fact about each handler: what it changes it flags, or *)
(* persists, or leaves untold; and what it changes of a store it persists. *)
(***************************************************************************)

\* The slices a handler tells of a change of the part p.
Tells(arm, p) == {slice_of[x] : x \in arm.saves} \cup SlicesOf({p} \cap arm.flags)

ArmSound(arm) ==
  /\ arm.saves \subseteq DOMAIN StoreParts
  /\ \A p \in arm.changes \ Untold, s \in Slices : p \in SliceParts[s] => s \in Tells(arm, p)
  /\ \A p \in arm.changes \cap Persisted : p = "seen" \/ \E x \in arm.saves : p \in StoreParts[x]

\* Where the parts a handler may leave unflagged are shown, and where each
\* persisted part is stored.
LEMMA Homes ==
  /\ \A s \in Slices : "sessions" \in SliceParts[s] \/ "answers" \in SliceParts[s] \/ "styles" \in SliceParts[s] => s = "Machines"
  /\ \A s \in Slices : "outbox" \in SliceParts[s] => s = "Outbox"
  /\ \A s \in Slices : "prompts" \in SliceParts[s] => s = "QuickPrompts"
  /\ \A s \in Slices : "settings" \in SliceParts[s] \/ "backup" \in SliceParts[s] => s = "Settings"
  /\ \A s \in Slices : "seen" \notin SliceParts[s]
BY DEF Slices, SliceParts, MachinesParts, SettingsParts, PairingParts, UiParts, TranscriptParts

\* The slice each store tells of (slice_of).
LEMMA StoreSlices ==
  /\ slice_of["Machines"] = "Machines" /\ slice_of["AgentStyles"] = "Machines" /\ slice_of["Outbox"] = "Outbox"
  /\ slice_of["Settings"] = "Settings" /\ slice_of["QuickPrompts"] = "QuickPrompts" /\ slice_of["Backup"] = "Settings"
BY DEF slice_of

\* The parts each store holds.
LEMMA StoreHomes ==
  /\ DOMAIN StoreParts = {"Machines", "AgentStyles", "Outbox", "Settings", "QuickPrompts", "Backup"}
  /\ StoreParts["Machines"] = {"sessions", "grants"} /\ StoreParts["AgentStyles"] = {"styles"} /\ StoreParts["Outbox"] = {"outbox"}
  /\ StoreParts["Settings"] = {"settings"} /\ StoreParts["QuickPrompts"] = {"prompts"} /\ StoreParts["Backup"] = {"backup"}
BY DEF StoreParts

\* The parts the disk has a copy of.
LEMMA PersistedParts == Persisted = {"sessions", "grants", "styles", "outbox", "settings", "prompts", "backup", "seen"}
<1>1. \A p : p \in Persisted <=> p = "seen" \/ \E x \in DOMAIN StoreParts : p \in StoreParts[x]
  BY DEF Persisted
<1>. QED  BY <1>1, StoreHomes

\* Handlers that change, save and flag the same parts are sound together.
LEMMA ArmsSound ==
  ASSUME NEW kinds, NEW changes, NEW saves, NEW flags,
         saves \subseteq DOMAIN StoreParts,
         \A p \in (changes \ Untold) \ flags : \A s \in Slices : p \in SliceParts[s] => \E x \in saves : s = slice_of[x],
         \A p \in changes \cap Persisted : p = "seen" \/ \E x \in saves : p \in StoreParts[x]
  PROVE  \A arm \in Arms(kinds, changes, saves, flags) : ArmSound(arm)
<1>. SUFFICES ASSUME NEW arm, arm.changes = changes, arm.saves = saves, arm.flags = flags  PROVE ArmSound(arm)
  BY DEF Arms
<1>1. ASSUME NEW p \in changes \ Untold, NEW s \in Slices, p \in SliceParts[s]  PROVE s \in Tells(arm, p)
  BY <1>1 DEF Tells, SlicesOf
<1>. QED  BY <1>1 DEF ArmSound

\* Each family of handlers is sound: the messages of a bridge,
LEMMA LifecycleSound == \A arm \in LifecycleArms : ArmSound(arm)
<1>1. ASSUME NEW kinds  PROVE \A arm \in Arms(kinds, {"pending"}, {}, {"pending"}) : ArmSound(arm)
  BY ArmsSound, StoreHomes, PersistedParts
<1>2. ASSUME NEW kinds  PROVE \A arm \in Arms(kinds, {"pending", "sessions"}, {"Machines"}, {"pending"}) : ArmSound(arm)
  BY ArmsSound, Homes, StoreSlices, StoreHomes, PersistedParts
<1>. QED  BY <1>1, <1>2 DEF LifecycleArms

(* Every arm of PairAckArm tells and saves what it changed. *)
LEMMA PairAckSound == \A arm \in PairAckArm : ArmSound(arm)
<1>1. ASSUME NEW kinds  PROVE \A arm \in Arms(kinds, {"pairing", "sessions"}, {"Machines"}, {"pairing"}) : ArmSound(arm)
  BY ArmsSound, Homes, StoreSlices, StoreHomes, PersistedParts
<1>. QED  BY <1>1 DEF PairAckArm

(* Every arm of CloseAckArm tells and saves what it changed. *)
LEMMA CloseAckSound == \A arm \in CloseAckArm : ArmSound(arm)
<1>1. ASSUME NEW kinds  PROVE \A arm \in Arms(kinds, {"sessions", "rows", "sync", "ui", "outbox"}, {"Machines", "Outbox"}, {"rows", "sync", "ui"}) : ArmSound(arm)
  BY ArmsSound, Homes, StoreSlices, StoreHomes, PersistedParts DEF Untold
<1>. QED  BY <1>1 DEF CloseAckArm

(* Every arm of ListArm tells and saves what it changed. *)
LEMMA ListSound == \A arm \in ListArm : ArmSound(arm)
<1>1. ASSUME NEW kinds  PROVE \A arm \in Arms(kinds, {"sessions", "answers", "ui", "rows", "sync", "pending", "outbox"}, {"Machines", "Outbox"}, {"ui", "rows", "pending"}) : ArmSound(arm)
  BY ArmsSound, Homes, StoreSlices, StoreHomes, PersistedParts DEF Untold
<1>. QED  BY <1>1 DEF ListArm

(* Every arm of OutputArm tells and saves what it changed. *)
LEMMA OutputSound == \A arm \in OutputArm : ArmSound(arm)
<1>1. ASSUME NEW kinds  PROVE \A arm \in Arms(kinds, {"rows", "sync", "ui", "dot"}, {}, {"rows", "sync", "ui"}) : ArmSound(arm)
  BY ArmsSound, StoreHomes, PersistedParts DEF Untold
<1>. QED  BY <1>1 DEF OutputArm

(* Every arm of SyncArms tells and saves what it changed. *)
LEMMA SyncSound == \A arm \in SyncArms : ArmSound(arm)
<1>1. ASSUME NEW kinds  PROVE \A arm \in Arms(kinds, {"sync"}, {}, {}) : ArmSound(arm)
  BY ArmsSound, StoreHomes, PersistedParts DEF Untold
<1>2. ASSUME NEW kinds  PROVE \A arm \in Arms(kinds, {"rows", "sync"}, {}, {"rows", "sync"}) : ArmSound(arm)
  BY ArmsSound, StoreHomes, PersistedParts DEF Untold
<1>. QED  BY <1>1, <1>2 DEF SyncArms

(* Every arm of InputArms tells and saves what it changed. *)
LEMMA InputSound == \A arm \in InputArms : ArmSound(arm)
<1>1. ASSUME NEW kinds  PROVE \A arm \in Arms(kinds, {"outbox"}, {"Outbox"}, {}) : ArmSound(arm)
  BY ArmsSound, Homes, StoreSlices, StoreHomes, PersistedParts
<1>. QED  BY <1>1 DEF InputArms

(* Every arm of MachineArms tells and saves what it changed. *)
LEMMA MachineSound == \A arm \in MachineArms : ArmSound(arm)
<1>1. ASSUME NEW kinds  PROVE \A arm \in Arms(kinds, {"styles"}, {"AgentStyles"}, {}) : ArmSound(arm)
  BY ArmsSound, Homes, StoreSlices, StoreHomes, PersistedParts
<1>2. ASSUME NEW kinds  PROVE \A arm \in Arms(kinds, {"sessions", "answers"}, {"Machines"}, {}) : ArmSound(arm)
  BY ArmsSound, Homes, StoreSlices, StoreHomes, PersistedParts
<1>. QED  BY <1>1, <1>2 DEF MachineArms

(* Every arm of ConfirmArms tells and saves what it changed. *)
LEMMA ConfirmSound == \A arm \in ConfirmArms : ArmSound(arm)
<1>1. ASSUME NEW kinds  PROVE \A arm \in Arms(kinds, {"sessions"}, {"Machines"}, {}) : ArmSound(arm)
  BY ArmsSound, Homes, StoreSlices, StoreHomes, PersistedParts
<1>2. ASSUME NEW kinds  PROVE \A arm \in Arms(kinds, {"answers"}, {"Machines"}, {}) : ArmSound(arm)
  BY ArmsSound, Homes, StoreSlices, StoreHomes, PersistedParts
<1>. QED  BY <1>1, <1>2 DEF ConfirmArms

(* Every arm of AckArms tells and saves what it changed. *)
LEMMA AckSound == \A arm \in AckArms : ArmSound(arm)
<1>1. ASSUME NEW kinds  PROVE \A arm \in Arms(kinds, {"ui", "sessions"}, {"Machines"}, {"ui"}) : ArmSound(arm)
  BY ArmsSound, Homes, StoreSlices, StoreHomes, PersistedParts
<1>2. ASSUME NEW kinds  PROVE \A arm \in Arms(kinds, {"ui"}, {}, {"ui"}) : ArmSound(arm)
  BY ArmsSound, StoreHomes, PersistedParts
<1>. QED  BY <1>1, <1>2 DEF AckArms

(* Every arm of TerminalArms tells and saves what it changed. *)
LEMMA TerminalArmsSound == \A arm \in TerminalArms : ArmSound(arm)
<1>1. ASSUME NEW kinds  PROVE \A arm \in Arms(kinds, {"ui"}, {}, {"ui"}) : ArmSound(arm)
  BY ArmsSound, StoreHomes, PersistedParts
<1>2. ASSUME NEW kinds  PROVE \A arm \in Arms(kinds, {"typed"}, {}, {}) : ArmSound(arm)
  BY ArmsSound, StoreHomes, PersistedParts DEF Untold
<1>. QED  BY <1>1, <1>2 DEF TerminalArms

\* the intents of the user,
LEMMA OutboxIntentSound == \A arm \in OutboxIntentArms : ArmSound(arm)
<1>1. ASSUME NEW kinds  PROVE \A arm \in Arms(kinds, {"outbox", "ui", "sessions"}, {"Outbox", "Machines"}, {"ui"}) : ArmSound(arm)
  BY ArmsSound, Homes, StoreSlices, StoreHomes, PersistedParts
<1>2. ASSUME NEW kinds  PROVE \A arm \in Arms(kinds, {"outbox"}, {"Outbox"}, {}) : ArmSound(arm)
  BY ArmsSound, Homes, StoreSlices, StoreHomes, PersistedParts
<1>. QED  BY <1>1, <1>2 DEF OutboxIntentArms

(* Every arm of DeleteIntentArms tells and saves what it changed. *)
LEMMA DeleteIntentSound == \A arm \in DeleteIntentArms : ArmSound(arm)
<1>1. ASSUME NEW kinds  PROVE \A arm \in Arms(kinds, {"sessions", "ui", "outbox"}, {"Machines", "Outbox"}, {"ui"}) : ArmSound(arm)
  BY ArmsSound, Homes, StoreSlices, StoreHomes, PersistedParts
<1>. QED  BY <1>1 DEF DeleteIntentArms

(* Every arm of PairingIntentArms tells and saves what it changed. *)
LEMMA PairingIntentSound == \A arm \in PairingIntentArms : ArmSound(arm)
<1>1. ASSUME NEW kinds  PROVE \A arm \in Arms(kinds, {"pairing", "staged"}, {}, {"pairing"}) : ArmSound(arm)
  BY ArmsSound, StoreHomes, PersistedParts DEF Untold
<1>2. ASSUME NEW kinds  PROVE \A arm \in Arms(kinds, {"staged"}, {}, {}) : ArmSound(arm)
  BY ArmsSound, StoreHomes, PersistedParts DEF Untold
<1>. QED  BY <1>1, <1>2 DEF PairingIntentArms

(* Every arm of MachineIntentArms tells and saves what it changed. *)
LEMMA MachineIntentSound == \A arm \in MachineIntentArms : ArmSound(arm)
<1>1. ASSUME NEW kinds  PROVE \A arm \in Arms(kinds, {"sessions", "answers", "rows", "sync", "outbox", "ui"}, {"Machines", "Outbox"}, {"rows", "sync", "ui"}) : ArmSound(arm)
  BY ArmsSound, Homes, StoreSlices, StoreHomes, PersistedParts DEF Untold
<1>2. ASSUME NEW kinds  PROVE \A arm \in Arms(kinds, {"sessions"}, {"Machines"}, {}) : ArmSound(arm)
  BY ArmsSound, Homes, StoreSlices, StoreHomes, PersistedParts
<1>. QED  BY <1>1, <1>2 DEF MachineIntentArms

(* Every arm of SessionIntentArms tells and saves what it changed. *)
LEMMA SessionIntentSound == \A arm \in SessionIntentArms : ArmSound(arm)
<1>1. ASSUME NEW kinds  PROVE \A arm \in Arms(kinds, {"ui"}, {}, {"ui"}) : ArmSound(arm)
  BY ArmsSound, StoreHomes, PersistedParts
<1>. QED  BY <1>1 DEF SessionIntentArms

(* Every arm of SendIntentArms tells and saves what it changed. *)
LEMMA SendIntentSound == \A arm \in SendIntentArms : ArmSound(arm)
<1>1. ASSUME NEW kinds  PROVE \A arm \in Arms(kinds, {}, {}, {}) : ArmSound(arm)
  BY ArmsSound, StoreHomes, PersistedParts
<1>. QED  BY <1>1 DEF SendIntentArms

(* Every arm of SettingIntentArms tells and saves what it changed. *)
LEMMA SettingIntentSound == \A arm \in SettingIntentArms : ArmSound(arm)
<1>1. ASSUME NEW kinds  PROVE \A arm \in Arms(kinds, {"answers"}, {"Machines"}, {}) : ArmSound(arm)
  BY ArmsSound, Homes, StoreSlices, StoreHomes, PersistedParts
<1>2. ASSUME NEW kinds  PROVE \A arm \in Arms(kinds, {}, {}, {}) : ArmSound(arm)
  BY ArmsSound, StoreHomes, PersistedParts
<1>. QED  BY <1>1, <1>2 DEF SettingIntentArms

(* Every arm of SecretIntentArms tells and saves what it changed. *)
LEMMA SecretIntentSound == \A arm \in SecretIntentArms : ArmSound(arm)
<1>1. ASSUME NEW kinds  PROVE \A arm \in Arms(kinds, {"ui"}, {}, {"ui"}) : ArmSound(arm)
  BY ArmsSound, StoreHomes, PersistedParts
<1>2. ASSUME NEW kinds  PROVE \A arm \in Arms(kinds, {}, {}, {}) : ArmSound(arm)
  BY ArmsSound, StoreHomes, PersistedParts
<1>. QED  BY <1>1, <1>2 DEF SecretIntentArms

(* Every arm of StoreIntentArms tells and saves what it changed. *)
LEMMA StoreIntentSound == \A arm \in StoreIntentArms : ArmSound(arm)
<1>1. ASSUME NEW kinds  PROVE \A arm \in Arms(kinds, {"ui"}, {}, {"ui"}) : ArmSound(arm)
  BY ArmsSound, StoreHomes, PersistedParts
<1>2. ASSUME NEW kinds  PROVE \A arm \in Arms(kinds, {"prompts"}, {"QuickPrompts"}, {}) : ArmSound(arm)
  BY ArmsSound, Homes, StoreSlices, StoreHomes, PersistedParts
<1>3. ASSUME NEW kinds  PROVE \A arm \in Arms(kinds, {"pending"}, {}, {"pending"}) : ArmSound(arm)
  BY ArmsSound, StoreHomes, PersistedParts
<1>4. ASSUME NEW kinds  PROVE \A arm \in Arms(kinds, {"settings"}, {"Settings"}, {}) : ArmSound(arm)
  BY ArmsSound, Homes, StoreSlices, StoreHomes, PersistedParts
<1>. QED  BY <1>1, <1>2, <1>3, <1>4 DEF StoreIntentArms

(* Every arm of TerminalIntentArms tells and saves what it changed. *)
LEMMA TerminalIntentSound == \A arm \in TerminalIntentArms : ArmSound(arm)
<1>1. ASSUME NEW kinds  PROVE \A arm \in Arms(kinds, {"ui", "typed"}, {}, {"ui", "typed"}) : ArmSound(arm)
  BY ArmsSound, StoreHomes, PersistedParts DEF Untold
<1>2. ASSUME NEW kinds  PROVE \A arm \in Arms(kinds, {}, {}, {}) : ArmSound(arm)
  BY ArmsSound, StoreHomes, PersistedParts
<1>. QED  BY <1>1, <1>2 DEF TerminalIntentArms

\* and the loop's own handlers.
LEMMA TimerSound == \A arm \in TimerArms : ArmSound(arm)
<1>1. ASSUME NEW kinds  PROVE \A arm \in Arms(kinds, {"pairing"}, {}, {"pairing"}) : ArmSound(arm)
  BY ArmsSound, StoreHomes, PersistedParts
<1>2. ASSUME NEW kinds  PROVE \A arm \in Arms(kinds, {"answers"}, {}, {"answers"}) : ArmSound(arm)
  BY ArmsSound, StoreHomes, PersistedParts
<1>3. ASSUME NEW kinds  PROVE \A arm \in Arms(kinds, {"seen"}, {}, {}) : ArmSound(arm)
  BY ArmsSound, Homes, StoreHomes, PersistedParts
<1>4. ASSUME NEW kinds  PROVE \A arm \in Arms(kinds, {"typed"}, {}, {"typed"}) : ArmSound(arm)
  BY ArmsSound, StoreHomes, PersistedParts DEF Untold
<1>5. ASSUME NEW kinds  PROVE \A arm \in Arms(kinds, {"ui"}, {}, {"ui"}) : ArmSound(arm)
  BY ArmsSound, StoreHomes, PersistedParts
<1>. QED  BY <1>1, <1>2, <1>3, <1>4, <1>5 DEF TimerArms

(* Every arm of PublishArm tells and saves what it changed. *)
LEMMA PublishArmsSound == \A arm \in PublishArm : ArmSound(arm)
<1>1. ASSUME NEW kinds  PROVE \A arm \in Arms(kinds, {"outbox"}, {"Outbox"}, {}) : ArmSound(arm)
  BY ArmsSound, Homes, StoreSlices, StoreHomes, PersistedParts
<1>. QED  BY <1>1 DEF PublishArm

(* Every arm of ReconcileArm tells and saves what it changed. *)
LEMMA ReconcileSound == \A arm \in ReconcileArm : ArmSound(arm)
<1>1. ASSUME NEW kinds  PROVE \A arm \in Arms(kinds, {"outbox", "sync", "answers"}, {"Outbox"}, {"answers"}) : ArmSound(arm)
  BY ArmsSound, Homes, StoreSlices, StoreHomes, PersistedParts DEF Untold
<1>. QED  BY <1>1 DEF ReconcileArm

(* Every arm of BackupArms tells and saves what it changed. *)
LEMMA BackupSound == \A arm \in BackupArms : ArmSound(arm)
<1>1. ASSUME NEW kinds  PROVE \A arm \in Arms(kinds, {"sessions", "prompts", "backup"}, {"Machines", "QuickPrompts", "Backup"}, {}) : ArmSound(arm)
  BY ArmsSound, Homes, StoreSlices, StoreHomes, PersistedParts
<1>2. ASSUME NEW kinds  PROVE \A arm \in Arms(kinds, {"backup"}, {"Backup"}, {}) : ArmSound(arm)
  BY ArmsSound, Homes, StoreSlices, StoreHomes, PersistedParts
<1>3. ASSUME NEW kinds  PROVE \A arm \in Arms(kinds, {"status"}, {}, {}) : ArmSound(arm)
  BY ArmsSound, StoreHomes, PersistedParts DEF Untold
<1>. QED  BY <1>1, <1>2, <1>3 DEF BackupArms

\* So every handler tells what it changes, and writes it.
LEMMA AllArmsSound == \A arm \in AllArms : ArmSound(arm)
BY LifecycleSound, PairAckSound, CloseAckSound, ListSound, OutputSound, SyncSound, InputSound, MachineSound, ConfirmSound, AckSound, TerminalArmsSound, OutboxIntentSound, DeleteIntentSound, PairingIntentSound, MachineIntentSound, SessionIntentSound, SendIntentSound, SettingIntentSound, SecretIntentSound, StoreIntentSound, TerminalIntentSound, TimerSound, PublishArmsSound, ReconcileSound, BackupSound DEF AllArms

\* What the loop keeps: besides LoopSound, an answer on its way is only behind
\* in what the screen does not have either.
LoopInv ==
  /\ loopScene \in LoopScenes
  /\ reading \in [Slices -> {"none", "queued", "read"}]
  /\ behind \subseteq unseen
  /\ LoopSound

\* A change keeps the screens' part when each slice that shows it is asked for.
LEMMA ChangeKeeps ==
  ASSUME LoopInv, NEW parts, Change(parts), UNCHANGED <<loopScene, reading>>, askedFor \subseteq askedFor',
         \A p \in parts \ Untold : \A s \in Watched : p \in SliceParts[s] => s \in askedFor'
  PROVE  behind' \subseteq unseen' /\ ShownIsCurrent'
<1>1. behind' \subseteq unseen'
  BY DEF Change, LoopInv, Watched, WatchedParts
<1>2. ASSUME NEW s \in Watched', ((SliceParts[s] \ Untold) \cap unseen # {})', s \notin askedFor'
      PROVE  reading'[s] = "queued" \/ (reading'[s] = "read" /\ behind' \cap (SliceParts[s] \ Untold) = {})
  <2>1. s \in Watched /\ s \notin askedFor /\ parts \cap (SliceParts[s] \ Untold) = {}
    BY <1>2 DEF Watched
  <2>2. (SliceParts[s] \ Untold) \cap unseen # {}
    BY <1>2, <2>1 DEF Change
  <2>3. behind' \cap (SliceParts[s] \ Untold) = behind \cap (SliceParts[s] \ Untold)
    BY <2>1 DEF Change
  <2>. QED  BY <2>1, <2>2, <2>3 DEF LoopInv, LoopSound, ShownIsCurrent
<1>. QED  BY <1>1, <1>2 DEF ShownIsCurrent

\* A write keeps the disk's part when each stored part changed is written, or
\* held back with the flush armed.
LEMMA PersistKeeps ==
  ASSUME UnsavedIsDue, NEW stores, NEW parts, PersistStore(stores, parts),
         \A p \in parts \cap Persisted : p = "seen" \/ \E x \in stores : p \in StoreParts[x]
  PROVE  UnsavedIsDue'
<1>1. PICK now : now = UNION {StoreParts[x] : x \in stores \ {"Machines"}}
  OBVIOUS
<1>2. PICK later : later = (parts \cap {"seen"}) \cup (IF "Machines" \in stores THEN StoreParts.Machines ELSE {})
  OBVIOUS
<1>3. /\ unsaved' = (unsaved \cup (parts \cap Persisted)) \ now
      /\ held' = held \cup later
      /\ flushTimer' <=> (flushTimer \/ later # {})
  BY <1>1, <1>2 DEF PersistStore
<1>4. ASSUME NEW p \in parts \cap Persisted, p \notin later  PROVE p \in now
  <2>1. PICK x \in stores : p \in StoreParts[x]
    BY <1>2, <1>4
  <2>2. x # "Machines"
    BY <1>2, <1>4, <2>1
  <2>. QED  BY <1>1, <2>1, <2>2
<1>5. unsaved' \subseteq held'
  BY <1>3, <1>4 DEF UnsavedIsDue
<1>6. held' # {} => flushTimer'
  BY <1>3 DEF UnsavedIsDue
<1>. QED  BY <1>5, <1>6 DEF UnsavedIsDue

\* A handler: what it changes is told, and written or held back.
LEMMA HandleKeeps ==
  ASSUME LoopInv, NEW arm \in AllArms, NEW parts \in SUBSET arm.changes,
         Change(parts), PersistStore(arm.saves, parts), Interpret(arm, parts), UNCHANGED <<loopScene, reading>>
  PROVE  LoopInv'
<1>1. ArmSound(arm)
  BY AllArmsSound
<1>2. askedFor \subseteq askedFor'
  BY DEF Interpret
<1>3. ASSUME NEW p \in parts \ Untold, NEW s \in Watched, p \in SliceParts[s], s \in Slices  PROVE s \in askedFor'
  <2>1. s \in {slice_of[x] : x \in arm.saves} \cup SlicesOf({p} \cap arm.flags)
    BY <1>1, <1>3 DEF ArmSound, Tells
  <2>2. SlicesOf({p} \cap arm.flags) \subseteq SlicesOf(parts \cap arm.flags)
    BY DEF SlicesOf
  <2>. QED  BY <2>1, <2>2 DEF Interpret
<1>4. \A s \in Watched : s \in Slices
  BY LoopAssumption DEF LoopInv, Watched
<1>5. behind' \subseteq unseen' /\ ShownIsCurrent'
  BY <1>2, <1>3, <1>4, ChangeKeeps
<1>6. UnsavedIsDue'
  <2>1. \A p \in parts \cap Persisted : p = "seen" \/ \E x \in arm.saves : p \in StoreParts[x]
    BY <1>1 DEF ArmSound
  <2>. QED  BY <2>1, PersistKeeps DEF LoopInv, LoopSound
<1>. QED  BY <1>5, <1>6 DEF LoopInv, LoopSound

\* Reading an event and granting a key: what they change is shown nowhere or
\* left untold, and the flush is armed.
LEMMA IngestedKeeps == LoopInv /\ (OnIngested \/ GrantIfDue) => LoopInv'
<1>1. ASSUME LoopInv, NEW parts \in {{"mark"}, {"grants"}}, Change(parts), PersistStore({"Machines"}, parts), UNCHANGED <<loopScene, askedFor, reading>>
      PROVE  LoopInv'
  <2>1. \A p \in parts \ Untold : \A s \in Watched : p \in SliceParts[s] => s \in askedFor'
    <3>1. \A s \in Slices : "grants" \notin SliceParts[s]
      BY DEF Slices, SliceParts, MachinesParts, SettingsParts, PairingParts, UiParts, TranscriptParts
    <3>. QED  BY <1>1, <3>1, LoopAssumption DEF Untold, LoopInv, Watched
  <2>2. behind' \subseteq unseen' /\ ShownIsCurrent'
    BY <1>1, <2>1, ChangeKeeps
  <2>3. UnsavedIsDue'
    BY <1>1, StoreHomes, PersistedParts, PersistKeeps DEF LoopInv, LoopSound
  <2>. QED  BY <1>1, <2>2, <2>3 DEF LoopInv, LoopSound
<1>2. ASSUME LoopInv, GrantIfDue  PROVE LoopInv'
  <2>1. UnsavedIsDue'
    BY <1>2, StoreHomes, PersistedParts, PersistKeeps DEF LoopInv, LoopSound, GrantIfDue
  <2>. QED  BY <1>2, <2>1 DEF LoopInv, LoopSound, ShownIsCurrent, GrantIfDue, Watched
<1>. QED  BY <1>1, <1>2 DEF OnIngested

\* A flush writes all that is held back.
LEMMA FlushKeeps == LoopInv /\ FlushWrites => LoopInv'
BY DEF LoopInv, LoopSound, ShownIsCurrent, UnsavedIsDue, FlushWrites, Watched

\* Started again, the phone reads every slice and has nothing unsaved.
LEMMA RehydrateKeeps == LoopInv /\ Rehydrate => LoopInv'
<1>. SUFFICES ASSUME LoopInv, Rehydrate  PROVE LoopInv'
  OBVIOUS
<1>1. ShownIsCurrent' /\ UnsavedIsDue'
  BY DEF Rehydrate, ShownIsCurrent, UnsavedIsDue, Watched
<1>. QED  BY <1>1 DEF LoopInv, LoopSound, Rehydrate

\* A read is asked for, answered and landed: the answer is behind only in what
\* changed after it, and that is asked for again.
LEMMA SliceReadKeeps ==
  ASSUME LoopInv, NEW s \in Watched, Refresher(s) \/ AnswerView(s) \/ Lands(s)
  PROVE  LoopInv'
<1>. DEFINE Shown(t) == SliceParts[t] \ Untold
<1>1. s \in Slices /\ Watched' = Watched /\ loopScene' \in LoopScenes /\ UnsavedIsDue'
  BY LoopAssumption DEF LoopInv, LoopSound, UnsavedIsDue, Watched, Refresher, AnswerView, Lands
<1>2. reading' \in [Slices -> {"none", "queued", "read"}] /\ \A t \in Slices : t # s => reading'[t] = reading[t] /\ (t \in askedFor' <=> t \in askedFor)
  <2>1. ASSUME NEW r \in {"none", "queued", "read"}, reading' = [reading EXCEPT ![s] = r]
        PROVE  reading' \in [Slices -> {"none", "queued", "read"}] /\ \A t \in Slices : t # s => reading'[t] = reading[t]
    BY <1>1, <2>1 DEF LoopInv
  <2>. QED  BY <2>1 DEF Refresher, AnswerView, Lands
<1>3. behind' \subseteq unseen' /\ behind' \subseteq behind /\ unseen' \subseteq unseen
  BY DEF LoopInv, Refresher, AnswerView, Lands
<1>4. ASSUME NEW t \in Watched, Shown(t) \cap unseen' # {}
      PROVE  t \in askedFor' \/ reading'[t] = "queued" \/ (reading'[t] = "read" /\ behind' \cap Shown(t) = {})
  <2>1. t \in askedFor \/ reading[t] = "queued" \/ (reading[t] = "read" /\ behind \cap Shown(t) = {})
    BY <1>3, <1>4 DEF LoopInv, LoopSound, ShownIsCurrent
  <2>2. CASE t # s
    BY <1>2, <1>3, <2>1, <2>2, LoopAssumption DEF LoopInv, Watched
  <2>3. CASE t = s /\ Refresher(s)
    BY <1>1, <2>3 DEF Refresher, LoopInv
  <2>4. CASE t = s /\ AnswerView(s)
    BY <1>1, <2>4 DEF AnswerView, LoopInv
  <2>5. CASE t = s /\ Lands(s)
    <3>1. reading[s] = "read" /\ askedFor' = askedFor /\ unseen' = (unseen \ SliceParts[s]) \cup (behind \cap SliceParts[s])
      BY <2>5 DEF Lands
    <3>2. behind \cap Shown(s) # {}
      BY <1>4, <2>5, <3>1
    <3>. QED  BY <2>1, <2>5, <3>1, <3>2
  <2>. QED  BY <2>2, <2>3, <2>4, <2>5
<1>5. ShownIsCurrent'
  BY <1>1, <1>4 DEF ShownIsCurrent
<1>. QED  BY <1>1, <1>2, <1>3, <1>5 DEF LoopInv, LoopSound

\* Every step of the loop and its screens keeps the invariant.
LEMMA LoopNextKeeps == LoopInv /\ [LoopNext]_loopVars => LoopInv'
<1>. SUFFICES ASSUME LoopInv, [LoopNext]_loopVars  PROVE LoopInv'
  OBVIOUS
<1>1. CASE UNCHANGED loopVars
  BY <1>1 DEF loopVars, LoopInv, LoopSound, ShownIsCurrent, UnsavedIsDue, Watched
<1>2. ASSUME NEW effect \in Effects(loopScene.kinds), Handle(effect)  PROVE LoopInv'
  <2>1. PICK arm \in AllArms : effect = [changes |-> arm.changes \cap (WatchedParts \cup Persisted), saves |-> arm.saves, flags |-> arm.flags]
    BY <1>2 DEF Effects
  <2>2. effect.changes \subseteq arm.changes /\ effect.saves = arm.saves /\ effect.flags = arm.flags
    BY <2>1
  <2>3. PICK parts \in SUBSET arm.changes :
          Change(parts) /\ PersistStore(arm.saves, parts) /\ Interpret(effect, parts) /\ UNCHANGED <<loopScene, reading>>
    BY <1>2, <2>2 DEF Handle
  <2>4. Interpret(arm, parts)
    BY <2>2, <2>3 DEF Interpret
  <2>. QED  BY <2>3, <2>4, HandleKeeps
<1>3. CASE OnIngested \/ GrantIfDue
  BY <1>3, IngestedKeeps
<1>4. CASE FlushDue \/ PauseLoop
  BY <1>4, FlushKeeps DEF FlushDue, PauseLoop
<1>5. CASE Rehydrate
  BY <1>5, RehydrateKeeps
<1>6. ASSUME NEW s \in Watched, Refresher(s) \/ AnswerView(s) \/ Lands(s)  PROVE LoopInv'
  BY <1>6, SliceReadKeeps
<1>. QED  BY <1>1, <1>2, <1>3, <1>4, <1>5, <1>6 DEF LoopNext

\* Whatever handlers run and whichever slices are on screen, no change the loop
\* means to tell stays off a screen, and nothing the disk lacks is without an
\* armed flush (interpret_route, persist_store, SliceRefresher).
THEOREM LoopIsSound == LoopSpec => []LoopSound
<1>1. LoopInit => LoopInv
  BY DEF LoopInit, LoopInv, LoopSound, ShownIsCurrent, UnsavedIsDue, Watched
<1>2. LoopInv /\ [LoopNext]_loopVars => LoopInv'
  BY LoopNextKeeps
<1>3. LoopInv => LoopSound
  BY DEF LoopInv
<1>. QED  BY <1>1, <1>2, <1>3, PTL DEF LoopSpec

-----------------------------------------------------------------------------
(* Proof of ViewedIsClean: every handler, given a phone on which the session *)
(* on screen is clean, leaves one such, whatever the message says.           *)

PhoneFields == {"visible", "selected", "unread", "tray", "responded", "recent", "stored", "known",
                "state", "rev", "dismissed", "card", "cardAt"}
Clean(p) == DOMAIN p = PhoneFields /\ (viewing_session(p) => ~ p.unread /\ p.tray = {})

\* A handler that shows nothing for the session on screen keeps it clean.
LEMMA EmitClean == ASSUME NEW p, Clean(p), NEW kind  PROVE Clean(emit(p, kind))
BY DEF Clean, PhoneFields, emit, viewing_session

\* Nor is the session on screen marked.
LEMMA MarkClean == ASSUME NEW p, Clean(p)  PROVE Clean(mark_session_unread(p))
BY DEF Clean, PhoneFields, mark_session_unread, viewing_session

\* So calling for the user leaves it clean,
LEMMA AttendClean == ASSUME NEW p, Clean(p), NEW kind  PROVE Clean(Attend(p, kind))
BY MarkClean, EmitClean DEF Attend

\* and so does taking note of an entry,
LEMMA ClassifiedClean == ASSUME NEW p, Clean(p), NEW what  PROVE Clean(Classified(p, what))
<1>1. Clean([p EXCEPT !.unread = FALSE])
  BY DEF Clean, PhoneFields, viewing_session
<1>. QED  BY <1>1, AttendClean DEF Classified

\* Storing an entry shows nothing.
LEMMA StoredClean == ASSUME NEW p, Clean(p), NEW n
                     PROVE  Clean([p EXCEPT !.stored = @ \cup {n}, !.known = @ \cup {n}])
BY DEF Clean, PhoneFields, viewing_session

\* An entry that comes as live output.
LEMMA OnOutputClean == ASSUME NEW p, Clean(p), NEW m, NEW stores \in BOOLEAN  PROVE Clean(OnOutput(p, m, stores))
BY StoredClean, ClassifiedClean DEF OnOutput

\* The card of a session being created, and a session forgotten.
LEMMA CardClean ==
  ASSUME NEW p, Clean(p)
  PROVE  Clean(OnPending(p)) /\ Clean(OnFailed(p)) /\ Clean(OnReady(p)) /\ Clean(sweep(p)) /\ Clean(forget_session(p))
<1>1. Clean(OnPending(p)) /\ Clean(apply_failed(p)) /\ Clean(OnReady(p)) /\ Clean(sweep(p))
  BY DEF Clean, PhoneFields, viewing_session, OnPending, apply_pending, apply_failed, OnReady, sweep
<1>2. Clean(OnFailed(p))
  BY <1>1, EmitClean DEF OnFailed
<1>3. Clean(forget_session(p))
  BY DEF Clean, PhoneFields, viewing_session, forget_session
<1>. QED  BY <1>1, <1>2, <1>3

\* A list of sessions.
LEMMA OnSessionsClean == ASSUME NEW p, Clean(p), NEW m  PROVE Clean(OnSessions(p, m))
<1>. DEFINE ends == m.what = "idle" /\ p.state = "running"
            q == [p EXCEPT !.rev = m.n, !.state = IF m.what = "gone" THEN "none" ELSE m.what]
            told(x) == IF x THEN q ELSE Attend(q, IF ends THEN "finished" ELSE "asks")
            card(r) == [r EXCEPT !.card = "none"]
<1>1. Clean(q)
  BY DEF Clean, PhoneFields, viewing_session
<1>2. ASSUME NEW x  PROVE Clean(told(x))
  BY <1>1, AttendClean
<1>3. ASSUME NEW r, Clean(r)  PROVE Clean(card(r))
  BY <1>3 DEF Clean, PhoneFields, viewing_session
<1>4. ASSUME NEW x  PROVE Clean(sweep(IF m.what = "gone" THEN forget_session(told(x)) ELSE card(told(x))))
  <2>1. Clean(forget_session(told(x))) /\ Clean(card(told(x)))
    BY <1>2, <1>3, CardClean
  <2>. QED  BY <2>1, CardClean
<1>. QED  BY <1>4 DEF OnSessions

AirMsgs == [kind : {"pending", "ready", "failed", "output", "list", "closed"}, n : Nat,
            what : {"none", "asks", "finished", "works", "waiting", "idle", "running", "gone"}]

\* Inductive: the phone's state is clean, and the messages are the bridge's.
AttInv ==
    /\ Clean(ph)
    /\ host.rev \in Nat /\ host.entries \in Nat
    /\ host.state \in {"none", "waiting", "idle", "running", "gone"}
    /\ DOMAIN host = {"life", "state", "entries", "rev"}
    /\ air \in Seq(AirMsgs)

\* The bridge's steps: each sends one of the messages the phone expects.
LEMMA BridgeKeepsAtt ==
  ASSUME AttInv,
         \/ BridgeCreates \/ BridgeAnswers(TRUE) \/ BridgeAnswers(FALSE) \/ BridgeLists \/ BridgeDeletes
         \/ \E w \in DOMAIN StateAfter : BridgeOutputs(w)
  PROVE  AttInv'
<1>1. CASE BridgeCreates
  <2>1. Msg3("pending", 0, "none") \in AirMsgs
    BY DEF Msg3, AirMsgs
  <2>. QED  BY <1>1, <2>1 DEF BridgeCreates, Sent, AttInv, Clean, viewing_session
<1>2. ASSUME NEW ok \in BOOLEAN, BridgeAnswers(ok)  PROVE AttInv'
  <2>1. Msg3(IF ok THEN "ready" ELSE "failed", 0, "none") \in AirMsgs
    BY DEF Msg3, AirMsgs
  <2>. QED  BY <1>2, <2>1 DEF BridgeAnswers, Sent, AttInv, Clean, viewing_session
<1>3. CASE BridgeLists
  <2>1. ListMsg(host.rev + 1, host.state) \in AirMsgs
    BY DEF Msg3, ListMsg, AirMsgs, AttInv
  <2>. QED  BY <1>3, <2>1 DEF BridgeLists, Sent, AttInv, Clean, viewing_session
<1>4. ASSUME NEW w \in DOMAIN StateAfter, BridgeOutputs(w)  PROVE AttInv'
  <2>1. w \in {"asks", "finished", "works"} /\ StateAfter[w] \in {"waiting", "idle", "running"}
    BY DEF StateAfter
  <2>2. Msg3("output", host.entries + 1, w) \in AirMsgs
    BY <2>1 DEF Msg3, AirMsgs, AttInv
  <2>3. host' = [host EXCEPT !.entries = @ + 1, !.state = StateAfter[w]] /\ ph' = ph
    BY <1>4 DEF BridgeOutputs
  <2>4. host'.rev \in Nat /\ host'.entries \in Nat /\ host'.state \in {"waiting", "idle", "running"}
        /\ DOMAIN host' = {"life", "state", "entries", "rev"}
    BY <2>1, <2>3 DEF AttInv
  <2>5. air' \in Seq(AirMsgs)
    <3>1. PICK m : m = Msg3("output", host.entries + 1, w)
      OBVIOUS
    <3>2. air' = Append(air, m) /\ air \in Seq(AirMsgs)
      BY <1>4, <3>1 DEF BridgeOutputs, Sent, AttInv
    <3>. QED  BY <2>2, <3>1, <3>2
  <2>. QED  BY <2>3, <2>4, <2>5 DEF AttInv, Clean, viewing_session
<1>5. CASE BridgeDeletes
  BY <1>5 DEF BridgeDeletes, AttInv, Clean, viewing_session
<1>. QED  BY <1>1, <1>2, <1>3, <1>4, <1>5

\* What the phone makes of a message, or of the entry a sync brings instead.
LEMMA ArrivesKeeps ==
  ASSUME AttInv, NEW i \in DOMAIN air, Arrives(i, TRUE) \/ Arrives(i, FALSE) \/ Lost(i)
  PROVE  AttInv'
<1>1. PICK m : m = air[i]
  OBVIOUS
<1>2. m \in AirMsgs /\ UNCHANGED <<host, air>> /\ Clean(ph)
  <2>1. air \in Seq(AirMsgs) /\ Clean(ph)
    BY DEF AttInv
  <2>2. m \in AirMsgs
    BY <1>1, <2>1
  <2>3. UNCHANGED <<host, air>>
    BY DEF Arrives, Lost
  <2>. QED  BY <2>1, <2>2, <2>3
<1>3. ASSUME Lost(i)  PROVE Clean(ph')
  BY <1>1, <1>2, <1>3, StoredClean DEF Lost, OnSyncChunk
<1>4. ASSUME NEW stores \in BOOLEAN, Arrives(i, stores)  PROVE Clean(ph')
  <2>1. CASE m.kind = "output"
    <3>1. ph' = OnOutput(ph, m, stores)
      BY <1>1, <1>4, <2>1 DEF Arrives
    <3>. QED  BY <1>2, <3>1, OnOutputClean
  <2>2. CASE m.kind = "list"
    <3>1. ph' = OnSessions(ph, m)
      BY <1>1, <1>4, <2>2 DEF Arrives
    <3>. QED  BY <1>2, <3>1, OnSessionsClean
  <2>3. CASE m.kind \notin {"output", "list"}
    <3>1. ph' = OnPending(ph) \/ ph' = OnFailed(ph) \/ ph' = OnReady(ph) \/ ph' = forget_session(ph)
      BY <1>1, <1>2, <1>4, <2>3 DEF Arrives, AirMsgs
    <3>. QED  BY <1>2, <3>1, CardClean
  <2>. QED  BY <2>1, <2>2, <2>3
<1>5. Clean(ph')
  BY <1>3, <1>4
<1>. QED  BY <1>2, <1>5 DEF AttInv, Clean, viewing_session

\* Viewed clears the session that comes on screen, by whichever move.
LEMMA ViewedClean == ASSUME NEW p, DOMAIN p = PhoneFields  PROVE Clean(Viewed(p))
BY DEF Viewed, Clean, PhoneFields, viewing_session

\* The user's moves, and the app killed and started.
LEMMA UserKeeps ==
  ASSUME AttInv,
         \/ select_session \/ leave_session \/ Hide \/ resume_viewing \/ mark_card_responded \/ dismiss
         \/ AppRestarts \/ DeleteHere
  PROVE  AttInv'
<1>1. Clean(ph) /\ DOMAIN ph = PhoneFields
  BY DEF AttInv, Clean
<1>2. CASE select_session
  <2>1. PICK p : p = [ph EXCEPT !.selected = TRUE]
    OBVIOUS
  <2>2. Clean(Viewed(p))
    BY <1>1, <2>1, ViewedClean DEF PhoneFields
  <2>. QED  BY <1>2, <2>1, <2>2 DEF select_session, User, AttInv, Clean, viewing_session
<1>3. CASE resume_viewing
  <2>1. PICK p : p = [ph EXCEPT !.visible = TRUE]
    OBVIOUS
  <2>2. Clean(Viewed(p))
    BY <1>1, <2>1, ViewedClean DEF PhoneFields
  <2>. QED  BY <1>3, <2>1, <2>2 DEF resume_viewing, User, AttInv, Clean, viewing_session
<1>4. CASE leave_session \/ Hide \/ mark_card_responded \/ dismiss
  BY <1>1, <1>4 DEF leave_session, Hide, mark_card_responded, dismiss, User, AttInv, Clean, PhoneFields, viewing_session
<1>5. CASE AppRestarts
  BY <1>1, <1>5 DEF AppRestarts, Phone0, User, AttInv, Clean, PhoneFields, viewing_session
<1>6. CASE DeleteHere
  <2>1. Msg3("closed", 0, "none") \in AirMsgs
    BY DEF Msg3, AirMsgs
  <2>2. air' \in Seq(AirMsgs)
    BY <1>6, <2>1 DEF DeleteHere, Sent, AttInv
  <2>3. Clean(ph')
    BY <1>1, <1>6 DEF DeleteHere, Clean, PhoneFields, viewing_session
  <2>4. host'.rev \in Nat /\ host'.entries \in Nat /\ host'.state = "gone" /\ DOMAIN host' = {"life", "state", "entries", "rev"}
    BY <1>6 DEF DeleteHere, AttInv
  <2>. QED  BY <2>2, <2>3, <2>4 DEF AttInv, Clean, viewing_session
<1>. QED  BY <1>2, <1>3, <1>4, <1>5, <1>6

\* The session on screen is clean in every state, however many messages come
\* and in whatever order, for any cooldown and any life of the session.
THEOREM ViewedStaysClean == AttSpec => []ViewedIsClean
<1>1. AttInit => AttInv
  BY DEF AttInit, AttInv, Phone0, Clean, PhoneFields, viewing_session
<1>2. AttInv /\ [AttNext]_attVars => AttInv'
  <2>. SUFFICES ASSUME AttInv, [AttNext]_attVars  PROVE AttInv'
    OBVIOUS
  <2>1. CASE AttTick \/ UNCHANGED attVars
    BY <2>1 DEF AttTick, attVars, AttInv, Clean, viewing_session
  <2>. QED  BY <2>1, BridgeKeepsAtt, ArrivesKeeps, UserKeeps DEF AttNext
<1>3. AttInv => ViewedIsClean
  BY DEF AttInv, Clean, ViewedIsClean
<1>. QED  BY <1>1, <1>2, <1>3, PTL DEF AttSpec

-----------------------------------------------------------------------------
=============================================================================
