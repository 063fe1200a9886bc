----------------------------- MODULE ClientLoop -----------------------------
(***************************************************************************)
(* The phone's loop and what surrounds it: every message of a bridge,      *)
(* every intent of the user and every timer is one handler that changes    *)
(* the stores, and the app's screens and the phone's disk must follow.     *)
(* The screens keep a copy of each slice of the state and read it again    *)
(* when the loop says the slice changed; the disk is written at once for   *)
(* some stores and after a pause for others.                               *)
(*                                                                         *)
(* What a handler computes is abstracted away (the modules of the stores   *)
(* model it): a part of the state either changed or did not, and a copy of *)
(* it is either up to date or behind.                                      *)
(***************************************************************************)

CONSTANTS LoopScenes   \* records: the kinds of handler a behaviour uses, and the slices its screens watch

VARIABLES
  loopScene,   \* the handlers and screens of this behaviour
  unseen,      \* parts whose copy on a screen is behind the loop's
  askedFor,    \* slices somebody asked to read again
  reading,     \* slice -> the read under way: "none", "queued" or "read"
  behind,      \* parts that changed after the answer now on its way
  unsaved,     \* parts whose copy on disk is behind the loop's
  held,        \* parts the next flush writes
  flushTimer   \* the debounced flush is armed

loopVars == <<loopScene, unseen, askedFor, reading, behind, unsaved, held, flushTimer>>

(***************************************************************************)
(* The state, cut into parts that handlers change separately.              *)
(*   sessions  machines and their sessions, as persisted                   *)
(*   answers   what the machines slice shows and never persists            *)
(*   mark      a machine's "speaks another protocol version" mark          *)
(*   staged    a pairing link awaiting confirmation, or a link refused     *)
(*   dot       an unread dot cleared by the agent's own activity           *)
(*   typed     typed bytes of a terminal still held back                   *)
(*   status    the backup's "checking" status                              *)
(*   seen      the cursor of stored events: shown nowhere                  *)
(*   grants    which session key each machine holds: shown nowhere         *)
(***************************************************************************)
MachinesParts == {"sessions", "styles", "answers", "mark"}
SettingsParts == {"settings", "backup", "status"}
PairingParts == {"pairing", "staged"}
UiParts == {"ui", "dot", "typed"}
TranscriptParts == {"rows", "sync"}
SliceParts ==
  [ Machines |-> MachinesParts, Settings |-> SettingsParts, Pairing |-> PairingParts, Ui |-> UiParts,
    Transcript |-> TranscriptParts, Outbox |-> {"outbox"}, QuickPrompts |-> {"prompts"},
    PendingSessions |-> {"pending"} ]
Slices == DOMAIN SliceParts
ASSUME LoopAssumption == \A scene \in LoopScenes : scene.watch \subseteq Slices
SlicesOf(parts) == {s \in Slices : SliceParts[s] \cap parts # {}}

\* The stores written to the key-value store, and the parts each holds.
StoreParts ==
  [ Machines |-> {"sessions", "grants"}, AgentStyles |-> {"styles"}, Outbox |-> {"outbox"},
    Settings |-> {"settings"}, QuickPrompts |-> {"prompts"}, Backup |-> {"backup"} ]
Persisted == {"seen"} \cup UNION {StoreParts[s] : s \in DOMAIN StoreParts}

slice_of == [ Machines |-> "Machines", AgentStyles |-> "Machines", Outbox |-> "Outbox",
              Settings |-> "Settings", QuickPrompts |-> "QuickPrompts", Backup |-> "Settings" ]

(***************************************************************************)
(* A handler: the parts it may change, the stores it persists, and the     *)
(* parts whose change raises a flag of the handler's result.               *)
(***************************************************************************)
Arms(kinds, changes, saves, flags) ==
  [kind : kinds, changes : {changes}, saves : {saves}, flags : {flags}]

(***************************************************************************)
(* The messages of a bridge.                                               *)
(***************************************************************************)
LifecycleArms ==
  Arms({"SessionPending", "SessionFailed"}, {"pending"}, {}, {"pending"})
    \cup Arms({"SessionReady"}, {"pending", "sessions"}, {"Machines"}, {"pending"})

PairAckArm == Arms({"PairAck"}, {"pairing", "sessions"}, {"Machines"}, {"pairing"})

CloseAckArm ==
  Arms({"CloseSessionAck"}, {"sessions", "rows", "sync", "ui", "outbox"}, {"Machines", "Outbox"}, {"rows", "sync", "ui"})

ListArm ==
  Arms({"Sessions"}, {"sessions", "answers", "ui", "rows", "sync", "pending", "outbox"},
       {"Machines", "Outbox"}, {"ui", "rows", "pending"})

OutputArm == Arms({"Output"}, {"rows", "sync", "ui", "dot"}, {}, {"rows", "sync", "ui"})

SyncArms ==
  Arms({"SyncBegin", "SyncEnd"}, {"sync"}, {}, {})
    \cup Arms({"SyncChunk"}, {"rows", "sync"}, {}, {"rows", "sync"})

InputArms == Arms({"InputAck", "InputFailed"}, {"outbox"}, {"Outbox"}, {})

MachineArms ==
  Arms({"AgentStyle"}, {"styles"}, {"AgentStyles"}, {})
    \cup Arms({"Models", "Usage", "Plugins", "PluginAck", "AgentAck", "McpServers", "McpAck", "SessionMcp",
               "PermissionRules", "Accounts", "AccountSignIn", "Commands", "Personas"},
              {"sessions", "answers"}, {"Machines"}, {})

ConfirmArms ==
  Arms({"OptionConfirmed"}, {"sessions"}, {"Machines"}, {})
    \cup Arms({"ProviderProfiles"}, {"answers"}, {"Machines"}, {})

AckArms ==
  Arms({"CredentialsAck"}, {"ui", "sessions"}, {"Machines"}, {"ui"})
    \cup Arms({"CredentialsRefused", "WebSignInResult", "WebBrowsers", "ProviderProfileAck"}, {"ui"}, {}, {"ui"})

\* Output goes to the terminal itself, through no view.
TerminalArms ==
  Arms({"TerminalOpened", "TerminalExited", "TerminalEvent"}, {"ui"}, {}, {"ui"})
    \cup Arms({"TerminalInputFrom"}, {"typed"}, {}, {})

(***************************************************************************)
(* The intents of the user.                                                *)
(***************************************************************************)
OutboxIntents == {"SendInput", "RetryOutboxItem", "DeleteSession", "UndoDelete"}
OutboxIntentArms ==
  Arms(OutboxIntents \cap {"SendInput"}, {"outbox", "ui", "sessions"}, {"Outbox", "Machines"}, {"ui"})
    \cup Arms(OutboxIntents \cap {"RetryOutboxItem"}, {"outbox"}, {"Outbox"}, {})

DeleteIntentArms ==
  Arms(OutboxIntents \ {"SendInput", "RetryOutboxItem"}, {"sessions", "ui", "outbox"}, {"Machines", "Outbox"}, {"ui"})

PairingIntents ==
  {"BeginPairing", "BeginManualPairing", "StagePairing", "ConfirmStagedPairing", "DismissStagedPairing", "ResetPairing"}

\* A link that does not parse, or one that is only staged, raises no flag.
PairingIntentArms ==
  Arms(PairingIntents \ {"StagePairing", "DismissStagedPairing"}, {"pairing", "staged"}, {}, {"pairing"})
    \cup Arms(PairingIntents \cap {"StagePairing", "DismissStagedPairing"}, {"staged"}, {}, {})

MachineIntents == {"RemoveMachine", "SetDirectEndpoints", "SetMachineRelays", "SetDefaultAgent", "SetAgentDefaults"}
MachineIntentArms ==
  Arms(MachineIntents \cap {"RemoveMachine"}, {"sessions", "answers", "rows", "sync", "outbox", "ui"},
       {"Machines", "Outbox"}, {"rows", "sync", "ui"})
    \cup Arms(MachineIntents \ {"RemoveMachine"}, {"sessions"}, {"Machines"}, {})

SessionIntents == {"RespondPermission", "AnswerQuestion", "RespondPlan"}
SessionIntentArms == Arms(SessionIntents, {"ui"}, {}, {"ui"})

\* Only sent: what comes of them arrives as a message.
SendIntents ==
  {"SetOption", "Interrupt", "StopTask", "CloseSession", "CreateSession", "RefreshSessions", "RequestModels",
   "RequestUsage", "RequestCommands", "RequestPersonas", "RequestPlugins"}
SendIntentArms == Arms(SendIntents, {}, {}, {})

SettingIntents ==
  {"PluginAction", "AgentAction", "McpAction", "RemovePermissionRules", "AccountAction", "DismissSignIn",
   "ToggleSessionMcp", "RequestMcp", "RequestPermissionRules", "RequestAccounts", "RequestSessionMcp"}
SettingIntentArms ==
  LET reads == {"RequestMcp", "RequestPermissionRules", "RequestAccounts", "RequestSessionMcp"}
  IN Arms(SettingIntents \ reads, {"answers"}, {"Machines"}, {}) \cup Arms(SettingIntents \cap reads, {}, {}, {})

SecretIntents ==
  {"SetCredentials", "WebSignIn", "ClearWebSignIn", "SignOutWebBrowser", "SetProviderProfile",
   "RequestProviderProfiles", "RequestWebBrowsers", "CreateFolder"}
SecretIntentArms ==
  LET sends == {"SetProviderProfile", "RequestProviderProfiles", "RequestWebBrowsers", "CreateFolder"}
  IN Arms(SecretIntents \ sends, {"ui"}, {}, {"ui"}) \cup Arms(SecretIntents \cap sends, {}, {}, {})

StoreIntents ==
  {"SelectSession", "SetPlanApprovalChoice", "SetTorEnabled", "SetStayConnected", "SetBlossomServer",
   "SetNotificationsEnabled", "SetUiScale", "SetShowUsageBadge", "SetShowCommitBadge",
   "AddQuickPrompt", "UpdateQuickPrompt", "RemoveQuickPrompt", "DismissPendingSession"}
StoreIntentArms ==
  LET ui == {"SelectSession", "SetPlanApprovalChoice"}
      prompts == {"AddQuickPrompt", "UpdateQuickPrompt", "RemoveQuickPrompt"}
      pending == {"DismissPendingSession"}
  IN Arms(StoreIntents \cap ui, {"ui"}, {}, {"ui"})
       \cup Arms(StoreIntents \cap prompts, {"prompts"}, {"QuickPrompts"}, {})
       \cup Arms(StoreIntents \cap pending, {"pending"}, {}, {"pending"})
       \cup Arms(StoreIntents \ (ui \cup prompts \cup pending), {"settings"}, {"Settings"}, {})

TerminalIntents == {"OpenTerminal", "AttachTerminal", "DetachTerminal", "TerminalInput", "TerminalPaste",
                    "ResizeTerminal", "TakeOverTerminal", "CloseTerminal"}
TerminalIntentArms ==
  LET sends == {"ResizeTerminal", "TakeOverTerminal", "CloseTerminal"}
  IN Arms(TerminalIntents \ sends, {"ui", "typed"}, {}, {"ui", "typed"}) \cup Arms(TerminalIntents \cap sends, {}, {}, {})

(***************************************************************************)
(* The loop's own handlers: timers, results of tasks, and what reading an  *)
(* event notes before the message is routed.                               *)
(***************************************************************************)
TimerArms ==
  Arms({"PairDeadline"}, {"pairing"}, {}, {"pairing"})
    \cup Arms({"UnansweredDeadline", "DirectState"}, {"answers"}, {}, {"answers"})
    \cup Arms({"NoteStoredSeen"}, {"seen"}, {}, {})
    \cup Arms({"TerminalFlush"}, {"typed"}, {}, {"typed"})
    \cup Arms({"Resume"}, {"ui"}, {}, {"ui"})
PublishArm == Arms({"PublishSettled"}, {"outbox"}, {"Outbox"}, {})
ReconcileArm == Arms({"RefreshReconcile"}, {"outbox", "sync", "answers"}, {"Outbox"}, {"answers"})
BackupArms ==
  Arms({"BackupFetched"}, {"sessions", "prompts", "backup"}, {"Machines", "QuickPrompts", "Backup"}, {})
    \cup Arms({"BackupSaved", "BackupDeleted", "SetBackupRelay", "DisableBackup"}, {"backup"}, {"Backup"}, {})
    \cup Arms({"BackupRetry"}, {"status"}, {}, {})

AllArms ==
  UNION { LifecycleArms, PairAckArm, CloseAckArm, ListArm, OutputArm, SyncArms, InputArms, MachineArms, ConfirmArms, AckArms,
          TerminalArms, OutboxIntentArms, DeleteIntentArms, PairingIntentArms, MachineIntentArms, SessionIntentArms,
          SendIntentArms, SettingIntentArms, SecretIntentArms, StoreIntentArms, TerminalIntentArms, TimerArms, PublishArm,
          ReconcileArm, BackupArms }

Watched == loopScene.watch
WatchedParts == UNION {SliceParts[s] : s \in Watched}

\* Handlers alike in what they change (that a screen or the disk
\* of this behaviour has), save and flag take the same step.
Effects(kinds) ==
  {[changes |-> a.changes \cap (WatchedParts \cup Persisted), saves |-> a.saves, flags |-> a.flags] : a \in {arm \in AllArms : arm.kind \in kinds}}

-----------------------------------------------------------------------------
LoopInit ==
  /\ loopScene \in LoopScenes
  /\ unseen = WatchedParts
  /\ askedFor = Watched
  /\ reading = [s \in Slices |-> "none"]
  /\ behind = {} /\ unsaved = {} /\ held = {} /\ flushTimer = FALSE

\* Parts changed: the screens' copies and an answer already made fall behind.
Change(parts) ==
  /\ unseen' = unseen \cup (parts \cap WatchedParts)
  /\ behind' = behind \cup {p \in parts : \E s \in Watched : p \in SliceParts[s] /\ reading[s] = "read"}

\* Mutant: the machines store is marked and the flush is not scheduled.
PersistStoreUnscheduled(stores, parts) ==
  LET now == UNION {StoreParts[s] : s \in stores \ {"Machines"}}
  IN /\ unsaved' = (unsaved \cup (parts \cap Persisted)) \ now
     /\ held' = held \cup (parts \cap {"seen"}) \cup (IF "Machines" \in stores THEN StoreParts.Machines ELSE {})
     /\ flushTimer' = (flushTimer \/ "seen" \in parts)
PersistStore(stores, parts) ==
  LET now == UNION {StoreParts[s] : s \in stores \ {"Machines"}}
      later == (parts \cap {"seen"}) \cup (IF "Machines" \in stores THEN StoreParts.Machines ELSE {})
  IN /\ unsaved' = (unsaved \cup (parts \cap Persisted)) \ now
     /\ held' = held \cup later
     /\ flushTimer' = (flushTimer \/ later # {})

\* interpret_route, interpret_intent: what the handler persisted and flagged
\* is told, and the transcript's screen also reads again after a Ui change.
Interpret(arm, parts) ==
  LET told == {slice_of[s] : s \in arm.saves} \cup SlicesOf(parts \cap arm.flags)
  IN askedFor' = askedFor \cup (Watched \cap (told \cup (IF "Ui" \in told THEN {"Transcript"} ELSE {})))

Handle(arm) == \E parts \in SUBSET arm.changes :
  /\ Change(parts)
  /\ PersistStore(arm.saves, parts)
  /\ Interpret(arm, parts)
  /\ UNCHANGED <<loopScene, reading>>

\* Reading an event notes that its machine speaks another version, or no
\* longer does, and which key it wrote to: persisted, and told to nobody.
OnIngested == "ingested" \in loopScene.kinds /\ \E parts \in {{"mark"}, {"grants"}} :
  /\ Change(parts)
  /\ PersistStore({"Machines"}, parts)
  /\ UNCHANGED <<loopScene, askedFor, reading>>

\* A session key is granted to a machine heard from: noted, and saved with
\* the next flush.
GrantIfDue == "grant" \in loopScene.kinds /\ PersistStore({"Machines"}, {"grants"})
  /\ UNCHANGED <<loopScene, unseen, askedFor, reading, behind>>

FlushWrites ==
  /\ unsaved' = unsaved \ held
  /\ held' = {} /\ flushTimer' = FALSE
  /\ UNCHANGED <<loopScene, unseen, askedFor, reading, behind>>
FlushDue == flushTimer /\ FlushWrites
\* Backgrounded, or stopped for good: what is held back is written now. The
\* delete a pause commits is a step of its own before it, as a timer's would be.
PauseLoop == held # {} /\ FlushWrites

-----------------------------------------------------------------------------
\* SliceRefresher: requests collapse into one, and reads never overlap.
Refresher(s) ==
  /\ s \in askedFor /\ reading[s] = "none"
  /\ askedFor' = askedFor \ {s}
  /\ reading' = [reading EXCEPT ![s] = "queued"]
  /\ UNCHANGED <<loopScene, unseen, behind, unsaved, held, flushTimer>>

\* The loop answers a read between two handlers.
AnswerView(s) ==
  /\ reading[s] = "queued"
  /\ reading' = [reading EXCEPT ![s] = "read"]
  /\ behind' = behind \ SliceParts[s]
  /\ UNCHANGED <<loopScene, unseen, askedFor, unsaved, held, flushTimer>>

\* The answer lands on the screen.
Lands(s) ==
  /\ reading[s] = "read"
  /\ reading' = [reading EXCEPT ![s] = "none"]
  /\ unseen' = (unseen \ SliceParts[s]) \cup (behind \cap SliceParts[s])
  /\ behind' = behind \ SliceParts[s]
  /\ UNCHANGED <<loopScene, askedFor, unsaved, held, flushTimer>>

\* The process is killed and started again: the stores are what the disk
\* has, and the app reads every slice once.
Rehydrate ==
  /\ "kill" \in loopScene.kinds
  /\ unsaved' = {} /\ held' = {} /\ flushTimer' = FALSE
  /\ unseen' = WatchedParts /\ askedFor' = Watched
  /\ reading' = [s \in Slices |-> "none"] /\ behind' = {}
  /\ UNCHANGED loopScene

LoopNext ==
  \/ \E effect \in Effects(loopScene.kinds) : Handle(effect)
  \/ OnIngested \/ GrantIfDue \/ FlushDue \/ PauseLoop \/ Rehydrate
  \/ \E s \in Watched : Refresher(s) \/ AnswerView(s) \/ Lands(s)

LoopSpec == LoopInit /\ [][LoopNext]_loopVars

-----------------------------------------------------------------------------
\* What the loop changes without saying so: it is on screen with the next change
\* that is told.
Untold == {"mark", "staged", "dot", "typed", "status", "sync"}

Awaited(s) == s \in askedFor \/ reading[s] = "queued" \/ (reading[s] = "read" /\ behind \cap SliceParts[s] = {})

\* A screen whose copy of the state is behind the loop's is about to read it
\* again, whatever order changes, reads and answers come in: no change a
\* handler of the loop makes to what a screen shows stays off the screen, other
\* than the parts it never tells (Untold; MarkIsTold and DotIsTold are about two
\* of them).
ShownIsCurrent ==
  \A s \in Watched : (SliceParts[s] \ Untold) \cap unseen # {} =>
    s \in askedFor \/ reading[s] = "queued"
      \/ (reading[s] = "read" /\ behind \cap (SliceParts[s] \ Untold) = {})

\* Whatever the disk does not have yet is in a store whose write is held
\* back, and the flush that writes it is armed: killed at any moment, the
\* phone loses at most one debounce of its machines and its cursor, and no
\* other store at all.
UnsavedIsDue == unsaved \subseteq held /\ (held # {} => flushTimer)

\* "Persisting is how the machines view is told": a machine marked as
\* speaking another version reaches the screen.
MarkIsTold == "mark" \in unseen => Awaited("Machines")

\* "a live entry showing the agent actively WORKING clears the dot"
\* (dispatch.rs:340-341): the screen that shows the dots is told.  In no run: the
\* arm that clears it flags no slice.
DotIsTold == "dot" \in unseen => Awaited("Ui")

\* Neither a screen nor the disk is left behind by the loop for good.
LoopSound == ShownIsCurrent /\ UnsavedIsDue
=============================================================================
