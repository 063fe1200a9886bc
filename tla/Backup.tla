------------------------------- MODULE Backup -------------------------------
(***************************************************************************)
(* The config backup that the devices of one identity share, each of them  *)
(* reading, merging and writing it: the record and the merge of            *)
(* crates/client-core/src/stores/backup.rs and the loop's side of it,      *)
(* crates/client-runtime/src/runtime/backup.rs.                            *)
(*                                                                         *)
(* An item is a paired machine's shared fields, or "prompts", the quick    *)
(* prompts (never removed).  Its value is the number of the edit that made *)
(* it: positive while the item is there; 0 or less when it is not, and     *)
(* then the edit that removed it, which the code does not know (history).  *)
(* What the settings page shows is left out.                               *)
(***************************************************************************)
EXTENDS Integers, Sequences, FiniteSets, SequencesExt

CONSTANTS
  Devices, Items, Relays,
  TombstoneKeep,   \* TOMBSTONE_KEEP_MS
  MaxClock,        \* bound: ticks of the clock
  MaxSaves,        \* bound: saves and deletions begun by a device
  MaxSubs,         \* bound: times a device starts anew with its relay or another
  BackupScenes     \* [have, relay, ahead, edits, may]: what the devices hold and the relay they
                   \* use at first, how far their clocks run ahead, the edits made, what happens

ASSUME BackupAssumption ==
  /\ {TombstoneKeep, MaxClock, MaxSaves, MaxSubs} \subseteq Nat
  /\ \A s \in BackupScenes :
        s.may \subseteq {"race", "remove", "move", "off", "delete", "now", "closed", "stop", "fail",
                         "unreadable", "crash", "still"}

VARIABLES
  backupScene,
  clock,
  edits,    \* edits[n]: history, the value edit n was made on, 0 where the device took no part yet
  dev,      \* each device: its stores, its part in the backup, its loop
  feed,     \* messages of the backup subscription in the device's queue
  jobs,     \* versions its signer opens
  tasks,    \* its saves and deletions under way
  stored,   \* the version each relay keeps
  crossed   \* history: a relay took a save of a device that had not merged what it kept

backupVars == <<backupScene, clock, edits, dev, feed, jobs, tasks, stored, crossed>>

Nowhere == "no relay"
NoStamp == [v |-> 0, at |-> 0 - 1]
Stamp(v, at) == [v |-> v, at |-> at]
NoBackup == [entries |-> [i \in Items |-> NoStamp], tombs |-> [i \in Items |-> NoStamp]]
NoVersion == [at |-> 0 - 1, id |-> <<"nobody", 0>>, gone |-> TRUE, c |-> NoBackup]

Later(a, b) == IF a >= b THEN a ELSE b
Newest(S) == CHOOSE x \in S : \A y \in S : x >= y
Abs(n) == IF n < 0 THEN 0 - n ELSE n
Play(x) == x \in backupScene.may

NoSync == [relay |-> Nowhere, print |-> NoBackup, seen |-> 0, since |-> FALSE,
           stamps |-> [i \in Items |-> NoStamp], removed |-> [i \in Items |-> NoStamp], latest |-> 0]

\* A device as a start leaves it: the stores and BackupConfig read back.  History:
\* `base`, the version it merged or saved last; `torn`, a crash left it a store and
\* a record of the backup that are of different moments.
Started(have, cfg) ==
  [have |-> have, cfg |-> cfg, disk |-> [have |-> have, cfg |-> cfg], on |-> FALSE,
   sub |-> 0, subs |-> 0, heard |-> FALSE, found |-> FALSE, seenAt |-> 0, seenIds |-> {},
   opening |-> 0, unreadable |-> FALSE, epoch |-> 0, busy |-> FALSE, due |-> FALSE, retry |-> FALSE,
   created |-> 0, saves |-> 0, base |-> NoVersion.id, torn |-> FALSE]

BackupInit ==
  /\ backupScene \in BackupScenes
  /\ clock = 1 /\ edits = [n \in 1 .. Newest({0} \cup {backupScene.have[d][i] : d \in Devices, i \in Items}) |-> 0]
  /\ dev = [d \in Devices |-> Started(backupScene.have[d], [NoSync EXCEPT !.relay = backupScene.relay[d]])]
  /\ feed = [d \in Devices |-> <<>>] /\ jobs = [d \in Devices |-> <<>>]
  /\ tasks = [d \in Devices |-> {}] /\ stored = [r \in Relays |-> NoVersion] /\ crossed = FALSE

NowOf(d) == clock + backupScene.ahead[d]

(***************************************************************************)
(* stores/backup.rs                                                        *)
(***************************************************************************)
EditAt(cfg, now) == Later(now, cfg.latest + 1)

\* SyncRecord::note_local_changes
Noted(dv, now) ==
  LET cfg == dv.cfg
      edited == {i \in Items : dv.have[i] > 0 /\ cfg.stamps[i].v # dv.have[i]}
      gone == {i \in Items : dv.have[i] <= 0 /\ cfg.stamps[i] # NoStamp}
      at == IF cfg.since THEN EditAt(cfg, now) ELSE 0
  IN  [dv EXCEPT !.cfg = [cfg EXCEPT
         !.since = TRUE,
         !.stamps = [i \in Items |-> CASE i \in edited -> Stamp(dv.have[i], at)
                                       [] i \in gone -> NoStamp
                                       [] OTHER -> cfg.stamps[i]],
         !.removed = [i \in Items |-> CASE i \in edited -> NoStamp
                                        [] i \in gone -> Stamp(dv.have[i], EditAt(cfg, now))
                                        [] OTHER -> cfg.removed[i]],
         !.latest = IF cfg.since /\ edited \cup gone # {} THEN at ELSE @]]

Pruned(tombs, now) ==
  [i \in Items |-> IF now - tombs[i].at < TombstoneKeep THEN tombs[i] ELSE NoStamp]

\* build_backup, of a device that was Noted: its entries are its stamps.
BuildBackup(dv, now) == [entries |-> dv.cfg.stamps, tombs |-> Pruned(dv.cfg.removed, now)]

\* backup_fingerprint: what the backup holds.
Fingerprint(c) == [entries |-> c.entries, tombs |-> [i \in Items |-> c.tombs[i].at]]

\* merge_backup: removed_here and newer_here
KeepsMine(dv, i, theirs) ==
  \/ dv.cfg.removed[i].at > theirs.at
  \/ dv.have[i] > 0 /\ (dv.cfg.stamps[i].at > theirs.at \/ dv.cfg.stamps[i] = theirs)

\* The entries a merge takes from the backup.
TakesEntries(dv, c) == {i \in Items : c.entries[i] # NoStamp /\ ~ KeepsMine(dv, i, c.entries[i])}

\* The tombstones a merge takes from it.
TakesTombs(dv, c) == {i \in Items : c.tombs[i] # NoStamp /\ ~ dv.cfg.stamps[i].at > c.tombs[i].at}

\* SyncRecord::saw, of every stamp of the backup.
Seen(latest, c) == Newest({latest} \cup {c.entries[i].at : i \in Items} \cup {c.tombs[i].at : i \in Items})

MergeEntries(dv, c) ==
  LET taken == TakesEntries(dv, c)
  IN  [dv EXCEPT !.have = [i \in Items |-> IF i \in taken THEN c.entries[i].v ELSE @[i]],
                 !.cfg.stamps = [i \in Items |-> IF i \in taken THEN c.entries[i] ELSE @[i]],
                 !.cfg.removed = [i \in Items |-> IF i \in taken THEN NoStamp ELSE @[i]]]

MergeTombs(dv, c) ==
  LET taken == TakesTombs(dv, c)
  IN  [dv EXCEPT !.have = [i \in Items |-> IF i \in taken /\ @[i] > 0 THEN c.tombs[i].v ELSE @[i]],
                 !.cfg.stamps = [i \in Items |-> IF i \in taken THEN NoStamp ELSE @[i]],
                 !.cfg.removed = [i \in Items |-> IF i \in taken /\ c.tombs[i].at > @[i].at THEN c.tombs[i] ELSE @[i]]]

MergeBackup(dv, c, now) ==
  LET noted == Noted(dv, now)
      seen == [noted EXCEPT !.cfg.latest = Seen(@, c)]
      merged == MergeTombs(MergeEntries(seen, c), c)
  IN  [merged EXCEPT !.cfg.removed = Pruned(@, now)]

(***************************************************************************)
(* runtime/backup.rs                                                       *)
(***************************************************************************)
Follows(d) == dev[d].on /\ dev[d].cfg.relay # Nowhere

Quiet == \A d \in Devices : ~ dev[d].due /\ ~ dev[d].busy /\ feed[d] = <<>> /\ jobs[d] = <<>> /\ tasks[d] = {}

\* Without "race", the user acts when the devices are done with what was before.
InTurn == Play("race") \/ (Quiet /\ \A e \in Devices : Follows(e) => dev[e].heard)

Anew(d) == dev[d].subs < MaxSubs /\ dev[d].epoch < MaxSubs

Only(d, dv) == dev' = [dev EXCEPT ![d] = dv] /\ UNCHANGED <<backupScene, clock, edits, crossed>>

\* Persister::save_backup
PersistConfig(dv) == [dv EXCEPT !.disk.cfg = dv.cfg]

BackupChanged(dv) == [dv EXCEPT !.due = @ \/ (dv.cfg.relay # Nowhere /\ dv.on)]

ForgetBackupSeen(dv) ==
  [dv EXCEPT !.epoch = @ + 1, !.opening = 0, !.seenAt = 0, !.seenIds = {}, !.unreadable = FALSE]

CloseBackupSub(dv) == [dv EXCEPT !.heard = FALSE, !.sub = 0]

\* Subscribing, the relay answers with what it keeps and its EOSE.
Answer(n, r) ==
  (IF stored[r] = NoVersion THEN <<>> ELSE <<[kind |-> "event", sub |-> n, v |-> stored[r]]>>)
    \o <<[kind |-> "eose", sub |-> n, v |-> NoVersion]>>

Subscribes(dv) == dv.cfg.relay # Nowhere /\ dv.on /\ dv.sub = 0 /\ ~ dv.retry

SyncBackupSub(dv) ==
  IF dv.cfg.relay = Nowhere \/ ~ dv.on THEN CloseBackupSub([dv EXCEPT !.retry = FALSE])
  ELSE IF ~ Subscribes(dv) THEN dv
  ELSE [dv EXCEPT !.found = FALSE, !.seenAt = Later(@, dv.cfg.seen), !.subs = @ + 1, !.sub = dv.subs + 1]

\* The device's loop carries on as `dv`, (re)subscribing where it has to.
SyncSub(d, dv) ==
  /\ Only(d, SyncBackupSub(dv))
  /\ feed' = IF Subscribes(dv) THEN [feed EXCEPT ![d] = @ \o Answer(dv.subs + 1, dv.cfg.relay)] ELSE feed

ResubscribeBackup(d, dv) == SyncSub(d, CloseBackupSub([dv EXCEPT !.retry = FALSE]))

\* Mutant: a save is dated by the device's own clock.
NextCreatedAtOwnClock(d, dv) == Later(NowOf(d), dv.created + 1)

NextCreatedAt(d, dv) == Newest({NowOf(d), dv.created + 1, dv.seenAt + 1})

Task(kind, d, dv, c) ==
  [kind |-> kind, relay |-> dv.cfg.relay, at |-> NextCreatedAt(d, dv), c |-> c, epoch |-> dv.epoch,
   id |-> <<d, dv.saves + 1>>, done |-> FALSE, ok |-> FALSE, base |-> dv.base]

Sending(d, dv, n) == [dv EXCEPT !.busy = TRUE, !.created = NextCreatedAt(d, dv) + n, !.saves = @ + 1]

PutsOff(dv) == dv.busy \/ dv.opening > 0

SaveBackup(d, dv, force) ==
  LET noted == Noted(dv, NowOf(d))
      c == BuildBackup(noted, NowOf(d))
  IN  IF dv.cfg.relay = Nowhere \/ ~ dv.on \/ ~ dv.heard \/ dv.unreadable
        THEN Only(d, dv) /\ UNCHANGED tasks
      ELSE IF PutsOff(dv) THEN Only(d, BackupChanged(dv)) /\ UNCHANGED tasks
      ELSE IF ~ force /\ Fingerprint(dv.cfg.print) = Fingerprint(c) THEN Only(d, noted) /\ UNCHANGED tasks
      ELSE /\ dv.saves < MaxSaves
           /\ Only(d, Sending(d, noted, 0))
           /\ tasks' = [tasks EXCEPT ![d] = @ \cup {Task("save", d, noted, c)}]

SetBackupRelay(d) ==
  \E r \in Relays :
     /\ dev[d].cfg.relay # r /\ InTurn
     /\ dev[d].cfg.relay = Nowhere \/ (Play("move") /\ Anew(d))
     /\ LET dv == [dev[d] EXCEPT !.due = FALSE, !.cfg = [@ EXCEPT !.relay = r, !.print = NoBackup, !.seen = 0]]
        IN  ResubscribeBackup(d, ForgetBackupSeen(PersistConfig(dv)))
     /\ UNCHANGED <<jobs, tasks, stored>>

BackupNow(d) ==
  /\ Play("now") /\ Anew(d) /\ InTurn
  /\ IF dev[d].heard /\ ~ dev[d].unreadable
       THEN SaveBackup(d, dev[d], TRUE) /\ UNCHANGED feed
       ELSE /\ ResubscribeBackup(d, IF dev[d].unreadable THEN ForgetBackupSeen(dev[d]) ELSE dev[d])
            /\ UNCHANGED tasks
  /\ UNCHANGED <<jobs, stored>>

\* Start, and Stop or Pause (stop_now).
SetLinksOn(d) ==
  /\ ~ dev[d].on \/ (Play("stop") /\ Anew(d))
  /\ InTurn
  /\ SyncSub(d, [dev[d] EXCEPT !.on = ~ @])
  /\ UNCHANGED <<jobs, tasks, stored>>

\* note_backup_seen
IsNews(dv, v) == ~ (v.at < dv.seenAt \/ (v.at = dv.seenAt /\ v.id \in dv.seenIds))

NoteBackupSeen(dv, v) ==
  IF ~ IsNews(dv, v) THEN dv
  ELSE IF v.at > dv.seenAt
    THEN [dv EXCEPT !.seenAt = v.at, !.cfg.seen = v.at, !.seenIds = {v.id}]
  ELSE [dv EXCEPT !.seenIds = @ \cup {v.id}]

ForgetBackupRelay(dv) ==
  PersistConfig([ForgetBackupSeen(CloseBackupSub(dv)) EXCEPT !.busy = FALSE, !.retry = FALSE, !.cfg = NoSync])

Message(d, kind) == feed[d] # <<>> /\ Head(feed[d]).kind = kind
Consumed(d) == feed' = [feed EXCEPT ![d] = Tail(@)]

OnBackupEvent(d) ==
  /\ Message(d, "event")
  /\ LET v == Head(feed[d]).v
         dv == [dev[d] EXCEPT !.found = @ \/ ~ v.gone]
         noted == NoteBackupSeen(dv, v)
     IN  IF ~ IsNews(dv, v) \/ (v.gone /\ ~ dv.cfg.since) THEN Only(d, noted) /\ UNCHANGED jobs
         ELSE IF v.gone THEN Only(d, ForgetBackupRelay([noted EXCEPT !.due = FALSE])) /\ UNCHANGED jobs
         ELSE /\ Only(d, [noted EXCEPT !.opening = @ + 1])
              /\ jobs' = [jobs EXCEPT ![d] = Append(@, [v |-> v, epoch |-> dv.epoch])]
  /\ Consumed(d) /\ UNCHANGED <<tasks, stored>>

OnBackupEose(d) ==
  /\ Message(d, "eose")
  /\ LET dv == dev[d]
         heard == [dv EXCEPT !.heard = TRUE]
     IN  IF Head(feed[d]).sub # dv.sub \/ dv.heard THEN Only(d, dv) /\ UNCHANGED tasks
         ELSE IF dv.found THEN Only(d, BackupChanged(heard)) /\ UNCHANGED tasks
         ELSE SaveBackup(d, heard, TRUE)
  /\ Consumed(d) /\ UNCHANGED <<jobs, stored>>

OnBackupClosed(d) ==
  /\ Message(d, "closed")
  /\ Only(d, IF Head(feed[d]).sub = dev[d].sub THEN CloseBackupSub([dev[d] EXCEPT !.retry = TRUE]) ELSE dev[d])
  /\ Consumed(d) /\ UNCHANGED <<jobs, tasks, stored>>

BackupRetry(d) ==
  /\ dev[d].retry
  /\ SyncSub(d, [dev[d] EXCEPT !.retry = FALSE])
  /\ UNCHANGED <<jobs, tasks, stored>>

\* What a merge of `c` leaves; the machines are written a while later (FlushWrites),
\* the prompts and the config at once.
Fetched(dv, c, now) ==
  LET merged == [MergeBackup(dv, c, now) EXCEPT !.unreadable = FALSE, !.cfg.print = c]
      kept == [i \in Items |-> IF i = "prompts" THEN merged.have[i] ELSE merged.disk.have[i]]
  IN  BackupChanged(PersistConfig([merged EXCEPT !.disk.have = kept]))

\* The signer opens the next version and the loop merges it.
OnBackupFetched(d) ==
  /\ jobs[d] # <<>>
  /\ jobs' = [jobs EXCEPT ![d] = Tail(@)]
  /\ LET job == Head(jobs[d])
         dv == [dev[d] EXCEPT !.opening = IF @ > 0 THEN @ - 1 ELSE 0]
     IN  IF job.epoch # dev[d].epoch THEN Only(d, dev[d])
         ELSE \/ Only(d, [Fetched(dv, job.v.c, NowOf(d)) EXCEPT !.base = job.v.id])
              \/ Play("unreadable") /\ Only(d, [dv EXCEPT !.unreadable = TRUE])
  /\ UNCHANGED <<feed, tasks, stored>>

OnBackupDue(d) ==
  /\ dev[d].due
  /\ SaveBackup(d, [dev[d] EXCEPT !.due = FALSE], FALSE)
  /\ UNCHANGED <<feed, jobs, stored>>

\* Off: a deletion first empties the backup's address, dated after the NIP-09 deletion.
DisableBackup(d) ==
  /\ dev[d].cfg.relay # Nowhere /\ InTurn /\ Anew(d)
  /\ LET dv == CloseBackupSub([dev[d] EXCEPT !.due = FALSE, !.retry = FALSE])
     IN  \/ /\ Play("off")
            /\ Only(d, ForgetBackupRelay(dv)) /\ UNCHANGED tasks
         \/ /\ Play("delete") /\ dv.saves < MaxSaves
            /\ Only(d, ForgetBackupSeen(Sending(d, dv, 1)))
            /\ tasks' = [tasks EXCEPT ![d] = @ \cup {[Task("delete", d, dv, NoBackup) EXCEPT !.at = @ + 1]}]
  /\ UNCHANGED <<feed, jobs, stored>>

OnTaskDone(d) ==
  \E t \in {x \in tasks[d] : x.done} :
     LET saved == [dev[d] EXCEPT !.busy = FALSE, !.cfg.print = t.c, !.base = t.id]
     IN  /\ tasks' = [tasks EXCEPT ![d] = @ \ {t}]
         /\ Only(d, CASE t.kind = "delete" -> ForgetBackupRelay(dev[d])
                      [] t.kind = "save" /\ t.epoch # dev[d].epoch -> dev[d]
                      [] t.kind = "save" /\ t.epoch = dev[d].epoch /\ ~ t.ok -> [dev[d] EXCEPT !.busy = FALSE]
                      [] OTHER -> PersistConfig(NoteBackupSeen(saved, [at |-> t.at, id |-> t.id])))
         /\ UNCHANGED <<feed, jobs, stored>>

(***************************************************************************)
(* The user and the process                                                *)
(***************************************************************************)
\* The user edits an item, pairs a machine or removes one: persist_store writes the
\* prompts at once and the machines a while later.
EditItem(d) ==
  /\ Len(edits) < backupScene.edits
  /\ InTurn
  /\ \E i \in Items, remove \in BOOLEAN :
       /\ remove => Play("remove") /\ i # "prompts" /\ dev[d].have[i] > 0
       /\ LET n == IF remove THEN 0 - (Len(edits) + 1) ELSE Len(edits) + 1
              dv == [dev[d] EXCEPT !.have[i] = n, !.disk.have[i] = IF i = "prompts" THEN n ELSE @]
          IN  dev' = [dev EXCEPT ![d] = BackupChanged(dv)]
       /\ edits' = Append(edits, IF dev[d].cfg.since THEN Abs(dev[d].have[i]) ELSE 0)
  /\ UNCHANGED <<backupScene, clock, feed, jobs, tasks, stored, crossed>>

FlushWrites(d) ==
  /\ dev[d].disk.have # dev[d].have
  /\ Only(d, [dev[d] EXCEPT !.disk.have = dev[d].have])
  /\ UNCHANGED <<feed, jobs, tasks, stored>>

RECURSIVE MadeOn(_, _)
MadeOn(n, old) == n # 0 /\ (edits[n] = old \/ MadeOn(edits[n], old))

\* The record on disk lacks stamps the device gave, or knows of a later value than
\* the store on disk has.
Torn(dv) ==
  \/ dv.cfg.stamps # dv.disk.cfg.stamps \/ dv.cfg.removed # dv.disk.cfg.removed
  \/ \E i \in Items : \E s \in {dv.cfg.stamps[i], dv.cfg.removed[i]} : MadeOn(Abs(s.v), Abs(dv.disk.have[i]))

CrashDevice(d) ==
  /\ Play("crash") /\ dev[d].on /\ Anew(d)
  /\ Only(d, [Started(dev[d].disk.have, dev[d].disk.cfg) EXCEPT
               !.subs = dev[d].subs, !.saves = dev[d].saves, !.torn = dev[d].torn \/ Torn(dev[d])])
  /\ feed' = [feed EXCEPT ![d] = <<>>] /\ jobs' = [jobs EXCEPT ![d] = <<>>] /\ tasks' = [tasks EXCEPT ![d] = {}]
  /\ UNCHANGED stored

\* "still": all of it happens within one second.
BackupTick ==
  /\ ~ Play("still") /\ clock < MaxClock /\ clock' = clock + 1
  /\ UNCHANGED <<backupScene, edits, dev, feed, jobs, tasks, stored, crossed>>

(***************************************************************************)
(* The relay: an addressable event, so it keeps the newest version, gives  *)
(* it to every subscriber, and may end a subscription.                     *)
(***************************************************************************)
Version(t) == [at |-> t.at, id |-> t.id, gone |-> t.kind = "delete", c |-> t.c]

RelayTakes(d) ==
  \E t \in {x \in tasks[d] : ~ x.done}, ok \in BOOLEAN :
     /\ ok \/ Play("fail") \/ t.at < stored[t.relay].at
     /\ \/ /\ t.at >= stored[t.relay].at
           /\ stored' = [stored EXCEPT ![t.relay] = Version(t)]
           /\ feed' = [e \in Devices |->
                IF dev[e].sub # 0 /\ dev[e].cfg.relay = t.relay
                  THEN Append(feed[e], [kind |-> "event", sub |-> dev[e].sub, v |-> Version(t)]) ELSE feed[e]]
        \/ /\ t.at <= stored[t.relay].at \/ ~ ok
           /\ UNCHANGED <<stored, feed>>
     /\ tasks' = [tasks EXCEPT ![d] = (@ \ {t}) \cup {[t EXCEPT !.done = TRUE, !.ok = ok]}]
     /\ crossed' = (crossed \/ (t.kind = "save" /\ ~ stored[t.relay].gone /\ stored[t.relay].id # t.base))
     /\ UNCHANGED <<backupScene, clock, edits, dev, jobs>>

RelayCloses(d) ==
  /\ Play("closed") /\ dev[d].sub # 0 /\ Anew(d)
  /\ \A k \in DOMAIN feed[d] : feed[d][k].kind # "closed"
  /\ feed' = [feed EXCEPT ![d] = Append(@, [kind |-> "closed", sub |-> dev[d].sub, v |-> NoVersion])]
  /\ UNCHANGED <<backupScene, clock, edits, dev, jobs, tasks, stored, crossed>>

BackupNext ==
  \/ \E d \in Devices :
       \/ OnBackupEvent(d) \/ OnBackupEose(d) \/ OnBackupClosed(d) \/ BackupRetry(d)
       \/ OnBackupFetched(d) \/ OnBackupDue(d) \/ OnTaskDone(d) \/ FlushWrites(d)
       \/ SetBackupRelay(d) \/ BackupNow(d) \/ SetLinksOn(d) \/ DisableBackup(d)
       \/ EditItem(d) \/ CrashDevice(d) \/ RelayTakes(d) \/ RelayCloses(d)
  \/ BackupTick

BackupSpec == BackupInit /\ [][BackupNext]_backupVars

(***************************************************************************)
(* Properties                                                              *)
(***************************************************************************)
\* A merge gives device `d` an item's earlier value back for one made on top of it.
Undone(d) ==
  \E i \in Items :
     /\ dev[d].cfg.since /\ dev'[d].on /\ Abs(dev'[d].have[i]) # 0
     /\ MadeOn(Abs(dev[d].have[i]), Abs(dev'[d].have[i]))

\* "An edit made after seeing another device's change always wins over it, however
\* far ahead that device's clock ran": no merge undoes an edit.  In no run: a merge
\* writes the record at once and the machines a while later, and a save writes the
\* stamps it gives once it is confirmed, so after a crash in between the older value
\* of one of them looks like a fresh edit.
LaterEditAlwaysWins == [][\A d \in Devices : ~ Undone(d)]_backupVars

\* The same, as long as no crash has left a device such a pair.
LaterEditWins == [][(\A d \in Devices : ~ dev[d].torn) => \A d \in Devices : ~ Undone(d)]_backupVars

\* A device that puts its saves off because one is under way has one under way,
\* whose end lets the next one go.
BusyIsSaving ==
  \A d \in Devices :
     dev[d].busy => \E t \in tasks[d] : t.kind = "delete" \/ t.epoch = dev[d].epoch

Agree ==
  \A d, e \in Devices, i \in Items :
     Follows(d) /\ Follows(e) /\ dev[d].cfg.relay = dev[e].cfg.relay =>
       Later(dev[d].have[i], 0) = Later(dev[e].have[i], 0)

\* Nothing is due or on its way, and every device that follows a backup has read it.
Settled == Quiet /\ ~ Play("fail") /\ \A d \in Devices : Follows(d) => dev[d].heard /\ ~ dev[d].unreadable

\* "Two devices whose sides tie end up with the same one, never each with its own":
\* the devices that follow a backup hold the same when they are done.  In no run: of
\* two saves of one second the relay may keep either, and a device that opens the
\* other's older version after its own save takes it on a tie, while the other takes
\* its newer one.
TiesAgree == Settled => Agree

\* The same, as long as every save was made by a device that had merged the version
\* the relay kept when it came.
QuietAgree == Settled /\ ~ crossed => Agree

\* The backup: no device is left believing it saves, quiet devices whose saves did
\* not cross agree, and an edit made on top of another is never undone by it unless
\* a crash tore a device's record from its store.
BackupKept ==
  /\ [](BusyIsSaving /\ QuietAgree)
  /\ LaterEditWins
=============================================================================
