---------------------------- MODULE SessionKeys ----------------------------
(***************************************************************************)
(* The session keys between one phone and one bridge: the phone's ring     *)
(* (client-core stores/session_key.rs), the grants it makes and what it    *)
(* holds back while one is unconfirmed (client-runtime runtime/grant.rs    *)
(* and the sends of runtime.rs), and the bridge's clients: their keys,     *)
(* presence and copies (bridge-core engine/session_keys.rs).               *)
(*                                                                         *)
(* A key is [id, exp].  This phone's keys have ids 1, 2, ...; another      *)
(* client's of the same identity a negative one; Identity stands for the   *)
(* identity's own key.  Time is in ticks.  Every bridge input ends with    *)
(* its flush, so the lists it owes never outlive a step.                   *)
(***************************************************************************)
EXTENDS Integers, Sequences, FiniteSets, SequencesExt

CONSTANTS Lifetime,      \* GRANT_LIFETIME_SECS
          RenewBefore,   \* RENEW_BEFORE_SECS
          UseMargin,     \* USE_MARGIN_SECS
          RegrantEvery,  \* REGRANT_EVERY_MS
          Lease,         \* PRESENCE_LEASE_SECS
          HeldEventsMax, \* HELD_EVENTS_MAX
          MaxClients,    \* MAX_CLIENTS
          MaxCopies,
          KeyScenes      \* what each instance starts from and may meet

ASSUME KeyConstants ==
    /\ {Lifetime, RenewBefore, UseMargin, RegrantEvery, Lease} \subseteq Nat
    /\ {HeldEventsMax, MaxClients} \subseteq Nat \ {0}

VARIABLES now,     \* the clock
          kp,      \* the phone
          kb,      \* the bridge: the clients of the identity, in order
          toBridge, toPhone,   \* commands and copies on their way
          keyScene

keyVars == <<now, kp, kb, toBridge, toPhone, keyScene>>

Identity == 0
NoKey == [id |-> -99, exp |-> 0]
NoGrant == [id |-> -99, exp |-> 0, at |-> -1]
NoWait == [seq |-> 0, armed |-> FALSE, cmds |-> <<>>, evs |-> <<>>]
NoCommand == [n |-> 0, kind |-> "grant", grant |-> NoKey, replaces |-> -99]

KeyMay(what) == what \in keyScene.may

\* A command as the phone's caller asks for it.
Command(n, kind) == [NoCommand EXCEPT !.n = n, !.kind = kind]

-----------------------------------------------------------------------------
(* The ring.                                                               *)

FreshKey(id, t) == [id |-> id, exp |-> t + Lifetime]

LiveAt(k, t) == k.exp > t

\* The live keys of the ring, current first.
RingKeys(p) == {k \in {p.cur, p.prev} : LiveAt(k, now)}

\* SessionKeyRing::load: the ring the host stored.
LoadedRing(cur, prev, first) == [cur |-> cur, prev |-> prev, first |-> first]

RotateIfDue(p) ==
    IF p.cur.exp >= now + RenewBefore THEN p
    ELSE [p EXCEPT !.cur = FreshKey(p.cur.id + 1, now),
                   !.prev = IF LiveAt(p.cur, now) THEN p.cur ELSE NoKey]

DropUnusedPrevious(p) ==
    IF LiveAt(p.prev, now) /\ p.grant.id = p.prev.id /\ p.grant.exp > now THEN p
    ELSE [p EXCEPT !.prev = NoKey]

\* The session key commands go out under, if the bridge confirmed one.
SessionKeyOf(p) == IF p.grant.exp > now + UseMargin THEN {p.grant.id} ELSE {}

CipherFor(p) ==
    LET held == {k.id : k \in RingKeys(p)} \cap SessionKeyOf(p)
    IN  IF held = {} THEN Identity ELSE CHOOSE k \in held : TRUE

WantsSessionGrant(p) == ~(p.grant.id = p.cur.id /\ p.grant.exp >= now + RenewBefore)

SessionGrantSentAt(p) == IF p.grant.at > p.sent.at THEN p.grant.at ELSE p.sent.at

\* Mutant: a copy to any key of the ring confirms the grant last sent.
NoteHeardViaAnyKey(p, to, at) ==
    IF to # Identity THEN IF p.sent = NoGrant THEN p ELSE [p EXCEPT !.grant = p.sent, !.sent = NoGrant]
    ELSE IF p.grant # NoGrant /\ at > p.grant.at THEN [p EXCEPT !.grant = NoGrant] ELSE p

NoteHeardVia(p, to, at) ==
    IF to # Identity THEN IF p.sent.id # to THEN p ELSE [p EXCEPT !.grant = p.sent, !.sent = NoGrant]
    ELSE IF p.grant # NoGrant /\ at > p.grant.at THEN [p EXCEPT !.grant = NoGrant] ELSE p

-----------------------------------------------------------------------------
(* The phone's sends.  Everything to sign or to decrypt goes through one   *)
(* queue to the identity's signer.                                         *)

SendJob(c, key, seq) == [job |-> "send", cmd |-> c, key |-> key, seq |-> seq]

ToSigner(p, c, key, seq) ==
    [p EXCEPT !.jobs = Append(@, SendJob(c, key, seq)), !.sends = [n \in DOMAIN @ |-> @[n] + (IF n = c.n THEN 1 ELSE 0)]]

\* PhoneKeys::grant_for: the current key, and the one it replaces there.
GrantFor(p) ==
    [NoCommand EXCEPT !.grant = p.cur,
                      !.replaces = IF p.grant.id # p.cur.id THEN p.grant.id ELSE -99]

GrantIfDue(p) ==
    IF \/ p.wait # NoWait \/ ~WantsSessionGrant(p)
       \/ p.tried >= 0 /\ now - p.tried < RegrantEvery
    THEN p
    ELSE LET q == [p EXCEPT !.tried = now, !.sent = [id |-> p.cur.id, exp |-> p.cur.exp, at |-> now]]
         IN  IF CipherFor(q) # Identity
             THEN ToSigner(q, GrantFor(q), CipherFor(q), 0)
             ELSE ToSigner([q EXCEPT !.seq = @ + 1, !.wait = [NoWait EXCEPT !.seq = p.seq + 1]],
                           GrantFor(q), Identity, p.seq + 1)

HoldForGrant(p, c) ==
    LET q == GrantIfDue(p)
    IN  IF q.wait = NoWait THEN ToSigner(q, c, Identity, 0)
        ELSE [q EXCEPT !.wait.cmds = Append(@, c)]

SignAndPublish(p, c) ==
    IF CipherFor(p) # Identity THEN ToSigner(p, c, CipherFor(p), 0) ELSE HoldForGrant(p, c)

Outdone(e, evs) ==
    \/ e.kind = "live"
    \/ e.kind = "list" /\ \E i \in DOMAIN evs : evs[i].kind = "list" /\ evs[i].at > e.at

EndGrantWait(p, confirmed) ==
    IF p.wait = NoWait THEN p
    ELSE LET held == p.wait.cmds
             evs == p.wait.evs
             answered == {i \in DOMAIN held : confirmed /\ held[i].kind = "refresh"}
             again == SelectSeq(held, LAMBDA c : ~(confirmed /\ c.kind = "refresh"))
             opened == IF confirmed THEN <<>> ELSE SelectSeq(evs, LAMBDA e : ~Outdone(e, evs))
             freed == [p EXCEPT !.wait = NoWait, !.answered = @ \cup {held[i].n : i \in answered}]
             sent == FoldLeft(SignAndPublish, freed, again)
         IN  [sent EXCEPT !.jobs = @ \o [i \in DOMAIN opened |-> [job |-> "read", copy |-> opened[i]]]]

\* RotateSessionKeyIfDue, then a grant to the machine if it wants one.
GrantSessionKeyIfDue(p) ==
    LET r == RotateIfDue(p)
    IN  GrantIfDue(IF r = p THEN p ELSE [DropUnusedPrevious(r) EXCEPT !.tried = -1])

\* A copy to the identity: skipped, held, or left to the signer to decrypt.
OnIdentityCopy(p, c) ==
    LET heard == NoteHeardVia(p, Identity, c.at)
        lost == IF heard = p THEN p ELSE [heard EXCEPT !.tried = -1]
        before == SessionGrantSentAt(lost)
        q == GrantIfDue(lost)
        since == IF before >= 0 THEN before ELSE SessionGrantSentAt(q)
        kept == IF Len(q.wait.evs) >= HeldEventsMax THEN Tail(q.wait.evs) ELSE q.wait.evs
    IN  IF c.at < since THEN q
        ELSE IF q.wait # NoWait THEN [q EXCEPT !.wait.evs = Append(kept, c)]
        ELSE [q EXCEPT !.jobs = Append(@, [job |-> "read", copy |-> c])]

\* on_ingested for a copy to a key of the ring.
OnSessionCopy(p, c) ==
    LET heard == NoteHeardVia(p, c.to, c.at)
        kept == IF heard = p THEN p ELSE DropUnusedPrevious(heard)
    IN  GrantSessionKeyIfDue(EndGrantWait(kept, TRUE))

-----------------------------------------------------------------------------
(* The bridge.                                                             *)

Present(c) == c.until > now

\* Only a copy to the identity is ever dated by its reader.
Copy(to, kind) == [to |-> to, at |-> IF to = Identity THEN now ELSE 0, kind |-> kind]

LiveClients(cs) == {i \in DOMAIN cs : LiveAt(cs[i].key, now)}

PayloadKeys(cs) ==
    {k.id : k \in {k \in {cs[i].key : i \in DOMAIN cs} \cup {cs[i].prev : i \in DOMAIN cs} : LiveAt(k, now)}}

CopyKeysWhere(cs, Wanted(_)) ==
    IF LiveClients(cs) = {} THEN {Identity}
    ELSE {cs[i].key.id : i \in {i \in LiveClients(cs) : Present(cs[i]) /\ Wanted(cs[i])}}

CopyKeys(cs) == CopyKeysWhere(cs, LAMBDA c : TRUE)

\* A partial goes to the clients that watch its session or have not said.
CopyKeysWatching(cs) == CopyKeysWhere(cs, LAMBDA c : c.watch # "nothing")

PruneSessionKeys(cs) ==
    LET live == SelectSeq(cs, LAMBDA c : LiveAt(c.key, now))
    IN  [i \in DOMAIN live |-> IF LiveAt(live[i].prev, now) THEN live[i] ELSE [live[i] EXCEPT !.prev = NoKey]]

KeyTaken(cs, id) == \E i \in DOMAIN cs : cs[i].prev.id = id

HolderOf(cs, key) == {i \in DOMAIN cs : key \in {cs[i].key.id, cs[i].prev.id}}

\* Whether the client that sent this was away until now (note_presence's result).
WasAway(cs, key, kind) ==
    \E i \in HolderOf(cs, key) : kind # "away" /\ ~(Present(cs[i]) /\ ~cs[i].presumed)

NotePresence(cs, key, kind) ==
    [i \in DOMAIN cs |->
        IF i \notin HolderOf(cs, key) THEN cs[i]
        ELSE [cs[i] EXCEPT !.presumed = FALSE,
                           !.until = IF kind = "away" THEN 0 ELSE now + Lease,
                           !.watch = CASE kind = "away" -> "nothing"
                                       [] kind = "watching" -> "session"
                                       [] OTHER -> @]]

\* A client that starts watching is sent the live parts, alone.
CatchUpLiveText(cs, key, kind) ==
    {Copy(cs[i].key.id, "live") : i \in {i \in HolderOf(cs, key) : kind = "watching" /\ cs[i].watch # "session"}}

NewClient(k) ==
    [key |-> k, prev |-> NoKey, device |-> k.id, until |-> now + Lease, presumed |-> FALSE, watch |-> "unknown"]

\* The clients without the one heard from least recently, when there are too many.
RoomForOne(cs) ==
    LET Quieter(i, j) == \/ cs[i].until < cs[j].until
                         \/ cs[i].until = cs[j].until /\ cs[i].key.exp <= cs[j].key.exp
        quietest == CHOOSE i \in DOMAIN cs : \A j \in DOMAIN cs : Quieter(i, j)
    IN  IF Len(cs) < MaxClients THEN cs ELSE RemoveAt(cs, quietest)

\* The grants the bridge refuses: lapsed, or a key a client rotated away from.
GrantRefused(cs, k) == k.exp <= now \/ KeyTaken(cs, k.id)

GrantSessionKey(cs, m) ==
    LET live == SelectSeq(cs, LAMBDA c : LiveAt(c.key, now))
        k == m.cmd.grant
        renewed == {i \in DOMAIN live : live[i].key.id = k.id}
        rotated == {i \in DOMAIN live : m.cmd.replaces = m.key /\ live[i].key.id = m.key}
        Renew(c) == [c EXCEPT !.until = now + Lease]
        Rotate(c) == [Renew(c) EXCEPT !.prev = c.key, !.key = k]
        On(which, F(_)) == [i \in DOMAIN live |-> IF i \in which THEN F(live[i]) ELSE live[i]]
    IN  IF GrantRefused(cs, k) THEN cs
        ELSE IF renewed # {} THEN On(renewed, Renew)
        ELSE IF rotated # {} THEN On(rotated, Rotate)
        ELSE Append(RoomForOne(live), NewClient(k))

\* The lists a step owes: the shared one, and the clients' own unless the
\* shared one says as much (no tombstone is older than it carries).
Flush(cs, dirty, wanted) ==
    (IF dirty THEN {Copy(k, "list") : k \in CopyKeys(cs)} ELSE {})
      \cup (IF dirty /\ ~keyScene.old THEN {} ELSE {Copy(k, "own list") : k \in wanted})

\* Whether this phone has missed something shared, after a step's copies.
Missed(missed, copies, shared) ==
    LET mine == {c \in copies : c.to >= Identity}
        complete == {c \in mine : c.kind = "own list" \/ (c.kind = "list" /\ ~keyScene.old)}
    IN  IF complete # {} THEN FALSE ELSE missed \/ (shared /\ mine = {})

-----------------------------------------------------------------------------
(* Steps of the phone.                                                     *)

KeyRoom == Cardinality(toPhone) <= MaxCopies /\ Len(kp.jobs) <= MaxCopies

\* A caller sends a command, held back or not.
Issue ==
    /\ kp.n < keyScene.commands
    /\ \E kind \in {"input", "refresh"} : KeyMay(kind) /\
          kp' = SignAndPublish([kp EXCEPT !.n = @ + 1], Command(kp.n + 1, kind))
    /\ UNCHANGED <<now, kb, toBridge, toPhone, keyScene>>

\* The app is hidden (say_away), shows a session (send_watching) or renews its
\* lease (renew_presence): told only to a bridge that knows this client's key.
SayPresence ==
    /\ kp.n < keyScene.commands /\ CipherFor(kp) # Identity
    /\ \E kind \in {"presence", "watching", "away"} : KeyMay(kind) /\
          kp' = SignAndPublish([kp EXCEPT !.n = @ + 1], Command(kp.n + 1, kind))
    /\ UNCHANGED <<now, kb, toBridge, toPhone, keyScene>>

\* The signer takes the next job: a command it signs is published, or it fails.
RunSigner ==
    /\ kp.jobs # <<>>
    /\ LET j == Head(kp.jobs) IN
       \/ /\ j.job = "send"
          /\ \E ok \in {TRUE} \cup (IF KeyMay("signer fails") THEN {FALSE} ELSE {}) :
                /\ kp' = [kp EXCEPT !.jobs = Tail(@), !.told = IF j.seq = 0 THEN @ ELSE Append(@, [seq |-> j.seq, ok |-> ok])]
                /\ toBridge' = IF ok THEN toBridge \cup {[cmd |-> j.cmd, key |-> j.key]} ELSE toBridge
       \/ /\ j.job = "read"
          /\ kp' = GrantSessionKeyIfDue(NoteHeardVia([kp EXCEPT !.jobs = Tail(@)], Identity, j.copy.at))
          /\ UNCHANGED toBridge
    /\ UNCHANGED <<now, kb, toPhone, keyScene>>

OnGrantPublished ==
    /\ kp.told # <<>>
    /\ LET t == Head(kp.told)
           q == [kp EXCEPT !.told = Tail(@)]
       IN  kp' = IF kp.wait.seq # t.seq THEN q
                 ELSE IF t.ok THEN [q EXCEPT !.wait.armed = TRUE]
                 ELSE EndGrantWait(q, FALSE)
    /\ UNCHANGED <<now, kb, toBridge, toPhone, keyScene>>

\* Mutant: the wait's timer does nothing.
OnGrantWaitOverIgnored ==
    /\ kp.wait.armed
    /\ FALSE
    /\ UNCHANGED keyVars

OnGrantWaitOver ==
    /\ kp.wait.armed
    /\ kp' = EndGrantWait(kp, FALSE)
    /\ UNCHANGED <<now, kb, toBridge, toPhone, keyScene>>

\* A copy reaches the phone: one to no live key of its own is not for it.
OnRelayCopy ==
    \E c \in toPhone :
        /\ toPhone' = toPhone \ {c}
        /\ \/ c.to = Identity /\ kp' = OnIdentityCopy(kp, c)
           \/ c.to \in {k.id : k \in RingKeys(kp)} /\ kp' = OnSessionCopy(kp, c)
           \/ c.to \notin {Identity} \cup {k.id : k \in RingKeys(kp)} /\ UNCHANGED kp
        /\ UNCHANGED <<now, kb, toBridge, keyScene>>

LoseCopy ==
    /\ KeyMay("lose")
    /\ \E c \in toPhone : toPhone' = toPhone \ {c}
    /\ UNCHANGED <<now, kp, kb, toBridge, keyScene>>

\* The app is killed and started again: what was held in memory is gone, and a
\* grant sent may not have been saved yet.
PhoneRestarts ==
    /\ KeyMay("restart")
    /\ \E saved \in BOOLEAN :
         LET r == RotateIfDue(kp)
             gone == {kp.wait.cmds[i].n : i \in DOMAIN kp.wait.cmds}
         IN  kp' = [r EXCEPT !.wait = NoWait, !.jobs = <<>>, !.told = <<>>, !.tried = -1, !.seq = 0,
                             !.sent = IF saved THEN @ ELSE NoGrant, !.answered = @ \cup gone]
    /\ UNCHANGED <<now, kb, toBridge, toPhone, keyScene>>

-----------------------------------------------------------------------------
(* Steps of the bridge.                                                    *)

\* The clients a crash falls back to: those before the last change that
\* store_paired queued for the state file's writer thread.
Unsaved(cs) ==
    LET KeysOf(clients) == [i \in DOMAIN clients |-> {clients[i].key, clients[i].prev}]
    IN  IF KeyMay("crash") /\ KeysOf(cs) # KeysOf(kb.clients) THEN kb.clients ELSE kb.saved

Publishes(b, cs, copies, shared) ==
    /\ toPhone' = toPhone \cup {c \in copies : c.to >= Identity}
    /\ kb' = [b EXCEPT !.clients = cs, !.missed = Missed(@, copies, shared), !.saved = Unsaved(cs),
                        !.evicted = @ \cup {k \in UNION {{c.key.id, c.prev.id} : c \in Range(kb.clients)} :
                                              \A c \in Range(cs) : \A d \in Range(kb.clients) :
                                                  k \in {d.key.id, d.prev.id} => c.device # d.device}]

\* A command of the paired identity: one under a key it does not hold is dropped.
OnCommand ==
    \E m \in toBridge :
        /\ KeyRoom
        /\ toBridge' = toBridge \ {m}
        /\ IF m.key \notin {Identity} \cup PayloadKeys(kb.clients) THEN UNCHANGED <<kb, toPhone>>
           ELSE LET cs == NotePresence(kb.clients, m.key, m.cmd.kind)
                    granted == IF m.cmd.kind = "grant" THEN GrantSessionKey(cs, m) ELSE cs
                    taken == m.cmd.kind = "grant" /\ ~GrantRefused(cs, m.cmd.grant)
                    back == WasAway(kb.clients, m.key, m.cmd.kind)
                    wanted == IF back \/ m.cmd.kind = "refresh" THEN {m.key} ELSE {}
                IN  Publishes(kb, granted, CatchUpLiveText(kb.clients, m.key, m.cmd.kind)
                                         \cup Flush(granted, taken, wanted), taken)
        /\ UNCHANGED <<now, kp, keyScene>>

\* A card, a session change or live text goes to the clients it is for.
Share ==
    /\ KeyRoom
    /\ \/ KeyMay("card") /\ Publishes(kb, kb.clients, {Copy(k, "card") : k \in CopyKeys(kb.clients)}, TRUE)
       \/ KeyMay("live") /\ Publishes(kb, kb.clients, {Copy(k, "live") : k \in CopyKeysWatching(kb.clients)}, FALSE)
    /\ UNCHANGED <<now, kp, toBridge, keyScene>>

Heartbeat ==
    /\ KeyRoom /\ KeyMay("beat") /\ kb.beat < now
    /\ LET cs == PruneSessionKeys(kb.clients)
       IN  Publishes([kb EXCEPT !.beat = now], cs, Flush(cs, TRUE, {}), TRUE)
    /\ UNCHANGED <<now, kp, toBridge, keyScene>>

\* Another client of the identity grants its own key.
OtherGrants ==
    /\ KeyRoom /\ KeyMay("others")
    /\ \E n \in 1..MaxClients :
         LET k == [id |-> -n, exp |-> now + Lifetime]
             cs == GrantSessionKey(kb.clients, [cmd |-> [NoCommand EXCEPT !.grant = k], key |-> Identity])
         IN  /\ \A c \in Range(kb.clients) : c.key.id # -n
             /\ Publishes(kb, cs, Flush(cs, TRUE, {}), TRUE)
    /\ UNCHANGED <<now, kp, toBridge, keyScene>>

\* The bridge restarts: every client counts as present, and none has said what
\* it watches.
Presumed(clients) ==
    [i \in DOMAIN clients |-> [clients[i] EXCEPT !.until = now + 1, !.presumed = TRUE, !.watch = "unknown"]]

PresumePresent ==
    /\ KeyRoom /\ KeyMay("bridge restarts")
    /\ LET cs == Presumed(kb.clients) IN Publishes(kb, cs, Flush(cs, TRUE, {}), TRUE)
    /\ UNCHANGED <<now, kp, toBridge, keyScene>>

\* It restarts after a crash before the last change of the clients was written.
CrashUnsaved ==
    /\ KeyRoom /\ KeyMay("crash") /\ kb.saved # kb.clients
    /\ LET cs == Presumed(kb.saved)
           known == PayloadKeys(kb.clients) \ PayloadKeys(cs)
       IN  Publishes([kb EXCEPT !.forgot = @ \cup known], cs, Flush(cs, TRUE, {}), TRUE)
    /\ UNCHANGED <<now, kp, toBridge, keyScene>>

KeyTime ==
    /\ now < keyScene.until /\ now' = now + 1
    /\ UNCHANGED <<kp, kb, toBridge, toPhone, keyScene>>

-----------------------------------------------------------------------------
KeyInit ==
    /\ now = 1
    /\ keyScene \in KeyScenes
    /\ toBridge = {} /\ toPhone = {}
    /\ LET k == FreshKey(1, 0)
           ring == LoadedRing(k, NoKey, 1)
           confirmed == IF keyScene.confirmed THEN [id |-> 1, exp |-> k.exp, at |-> 0] ELSE NoGrant
           clients == IF keyScene.confirmed THEN <<[NewClient(k) EXCEPT !.until = 1 + Lease]>> ELSE <<>>
       IN  /\ kp = [cur |-> ring.cur, prev |-> ring.prev, first |-> ring.first, grant |-> confirmed, sent |-> NoGrant,
                    tried |-> -1, wait |-> NoWait, seq |-> 0, jobs |-> <<>>, told |-> <<>>, n |-> 0,
                    sends |-> [i \in 1..keyScene.commands |-> 0], answered |-> {}]
           /\ kb = [clients |-> clients, saved |-> IF KeyMay("crash") THEN clients ELSE <<>>,
                    missed |-> FALSE, beat |-> 0, evicted |-> {}, forgot |-> {}]

KeyNext ==
    \/ Issue \/ SayPresence \/ RunSigner \/ OnGrantPublished \/ OnGrantWaitOver
    \/ OnRelayCopy \/ LoseCopy \/ PhoneRestarts
    \/ OnCommand \/ Share \/ Heartbeat \/ OtherGrants \/ PresumePresent \/ CrashUnsaved \/ KeyTime

KeySpec == KeyInit /\ [][KeyNext]_keyVars

-----------------------------------------------------------------------------
(* Properties.                                                             *)

\* The key the phone encrypts its commands with is one the bridge reads, through
\* rotations, lost copies and restarts of either: unless the bridge dropped that
\* client to make room (RoomForOne), which nothing tells the phone, or took the key
\* in a grant it lost in a crash (Engine::store_paired only queues the write).
KeyIsRead == CipherFor(kp) \in {Identity} \cup PayloadKeys(kb.clients) \cup kb.evicted \cup kb.forgot

\* "once a bridge confirms a grant, command payloads to it are encrypted with the
\* session key and its messages come encrypted to it" (stores/session_key.rs:9-11):
\* whatever the bridge lost in a crash, the phone's key is one it reads.  In no run.
KeyAlwaysRead == CipherFor(kp) \in {Identity} \cup PayloadKeys(kb.clients) \cup kb.evicted

\* Each command handed to sign_and_publish is held once or handed to the signer
\* once, never both and never again when the wait on a grant ends; the one
\* exception is a refresh the confirmed grant answers (and what a killed app held).
HeldGoesOnce ==
    \A n \in 1..kp.n :
        Cardinality({i \in DOMAIN kp.wait.cmds : kp.wait.cmds[i].n = n}) + kp.sends[n]
          + (IF n \in kp.answered THEN 1 ELSE 0) = 1

\* A client that missed something while away has had a list of its own by the
\* time it counts as present again (note_presence, want_list, presume_present).
ToldOnReturn ==
    \A i \in DOMAIN kb.clients :
        LET c == kb.clients[i] IN c.key.id > 0 /\ Present(c) /\ ~c.presumed => ~kb.missed

\* Commands are not held for ever: a wait on a grant ends, by the confirmation, a
\* failed publish or GRANT_WAIT after a publish that went out.
WaitEnds == (kp.wait # NoWait) ~> (kp.wait = NoWait)

\* A key a client rotated away from is "no longer written to" (session_keys.rs
\* module comment): every copy goes to a newest key or to the identity.
OldKeyNotWritten ==
    [][\A c \in toPhone' \ toPhone : \A i \in DOMAIN kb.clients : c.to # kb.clients[i].prev.id]_keyVars

\* The bridge names this install by the key the install names itself by
\* (SessionKeyRing::device_id: "as a bridge names it in a terminal's `writer`").
DeviceAgrees ==
    \A i \in DOMAIN kb.clients : kb.clients[i].key.id = kp.grant.id => kb.clients[i].device = kp.first

\* Session keys end to end: a command is written to a key the bridge reads, is
\* sent once, and a client that was away is told what it missed.
KeysSound == KeyIsRead /\ HeldGoesOnce /\ ToldOnReturn
=============================================================================
