------------------------------- MODULE Pairing -------------------------------
(***************************************************************************)
(* Pairing a phone with a bridge: the pair flow of                         *)
(* crates/client-core/src/stores/pairing.rs as the client's loop drives it *)
(* (intent.rs, dispatch.rs, runtime.rs), and the bridge's pairing window,  *)
(* crates/bridge-core/src/engine/pairing.rs.                               *)
(*                                                                         *)
(* A window's one-time token is the number of the window.  Requests and    *)
(* answers stay on the relays, which may give them late, twice, in any     *)
(* order or never.  A timer that fired has put a message in its loop's     *)
(* queue, which aborting or cancelling the timer no longer takes back.     *)
(***************************************************************************)
EXTENDS Naturals, Sequences, FiniteSets, SequencesExt, TLAPS

(***************************************************************************)
(* The pairing link: built by crates/bridge-core/src/pairing.rs, read by   *)
(* crates/client-core/src/stores/pairing.rs.                               *)
(*                                                                         *)
(* A text is a sequence of characters of a small alphabet.  A parameter's  *)
(* key is one character.  A relay is a scheme, "w" (wss) or "v" (ws),      *)
(* and a host: "o" ends an onion host and "7" begins a loopback one.       *)
(***************************************************************************)
CONSTANT MaxPairingRelays   \* MAX_PAIRING_RELAYS

Unreserved == {"a", "o", "7", "w", "v"}
Hex == [c \in {",", "&", "%"} |-> CASE c = "," -> <<"2", "C">> [] c = "&" -> <<"2", "6">> [] OTHER -> <<"2", "5">>]

Bad == <<"no text">>

\* The parts of `s` between the characters `c`.
SplitOn(s, c) ==
  FoldLeft(LAMBDA parts, x : IF x = c THEN Append(parts, <<>>)
                             ELSE [parts EXCEPT ![Len(parts)] = Append(@, x)],
           << <<>> >>, s)

JoinWith(parts, c) ==
  FoldLeft(LAMBDA s, p : IF s = <<"start">> THEN p ELSE s \o <<c>> \o p, <<"start">>, parts)

encode_uri_component(s) ==
  FoldLeft(LAMBDA out, c : out \o IF c \in DOMAIN Hex THEN <<"%">> \o Hex[c] ELSE <<c>>, <<>>, s)

\* One character more, `esc` being the escape begun before it.
Decoded(d, c) ==
  CASE d.esc = <<>> -> IF c = "%" THEN [d EXCEPT !.esc = <<c>>] ELSE [d EXCEPT !.out = Append(@, c)]
    [] Len(d.esc) = 1 -> [d EXCEPT !.esc = Append(@, c)]
    [] OTHER -> IF \E x \in DOMAIN Hex : Hex[x] = <<d.esc[2], c>>
                THEN [d EXCEPT !.esc = <<>>, !.out = Append(@, CHOOSE x \in DOMAIN Hex : Hex[x] = <<d.esc[2], c>>)]
                ELSE [d EXCEPT !.ok = FALSE]

\* A `%` not followed by two hex digits is an error, and so are two that are no
\* character (no UTF-8).
decode_uri_component(s) ==
  LET d == FoldLeft(Decoded, [out |-> <<>>, esc |-> <<>>, ok |-> TRUE], s)
  IN  IF d.ok /\ d.esc = <<>> THEN d.out ELSE Bad

is_relay_url(r) ==
  /\ Len(r) > 1
  /\ \/ r[1] = "w"
     \/ r[1] = "v" /\ (Last(r) = "o" \/ r[2] = "7")

\* Relays the user typed, split at commas and spaces.
parse_relay_list(input) ==
  LET typed == SelectSeq(SplitOn(input, ","), LAMBDA r : r # <<>>)
      relays == FoldLeft(LAMBDA out, r : IF r \in ToSet(out) THEN out ELSE Append(out, r), <<>>, typed)
  IN  IF (\A r \in ToSet(typed) : is_relay_url(r)) /\ Len(relays) \in 1 .. MaxPairingRelays THEN relays ELSE Bad

PairingParts(npub, relays, machine, token) ==
  [npub |-> npub, relays |-> relays, machine |-> machine, token |-> token]

\* The manual fallback: no machine name until the pair-ack brings it.
parse_manual_pair(npub, token, relays) ==
  LET parsed == parse_relay_list(relays)
  IN  IF token = <<>> \/ parsed = Bad THEN Bad ELSE PairingParts(npub, parsed, <<"(manual)">>, token)

pairing_url(p) ==
  JoinWith(<< <<"n", "=">> \o p.npub,
              <<"r", "=">> \o JoinWith([i \in DOMAIN p.relays |-> encode_uri_component(p.relays[i])], ","),
              <<"m", "=">> \o encode_uri_component(p.machine),
              <<"t", "=">> \o encode_uri_component(p.token) >>, "&")

\* The raw value of the first parameter with the key, empty when there is none.
Param(query, key) ==
  LET found == SelectSeq(SplitOn(query, "&"), LAMBDA pair : Len(pair) > 1 /\ pair[1] = key /\ pair[2] = "=")
  IN  IF found = <<>> THEN <<>> ELSE SubSeq(Head(found), 3, Len(Head(found)))

\* Split before they are decoded: an encoded relay carries no bare comma.
RelaysOf(raw) ==
  LET parts == SelectSeq(SplitOn(raw, ","), LAMBDA r : r # <<>>)
  IN  [i \in DOMAIN parts |-> decode_uri_component(parts[i])]

parse_pairing_url(query) ==
  LET token == decode_uri_component(Param(query, "t"))
      machine == decode_uri_component(Param(query, "m"))
      relays == RelaysOf(Param(query, "r"))
  IN  IF \/ Param(query, "n") = <<>>
         \/ token \in {<<>>, Bad} \/ machine \in {<<>>, Bad}
         \/ Len(relays) \notin 1 .. MaxPairingRelays
         \/ \E i \in DOMAIN relays : relays[i] = Bad \/ ~ is_relay_url(relays[i])
      THEN Bad
      ELSE PairingParts(Param(query, "n"), relays, machine, token)

------------------------------------------------------------------------------

CONSTANTS
  Phones,
  Bridges,
  MaxRequests,    \* bound: pair-requests sent
  MaxPairNacks,   \* MAX_PAIR_NACKS, in the one PAIR_NACK_WINDOW_MS modelled
  PairScenes      \* [phones, bridges, windows, may]: who takes part, the windows a bridge opens,
                  \* and what happens besides

ASSUME PairingAssumption ==
  /\ {MaxRequests, MaxPairNacks} \subseteq Nat /\ "nobody" \notin Bridges
  /\ PairScenes \subseteq [phones : SUBSET Phones, bridges : SUBSET Bridges, windows : Nat,
                          may : SUBSET {"stage", "reset", "remove", "restart", "unpair"}]

VARIABLES
  pairScene, \* the scene played
  phone,     \* PairingState and what the loop keeps for it, for each phone
  window,    \* Engine::pairing, the nack budget and the paired phones, for each bridge
  requests,  \* pair-requests on the relays
  acks,      \* pair-acks on the relays
  asked,     \* pair-requests sent so far, the ids of their events
  accepted   \* history: the requests a bridge paired a phone for

pairVars == <<pairScene, phone, window, requests, acks, asked, accepted>>

NoLink == [to |-> "nobody", token |-> 0]
Links == [to : pairScene.bridges, token : 0 .. pairScene.windows]   \* token 0 is a mistyped one

PairRequest(p, link) == [id |-> asked + 1, from |-> p, to |-> link.to, token |-> link.token]
PairAck(b, p, ok) == [from |-> b, to |-> p, ok |-> ok]

IdlePairing == [phase |-> "Idle", candidate |-> NoLink, timedOut |-> FALSE, staged |-> NoLink]

PairInit ==
  /\ pairScene \in PairScenes
  /\ phone = [p \in Phones |->
       [pairing |-> IdlePairing, timer |-> FALSE, fired |-> FALSE, machines |-> {}, authors |-> {}]]
  /\ window = [b \in Bridges |->
       [token |-> 0, opened |-> 0, fired |-> {}, inbox |-> {}, seen |-> {}, paired |-> {}, nacks |-> 0]]
  /\ requests = {} /\ acks = {} /\ asked = 0 /\ accepted = {}

(***************************************************************************)
(* The phone                                                               *)
(***************************************************************************)

RefreshAuthors(ph) ==
  [ph EXCEPT !.authors = ph.machines \cup ({ph.pairing.candidate.to} \ {"nobody"})]

\* begin_pair
Begun(link, staged) == [phase |-> "AwaitingAck", candidate |-> link, timedOut |-> FALSE, staged |-> staged]

\* Its effects: the deadline is armed anew, the candidate's bridge is subscribed to,
\* and the request goes out.
BeginPair(p, link, staged) ==
  /\ asked < MaxRequests
  /\ phone' = [phone EXCEPT ![p] =
       RefreshAuthors([@ EXCEPT !.pairing = Begun(link, staged), !.timer = TRUE])]
  /\ requests' = requests \cup {PairRequest(p, link)}
  /\ asked' = asked + 1
  /\ UNCHANGED <<window, acks, accepted>>

\* A link scanned or typed: of a window that was opened, or mistyped.
BeginPairing(p) ==
  \E link \in Links :
     /\ link.token <= window[link.to].opened
     /\ BeginPair(p, link, phone[p].pairing.staged)

StagePairing(p) ==
  /\ "stage" \in pairScene.may
  /\ \E link \in Links :
        /\ link.token \in 1 .. window[link.to].opened
        /\ phone' = [phone EXCEPT ![p].pairing.staged = link]
  /\ UNCHANGED <<window, requests, acks, asked, accepted>>

ConfirmStagedPairing(p) ==
  /\ phone[p].pairing.staged # NoLink
  /\ BeginPair(p, phone[p].pairing.staged, NoLink)

DismissStagedPairing(p) ==
  /\ phone[p].pairing.staged # NoLink
  /\ phone' = [phone EXCEPT ![p].pairing.staged = NoLink]
  /\ UNCHANGED <<window, requests, acks, asked, accepted>>

ResetPairing(p) ==
  /\ "reset" \in pairScene.may
  /\ phone[p].pairing # IdlePairing
  /\ phone' = [phone EXCEPT ![p].pairing = IdlePairing, ![p].timer = FALSE]
  /\ UNCHANGED <<window, requests, acks, asked, accepted>>

PairTimerFires(p) ==
  /\ phone[p].timer
  /\ phone' = [phone EXCEPT ![p].timer = FALSE, ![p].fired = TRUE]
  /\ UNCHANGED <<window, requests, acks, asked, accepted>>

\* Mutant: a deadline that comes while another is armed is taken for a stale one,
\* and the other is aborted all the same.
TimedOutStale(ph) ==
  [ph EXCEPT
     !.pairing = IF @.phase = "AwaitingAck" /\ ~ ph.timer THEN [@ EXCEPT !.phase = "Failed", !.timedOut = TRUE] ELSE @,
     !.timer = FALSE]

\* PairingEvent::DeadlineFired, and the timer the loop aborts whatever came of it.
TimedOut(ph) ==
  [ph EXCEPT
     !.pairing = IF @.phase = "AwaitingAck" THEN [@ EXCEPT !.phase = "Failed", !.timedOut = TRUE] ELSE @,
     !.timer = FALSE]

OnPairDeadline(p) ==
  /\ phone[p].fired
  /\ phone' = [phone EXCEPT ![p] = TimedOut([@ EXCEPT !.fired = FALSE])]
  /\ UNCHANGED <<window, requests, acks, asked, accepted>>

Acceptable(pairing, ack) ==
  /\ \/ pairing.phase = "AwaitingAck"
     \/ pairing.phase = "Failed" /\ pairing.timedOut
  /\ pairing.candidate.to = ack.from

\* PairingEffect::OnPaired
RegisterMachine(ph) == RefreshAuthors([ph EXCEPT !.machines = @ \cup {ph.pairing.candidate.to}])

\* The arm PairAck of the reducer and its effects.
Acknowledged(ph, ack) ==
  LET settled == [ph EXCEPT !.timer = FALSE, !.pairing.timedOut = FALSE,
                            !.pairing.phase = IF ack.ok THEN "Paired" ELSE "Failed"]
  IN  IF ack.ok THEN RegisterMachine(settled) ELSE settled

\* on_relay_event hears only the authors it subscribed to.
OnPairAck(p) ==
  \E ack \in {a \in acks : a.to = p} :
     /\ phone' = IF ack.from \in phone[p].authors /\ Acceptable(phone[p].pairing, ack)
                   THEN [phone EXCEPT ![p] = Acknowledged(@, ack)]
                   ELSE phone
     /\ UNCHANGED <<window, requests, acks, asked, accepted>>

RemoveMachine(p) ==
  /\ "remove" \in pairScene.may
  /\ \E b \in phone[p].machines :
        phone' = [phone EXCEPT ![p] = RefreshAuthors([@ EXCEPT !.machines = phone[p].machines \ {b}])]
  /\ UNCHANGED <<window, requests, acks, asked, accepted>>

\* Nothing of the pair flow is kept over a restart; the machines are.
RestartPhone(p) ==
  /\ "restart" \in pairScene.may
  /\ phone[p].pairing # IdlePairing
  /\ phone' = [phone EXCEPT ![p] =
       RefreshAuthors([@ EXCEPT !.pairing = IdlePairing, !.timer = FALSE, !.fired = FALSE])]
  /\ UNCHANGED <<window, requests, acks, asked, accepted>>

(***************************************************************************)
(* The bridge                                                              *)
(***************************************************************************)
ClosePairing(w) == [w EXCEPT !.token = 0]

OpenPairing(b) ==
  /\ window[b].opened < pairScene.windows
  /\ window' = [window EXCEPT ![b] = [ClosePairing(@) EXCEPT !.opened = window[b].opened + 1, !.token = window[b].opened + 1]]
  /\ UNCHANGED <<phone, requests, acks, asked, accepted>>

PairingTimerFires(b) ==
  /\ window[b].token # 0
  /\ window[b].token \notin window[b].fired
  /\ window' = [window EXCEPT ![b].fired = @ \cup {window[b].token}]
  /\ UNCHANGED <<phone, requests, acks, asked, accepted>>

Expired(w, epoch) == IF w.token = epoch THEN ClosePairing(w) ELSE w

\* TimerKind::PairingExpiry, and the fresh window a bridge nobody is paired with opens.
PairingExpiry(b) ==
  \E epoch \in window[b].fired :
     LET w == Expired([window[b] EXCEPT !.fired = @ \ {epoch}], epoch)
         fresh == w.token # window[b].token /\ w.paired = {} /\ w.opened < pairScene.windows
     IN  /\ window' = [window EXCEPT ![b] =
              IF fresh THEN [w EXCEPT !.opened = @ + 1, !.token = w.opened + 1] ELSE w]
         /\ UNCHANGED <<phone, requests, acks, asked, accepted>>

TokenFits(w, r) == w.token # 0 /\ w.token = r.token

PairedBy(w, r) == [ClosePairing(w) EXCEPT !.paired = @ \cup {r.from}]

\* NackBudget::allow counts the refusals it does not answer too.
Refuses(w) == [w EXCEPT !.nacks = IF @ <= MaxPairNacks THEN @ + 1 ELSE @]

\* The window's subscription has no author filter; the standing one has the paired
\* phones.  What a relay gave before the window closed is handled after it.
RelayGives(b) ==
  \E r \in {q \in requests : q.to = b} :
     /\ window[b].token # 0 \/ r.from \in window[b].paired
     /\ window' = [window EXCEPT ![b].inbox = @ \cup {r}]
     /\ UNCHANGED <<phone, requests, acks, asked, accepted>>

\* accept_pairing on the one subscription and accept on the other take an event's
\* id once between them; on_pair_request is the same for both.
OnPairRequest(b) ==
  \E r \in window[b].inbox :
     LET w == [window[b] EXCEPT !.inbox = @ \ {r}, !.seen = @ \cup {r.id}]
         new == r.id \notin window[b].seen
     IN  /\ \/ /\ ~ new
              /\ window' = [window EXCEPT ![b] = w] /\ UNCHANGED <<acks, accepted>>
           \/ /\ new /\ TokenFits(w, r)
              /\ window' = [window EXCEPT ![b] = PairedBy(w, r)]
              /\ acks' = acks \cup {PairAck(b, r.from, TRUE)}
              /\ accepted' = accepted \cup {r}
           \/ /\ new /\ ~ TokenFits(w, r)
              /\ window' = [window EXCEPT ![b] = Refuses(w)]
              /\ acks' = IF Refuses(w).nacks <= MaxPairNacks
                           THEN acks \cup {PairAck(b, r.from, FALSE)} ELSE acks
              /\ UNCHANGED accepted
         /\ UNCHANGED <<phone, requests, asked>>

Unpair(b) ==
  /\ "unpair" \in pairScene.may
  /\ \E p \in window[b].paired : window' = [window EXCEPT ![b].paired = @ \ {p}]
  /\ UNCHANGED <<phone, requests, acks, asked, accepted>>

PairStep ==
  \/ \E p \in pairScene.phones :
       \/ BeginPairing(p) \/ StagePairing(p) \/ ConfirmStagedPairing(p) \/ DismissStagedPairing(p)
       \/ ResetPairing(p) \/ PairTimerFires(p) \/ OnPairDeadline(p) \/ OnPairAck(p)
       \/ RemoveMachine(p) \/ RestartPhone(p)
  \/ \E b \in pairScene.bridges :
       OpenPairing(b) \/ PairingTimerFires(b) \/ PairingExpiry(b) \/ RelayGives(b) \/ OnPairRequest(b) \/ Unpair(b)

PairNext == PairStep /\ UNCHANGED pairScene

PairSpec == PairInit /\ [][PairNext]_pairVars

(***************************************************************************)
(* Properties                                                              *)
(***************************************************************************)
\* A machine is in a phone's list only because its bridge accepted a request of
\* that phone which carried the token of the window open then, and a window's
\* token pairs once: duplicates, expiry timers of windows closed since and answers
\* of another bridge change nothing about it.
PairedOncePerToken ==
  /\ \A p \in Phones : \A b \in phone[p].machines : \E r \in accepted : r.from = p /\ r.to = b
  /\ \A r, q \in accepted : r.to = q.to /\ r.token = q.token => r = q
  /\ \A r \in accepted : r.token # 0

\* While a phone waits for a pair-ack its deadline is armed or about to be handled,
\* no deadline is armed otherwise ("exactly one deadline is ever armed"), and the
\* bridge whose ack would still be honoured is one whose events the phone hears.
AckAwaited ==
  \A p \in Phones :
     LET ph == phone[p] IN
     /\ ph.pairing.phase = "AwaitingAck" => ph.timer \/ ph.fired
     /\ ph.timer => ph.pairing.phase = "AwaitingAck"
     /\ ph.pairing.phase = "AwaitingAck" \/ ph.pairing.timedOut => ph.pairing.candidate.to \in ph.authors

\* A pairing attempt always ends: the phone owns its bound (CDX-040), whatever the
\* bridge and the relays do.
AttemptSettles ==
  \A p \in Phones : phone[p].pairing.phase = "AwaitingAck" ~> phone[p].pairing.phase # "AwaitingAck"

\* Pairing: a token pairs one phone once, and an answer is awaited with exactly
\* one deadline, from a bridge the phone hears.
PairSound == PairedOncePerToken /\ AckAwaited

(***************************************************************************)
(* Proof of PairSound                                                      *)
(***************************************************************************)
PairLinks == [to : Bridges, token : Nat]
PairPhases == {"Idle", "AwaitingAck", "Failed", "Paired"}
PairState == [phase : PairPhases, candidate : PairLinks \cup {NoLink}, timedOut : BOOLEAN, staged : PairLinks \cup {NoLink}]
PairPhone == [pairing : PairState, timer : BOOLEAN, fired : BOOLEAN, machines : SUBSET Bridges, authors : SUBSET Bridges]
PairRequests == [id : Nat, from : Phones, to : Bridges, token : Nat]
PairAcks == [from : Bridges, to : Phones, ok : BOOLEAN]
PairWindow == [token : Nat, opened : Nat, fired : SUBSET Nat, inbox : SUBSET PairRequests, seen : SUBSET Nat,
               paired : SUBSET Phones, nacks : Nat]

PairPhoneFits(ph) ==
  /\ ph \in PairPhone
  /\ ph.pairing.phase = "AwaitingAck" => ph.timer \/ ph.fired
  /\ ph.timer => ph.pairing.phase = "AwaitingAck"
  /\ ph.pairing.phase = "AwaitingAck" \/ ph.pairing.timedOut => ph.pairing.candidate.to \in ph.authors

\* Inductive: what a bridge accepted carried a token of a window opened by then
\* and not open any more, and an ack that says yes follows from a request accepted.
PairInv ==
  /\ pairScene \in PairScenes /\ asked \in Nat
  /\ phone \in [Phones -> PairPhone] /\ \A p \in Phones : PairPhoneFits(phone[p])
  /\ \A p \in Phones : \A b \in phone[p].machines : \E r \in accepted : r.from = p /\ r.to = b
  /\ window \in [Bridges -> PairWindow]
  /\ \A b \in Bridges : window[b].token <= window[b].opened /\ \A r \in window[b].inbox : r.to = b
  /\ requests \in SUBSET PairRequests /\ acks \in SUBSET PairAcks /\ accepted \in SUBSET PairRequests
  /\ \A a \in acks : a.ok => \E r \in accepted : r.from = a.to /\ r.to = a.from
  /\ \A r \in accepted : r.token # 0 /\ r.token <= window[r.to].opened /\ r.token # window[r.to].token
  /\ \A r, q \in accepted : r.to = q.to /\ r.token = q.token => r = q

\* The links of a scene.
LEMMA LinksOf == ASSUME PairInv  PROVE Links \subseteq PairLinks /\ pairScene.phones \subseteq Phones /\ pairScene.bridges \subseteq Bridges
<1>1. pairScene.phones \subseteq Phones /\ pairScene.bridges \subseteq Bridges /\ pairScene.windows \in Nat
  BY PairingAssumption DEF PairInv
<1>. QED  BY <1>1 DEF Links, PairLinks

\* refresh_authors: the phone hears its machines and the bridge it asks.
LEMMA RefreshFits ==
  ASSUME NEW ph \in PairPhone
  PROVE  /\ RefreshAuthors(ph) \in PairPhone
         /\ \A f \in {"pairing", "timer", "fired", "machines"} : RefreshAuthors(ph)[f] = ph[f]
         /\ ph.pairing.candidate \in PairLinks => ph.pairing.candidate.to \in RefreshAuthors(ph).authors
<1>1. ph.pairing.candidate \in PairLinks \/ ph.pairing.candidate = NoLink
  BY DEF PairPhone, PairState
<1>2. {ph.pairing.candidate.to} \ {"nobody"} \subseteq Bridges
  BY <1>1 DEF PairLinks, NoLink
<1>3. PICK a \in SUBSET Bridges : a = ph.machines \cup ({ph.pairing.candidate.to} \ {"nobody"})
  BY <1>2 DEF PairPhone
<1>4. RefreshAuthors(ph) = [ph EXCEPT !.authors = a]
  BY <1>3 DEF RefreshAuthors
<1>5. ph.pairing.candidate \in PairLinks => ph.pairing.candidate.to \in a
  BY <1>3, PairingAssumption DEF PairLinks
<1>. QED  BY <1>4, <1>5 DEF PairPhone

\* A step of one phone.
LEMMA PhoneStep ==
  ASSUME PairInv, NEW p \in Phones, NEW q, PairPhoneFits(q), phone' = [phone EXCEPT ![p] = q],
         \A b \in q.machines : b \in phone[p].machines \/ \E r \in accepted : r.from = p /\ r.to = b,
         UNCHANGED <<pairScene, window, acks, accepted>>, requests' \in SUBSET PairRequests, asked' \in Nat
  PROVE  PairInv'
<1>1. q \in PairPhone /\ phone' \in [Phones -> PairPhone] /\ \A x \in Phones : phone'[x] = IF x = p THEN q ELSE phone[x]
  BY DEF PairInv, PairPhoneFits
<1>2. \A x \in Phones : PairPhoneFits(phone'[x])
  BY <1>1 DEF PairInv
<1>3. \A x \in Phones : \A b \in phone'[x].machines : \E r \in accepted : r.from = x /\ r.to = b
  BY <1>1 DEF PairInv
<1>. QED  BY <1>1, <1>2, <1>3 DEF PairInv, PairPhoneFits

\* begin_pair and its effects.
LEMMA BeginKeeps ==
  ASSUME PairInv, NEW p \in Phones, NEW link \in PairLinks, NEW staged \in PairLinks \cup {NoLink}, BeginPair(p, link, staged), UNCHANGED pairScene
  PROVE  PairInv'
<1>1. PICK ph \in PairPhone : ph = phone[p]
  BY DEF PairInv
<1>2. PICK m : m = [ph EXCEPT !.pairing = Begun(link, staged), !.timer = TRUE]
  OBVIOUS
<1>3. Begun(link, staged) \in PairState /\ Begun(link, staged).phase = "AwaitingAck" /\ Begun(link, staged).candidate = link
  BY DEF Begun, PairState, PairPhases
<1>4. m \in PairPhone /\ m.pairing = Begun(link, staged) /\ m.timer = TRUE /\ m.machines = ph.machines
  BY <1>2, <1>3 DEF PairPhone
<1>5. PICK q : q = RefreshAuthors(m)
  OBVIOUS
<1>6. q \in PairPhone /\ q.pairing = m.pairing /\ q.timer = m.timer /\ q.machines = m.machines /\ link.to \in q.authors
  BY <1>3, <1>4, <1>5, RefreshFits
<1>7. PairPhoneFits(q)
  BY <1>3, <1>4, <1>6 DEF PairPhoneFits
<1>8. phone' = [phone EXCEPT ![p] = q]
  BY <1>1, <1>2, <1>5 DEF BeginPair
<1>9. PairRequest(p, link) \in PairRequests
  BY DEF PairRequest, PairRequests, PairLinks, PairInv
<1>10. requests' \in SUBSET PairRequests /\ asked' \in Nat /\ UNCHANGED <<window, acks, accepted>>
  BY <1>9 DEF BeginPair, PairInv
<1>. QED  BY <1>1, <1>4, <1>6, <1>7, <1>8, <1>10, PhoneStep

\* A phone whose pair flow is back at its start.
LEMMA IdleFits == IdlePairing \in PairState /\ IdlePairing.phase = "Idle" /\ IdlePairing.timedOut = FALSE
BY DEF IdlePairing, PairState, PairPhases

\* A link staged or dismissed.
LEMMA StagedKeeps ==
  ASSUME PairInv, NEW p \in Phones, NEW link \in PairLinks \cup {NoLink}, phone' = [phone EXCEPT ![p].pairing.staged = link],
         UNCHANGED <<pairScene, window, requests, acks, asked, accepted>>
  PROVE  PairInv'
<1>1. PICK ph : ph = phone[p] /\ PairPhoneFits(ph) /\ ph \in PairPhone
  BY DEF PairInv
<1>2. PICK s \in PairState : s = ph.pairing
  BY <1>1 DEF PairPhone
<1>3. PICK t : t = [s EXCEPT !.staged = link]
  OBVIOUS
<1>4. t \in PairState /\ t.phase = s.phase /\ t.timedOut = s.timedOut /\ t.candidate = s.candidate
  BY <1>3 DEF PairState
<1>5. PICK q : q = [ph EXCEPT !.pairing = t]
  OBVIOUS
<1>6. q \in PairPhone /\ q.pairing = t /\ q.timer = ph.timer /\ q.fired = ph.fired /\ q.machines = ph.machines /\ q.authors = ph.authors
  BY <1>1, <1>4, <1>5 DEF PairPhone
<1>7. PairPhoneFits(q)
  BY <1>1, <1>2, <1>4, <1>6 DEF PairPhoneFits
<1>8. phone' = [phone EXCEPT ![p] = q]
  BY <1>1, <1>2, <1>3, <1>5
<1>. QED  BY <1>1, <1>6, <1>7, <1>8, PhoneStep DEF PairInv

\* The phone's deadline fires, and is handled.
LEMMA DeadlineKeeps ==
  ASSUME PairInv, NEW p \in Phones, PairTimerFires(p) \/ OnPairDeadline(p), UNCHANGED pairScene
  PROVE  PairInv'
<1>1. PICK ph : ph = phone[p] /\ PairPhoneFits(ph) /\ ph \in PairPhone
  BY DEF PairInv
<1>2. UNCHANGED <<window, requests, acks, asked, accepted>>
  BY DEF PairTimerFires, OnPairDeadline
<1>3. CASE PairTimerFires(p)
  <2>1. PICK q : q = [ph EXCEPT !.timer = FALSE, !.fired = TRUE]
    OBVIOUS
  <2>2. PairPhoneFits(q) /\ q.machines = ph.machines
    BY <1>1, <2>1 DEF PairPhoneFits, PairPhone
  <2>3. phone' = [phone EXCEPT ![p] = q]
    BY <1>1, <1>3, <2>1 DEF PairTimerFires
  <2>. QED  BY <1>1, <1>2, <2>2, <2>3, PhoneStep DEF PairInv
<1>4. CASE OnPairDeadline(p)
  <2>1. PICK s \in PairState : s = ph.pairing
    BY <1>1 DEF PairPhone
  <2>2. PICK t : t = IF s.phase = "AwaitingAck" THEN [s EXCEPT !.phase = "Failed", !.timedOut = TRUE] ELSE s
    OBVIOUS
  <2>3. t \in PairState /\ t.phase # "AwaitingAck" /\ t.candidate = s.candidate /\ (s.phase = "AwaitingAck" \/ t = s)
    BY <2>2 DEF PairState, PairPhases
  <2>4. PICK m : m = [ph EXCEPT !.fired = FALSE]
    OBVIOUS
  <2>5. m \in PairPhone /\ m.pairing = s /\ m.machines = ph.machines /\ m.authors = ph.authors
    BY <1>1, <2>1, <2>4 DEF PairPhone
  <2>6. TimedOut(m) = [m EXCEPT !.pairing = t, !.timer = FALSE]
    BY <2>2, <2>5 DEF TimedOut
  <2>7. PICK q : q = TimedOut(m)
    OBVIOUS
  <2>8. q \in PairPhone /\ q.pairing = t /\ q.timer = FALSE /\ q.machines = ph.machines /\ q.authors = ph.authors
    BY <2>3, <2>5, <2>6, <2>7 DEF PairPhone
  <2>9. PairPhoneFits(q)
    BY <1>1, <2>1, <2>3, <2>8 DEF PairPhoneFits
  <2>10. phone' = [phone EXCEPT ![p] = q]
    BY <1>1, <1>4, <2>4, <2>7 DEF OnPairDeadline
  <2>. QED  BY <1>1, <1>2, <2>8, <2>9, <2>10, PhoneStep DEF PairInv
<1>. QED  BY <1>3, <1>4

\* The pair flow is reset, the app restarts, or a machine is removed.
LEMMA ResetKeeps ==
  ASSUME PairInv, NEW p \in Phones, ResetPairing(p) \/ RestartPhone(p) \/ RemoveMachine(p), UNCHANGED pairScene
  PROVE  PairInv'
<1>1. PICK ph : ph = phone[p] /\ PairPhoneFits(ph) /\ ph \in PairPhone
  BY DEF PairInv
<1>2. UNCHANGED <<window, requests, acks, asked, accepted>>
  BY DEF ResetPairing, RestartPhone, RemoveMachine
<1>3. CASE ResetPairing(p)
  <2>1. PICK q : q = [ph EXCEPT !.pairing = IdlePairing, !.timer = FALSE]
    OBVIOUS
  <2>2. PairPhoneFits(q) /\ q.machines = ph.machines
    BY <1>1, <2>1, IdleFits DEF PairPhoneFits, PairPhone
  <2>3. phone' = [phone EXCEPT ![p] = q]
    BY <1>1, <1>3, <2>1 DEF ResetPairing
  <2>. QED  BY <1>1, <1>2, <2>2, <2>3, PhoneStep DEF PairInv
<1>4. CASE RestartPhone(p)
  <2>1. PICK m : m = [ph EXCEPT !.pairing = IdlePairing, !.timer = FALSE, !.fired = FALSE]
    OBVIOUS
  <2>2. m \in PairPhone /\ m.pairing = IdlePairing /\ m.timer = FALSE /\ m.machines = ph.machines
    BY <1>1, <2>1, IdleFits DEF PairPhone
  <2>3. PICK q : q = RefreshAuthors(m)
    OBVIOUS
  <2>4. q \in PairPhone /\ q.pairing = IdlePairing /\ q.timer = FALSE /\ q.machines = ph.machines
    BY <2>2, <2>3, RefreshFits
  <2>5. PairPhoneFits(q)
    BY <2>4, IdleFits DEF PairPhoneFits
  <2>6. phone' = [phone EXCEPT ![p] = q]
    BY <1>1, <1>4, <2>1, <2>3 DEF RestartPhone
  <2>. QED  BY <1>1, <1>2, <2>4, <2>5, <2>6, PhoneStep DEF PairInv
<1>5. CASE RemoveMachine(p)
  <2>1. PICK b \in ph.machines : phone' = [phone EXCEPT ![p] = RefreshAuthors([@ EXCEPT !.machines = phone[p].machines \ {b}])]
    BY <1>1, <1>5 DEF RemoveMachine
  <2>2. PICK m : m = [ph EXCEPT !.machines = @ \ {b}]
    OBVIOUS
  <2>3. m \in PairPhone /\ m.pairing = ph.pairing /\ m.timer = ph.timer /\ m.fired = ph.fired /\ m.machines \subseteq ph.machines
    BY <1>1, <2>2 DEF PairPhone
  <2>4. PICK q : q = RefreshAuthors(m)
    OBVIOUS
  <2>5. q \in PairPhone /\ q.pairing = ph.pairing /\ q.timer = ph.timer /\ q.fired = ph.fired /\ q.machines = m.machines
    BY <2>3, <2>4, RefreshFits
  <2>6. ph.pairing.phase = "AwaitingAck" \/ ph.pairing.timedOut => ph.pairing.candidate.to \in q.authors
    <3>1. ph.pairing.candidate \in PairLinks \/ ph.pairing.candidate = NoLink
      BY <1>1 DEF PairPhone, PairState
    <3>2. ASSUME ph.pairing.candidate = NoLink, ph.pairing.phase = "AwaitingAck" \/ ph.pairing.timedOut  PROVE FALSE
      BY <1>1, <3>2, PairingAssumption DEF PairPhoneFits, NoLink, PairPhone
    <3>. QED  BY <2>3, <2>4, <3>1, <3>2, RefreshFits
  <2>7. PairPhoneFits(q)
    BY <1>1, <2>5, <2>6 DEF PairPhoneFits
  <2>8. phone' = [phone EXCEPT ![p] = q]
    <3>1. phone' = [phone EXCEPT ![p] = RefreshAuthors([phone[p] EXCEPT !.machines = phone[p].machines \ {b}])]
      BY <2>1
    <3>2. m = [phone[p] EXCEPT !.machines = phone[p].machines \ {b}]
      BY <1>1, <2>2
    <3>. QED  BY <2>4, <3>1, <3>2
  <2>. QED  BY <1>1, <1>2, <2>3, <2>5, <2>7, <2>8, PhoneStep DEF PairInv
<1>. QED  BY <1>3, <1>4, <1>5

\* A pair-ack is heard: one that is honoured comes from the bridge asked, and says
\* yes only because that bridge accepted a request of this phone.
LEMMA AckKeeps ==
  ASSUME PairInv, NEW p \in Phones, OnPairAck(p), UNCHANGED pairScene
  PROVE  PairInv'
<1>1. PICK ph : ph = phone[p] /\ PairPhoneFits(ph) /\ ph \in PairPhone
  BY DEF PairInv
<1>2. PICK ack \in acks : /\ ack.to = p
                          /\ phone' = IF ack.from \in ph.authors /\ Acceptable(ph.pairing, ack)
                                        THEN [phone EXCEPT ![p] = Acknowledged(@, ack)] ELSE phone
  BY <1>1 DEF OnPairAck
<1>3. UNCHANGED <<window, requests, acks, asked, accepted>>
  BY DEF OnPairAck
<1>4. CASE phone' = phone
  <2>1. phone' = [phone EXCEPT ![p] = ph]
    BY <1>1, <1>4 DEF PairInv
  <2>. QED  BY <1>1, <1>3, <2>1, PhoneStep DEF PairInv
<1>5. CASE Acceptable(ph.pairing, ack) /\ phone' = [phone EXCEPT ![p] = Acknowledged(@, ack)]
  <2>1. PICK s \in PairState : s = ph.pairing
    BY <1>1 DEF PairPhone
  <2>2. PICK phase \in {"Paired", "Failed"} : phase = IF ack.ok THEN "Paired" ELSE "Failed"
    OBVIOUS
  <2>3. PICK t : t = [s EXCEPT !.timedOut = FALSE, !.phase = phase]
    OBVIOUS
  <2>4. t \in PairState /\ t.phase # "AwaitingAck" /\ t.timedOut = FALSE /\ t.candidate = s.candidate
    BY <2>2, <2>3 DEF PairState, PairPhases
  <2>5. PICK m : m = [ph EXCEPT !.timer = FALSE, !.pairing = t]
    OBVIOUS
  <2>6. m \in PairPhone /\ m.pairing = t /\ m.timer = FALSE /\ m.machines = ph.machines
    BY <1>1, <2>4, <2>5 DEF PairPhone
  <2>7. m = [ph EXCEPT !.timer = FALSE, !.pairing.timedOut = FALSE, !.pairing.phase = IF ack.ok THEN "Paired" ELSE "Failed"]
    BY <2>1, <2>2, <2>3, <2>5
  <2>8. PICK q : q = Acknowledged(ph, ack)
    OBVIOUS
  <2>9. q = IF ack.ok THEN RegisterMachine(m) ELSE m
    BY <2>7, <2>8 DEF Acknowledged
  <2>10. s.candidate.to = ack.from /\ ack.from \in Bridges
    BY <1>5, <2>1 DEF Acceptable, PairInv, PairAcks
  <2>11. CASE ~ ack.ok
    <3>1. q = m /\ PairPhoneFits(q)
      BY <2>4, <2>6, <2>9, <2>11 DEF PairPhoneFits
    <3>. QED  BY <1>1, <1>3, <1>5, <2>6, <2>8, <3>1, PhoneStep DEF PairInv
  <2>12. CASE ack.ok
    <3>1. PICK n : n = [m EXCEPT !.machines = @ \cup {m.pairing.candidate.to}]
      OBVIOUS
    <3>2. n \in PairPhone /\ n.pairing = t /\ n.timer = FALSE /\ n.machines = ph.machines \cup {ack.from}
      BY <2>4, <2>6, <2>10, <3>1 DEF PairPhone
    <3>3. q = RefreshAuthors(n)
      BY <2>9, <2>12, <3>1 DEF RegisterMachine
    <3>4. q \in PairPhone /\ q.pairing = t /\ q.timer = FALSE /\ q.machines = ph.machines \cup {ack.from}
      BY <3>2, <3>3, RefreshFits
    <3>5. PairPhoneFits(q)
      BY <2>4, <3>4 DEF PairPhoneFits
    <3>6. \E r \in accepted : r.from = p /\ r.to = ack.from
      BY <1>2, <2>12 DEF PairInv
    <3>7. \A b \in q.machines : b \in phone[p].machines \/ \E r \in accepted : r.from = p /\ r.to = b
      BY <1>1, <3>4, <3>6
    <3>. QED  BY <1>1, <1>3, <1>5, <2>8, <3>5, <3>7, PhoneStep DEF PairInv
  <2>. QED  BY <2>11, <2>12
<1>. QED  BY <1>2, <1>4, <1>5

\* A step of one bridge that pairs nobody: the token of its window stays, is
\* dropped, or is that of a window opened now.
LEMMA WindowStep ==
  ASSUME PairInv, NEW b \in Bridges, NEW w \in PairWindow, window' = [window EXCEPT ![b] = w],
         w.token <= w.opened, window[b].opened <= w.opened, \A r \in w.inbox : r.to = b,
         w.token = 0 \/ w.token = window[b].token \/ w.token = window[b].opened + 1,
         pairScene' = pairScene, phone' = phone, requests' = requests, asked' = asked, accepted' = accepted,
         acks' \in SUBSET PairAcks, \A a \in acks' : a \in acks \/ ~ a.ok
  PROVE  PairInv'
<1>1. window' \in [Bridges -> PairWindow] /\ \A x \in Bridges : window'[x] = IF x = b THEN w ELSE window[x]
  BY DEF PairInv
<1>2. \A x \in Bridges : window'[x].token <= window'[x].opened /\ \A r \in window'[x].inbox : r.to = x
  BY <1>1 DEF PairInv
<1>3. \A a \in acks' : a.ok => \E r \in accepted : r.from = a.to /\ r.to = a.from
  BY DEF PairInv
<1>4. ASSUME NEW r \in accepted  PROVE r.token # 0 /\ r.token <= window'[r.to].opened /\ r.token # window'[r.to].token
  <2>1. r.token \in Nat /\ r.to \in Bridges /\ r.token # 0 /\ r.token <= window[r.to].opened /\ r.token # window[r.to].token
    BY DEF PairInv, PairRequests
  <2>2. CASE r.to # b
    BY <1>1, <2>1, <2>2
  <2>3. CASE r.to = b
    <3>1. window'[r.to] = w /\ window[b].opened \in Nat /\ w.opened \in Nat
      BY <1>1, <2>3 DEF PairInv, PairWindow
    <3>. QED  BY <2>1, <2>3, <3>1
  <2>. QED  BY <2>2, <2>3
<1>. QED  BY <1>1, <1>2, <1>3, <1>4, SMTT(30), ZenonT(30) DEF PairInv

\* A window opened.
LEMMA OpenKeeps ==
  ASSUME PairInv, NEW b \in Bridges, OpenPairing(b), UNCHANGED pairScene
  PROVE  PairInv'
<1>1. PICK v \in PairWindow : v = window[b]
  BY DEF PairInv
<1>2. PICK n \in Nat : n = v.opened + 1
  BY <1>1 DEF PairWindow
<1>3. PICK w : w = [v EXCEPT !.token = n, !.opened = n]
  OBVIOUS
<1>4. w \in PairWindow /\ w.token = n /\ w.opened = n /\ w.inbox = v.inbox
  BY <1>2, <1>3 DEF PairWindow
<1>5. [ClosePairing(v) EXCEPT !.opened = v.opened + 1, !.token = v.opened + 1] = w
  BY <1>1, <1>2, <1>3 DEF ClosePairing, PairWindow
<1>6. window' = [window EXCEPT ![b] = w]
  BY <1>1, <1>5 DEF OpenPairing
<1>7. v.opened \in Nat /\ \A r \in v.inbox : r.to = b
  BY <1>1 DEF PairInv, PairWindow
<1>8. phone' = phone /\ requests' = requests /\ asked' = asked /\ accepted' = accepted /\ acks' \in SUBSET PairAcks /\ (\A a \in acks' : a \in acks \/ ~ a.ok)
  BY DEF OpenPairing, PairInv
<1>9. n <= n /\ v.opened <= n
  BY <1>2, <1>7
<1>. QED  BY <1>1, <1>2, <1>4, <1>6, <1>7, <1>8, <1>9, WindowStep

\* A window's timer fires.
LEMMA FiresKeeps ==
  ASSUME PairInv, NEW b \in Bridges, PairingTimerFires(b), UNCHANGED pairScene
  PROVE  PairInv'
<1>1. PICK v \in PairWindow : v = window[b]
  BY DEF PairInv
<1>2. PICK w : w = [v EXCEPT !.fired = v.fired \cup {v.token}]
  OBVIOUS
<1>3. w \in PairWindow /\ w.token = v.token /\ w.opened = v.opened /\ w.inbox = v.inbox
  BY <1>2 DEF PairWindow
<1>4. window' = [window EXCEPT ![b] = w]
  BY <1>1, <1>2 DEF PairingTimerFires
<1>5. v.opened \in Nat /\ v.opened <= v.opened /\ v.token <= v.opened /\ \A r \in v.inbox : r.to = b
  BY <1>1 DEF PairInv, PairWindow
<1>6. phone' = phone /\ requests' = requests /\ asked' = asked /\ accepted' = accepted /\ acks' \in SUBSET PairAcks /\ (\A a \in acks' : a \in acks \/ ~ a.ok)
  BY DEF PairingTimerFires, PairInv
<1>. QED  BY <1>1, <1>3, <1>4, <1>5, <1>6, WindowStep

\* A window's timer is handled: of the window that is open, or of one closed since.
LEMMA ExpiryKeeps ==
  ASSUME PairInv, NEW b \in Bridges, PairingExpiry(b), UNCHANGED pairScene
  PROVE  PairInv'
<1>1. PICK v \in PairWindow : v = window[b]
  BY DEF PairInv
<1>2. v.opened \in Nat /\ v.token \in Nat /\ v.opened <= v.opened /\ 0 <= v.opened /\ v.token <= v.opened /\ \A r \in v.inbox : r.to = b
  BY <1>1 DEF PairInv, PairWindow
<1>3. PICK epoch : LET w == Expired([window[b] EXCEPT !.fired = @ \ {epoch}], epoch)
                       fresh == w.token # window[b].token /\ w.paired = {} /\ w.opened < pairScene.windows
                   IN  window' = [window EXCEPT ![b] = IF fresh THEN [w EXCEPT !.opened = @ + 1, !.token = w.opened + 1] ELSE w]
  BY DEF PairingExpiry
<1>4. PICK m : m = [v EXCEPT !.fired = v.fired \ {epoch}]
  OBVIOUS
<1>5. m \in PairWindow /\ m.token = v.token /\ m.opened = v.opened /\ m.inbox = v.inbox
  BY <1>4 DEF PairWindow
<1>6. PICK u : u = Expired(m, epoch)
  OBVIOUS
<1>7. u \in PairWindow /\ (u.token = 0 \/ u.token = v.token) /\ u.opened = v.opened /\ u.inbox = v.inbox
  BY <1>5, <1>6 DEF Expired, ClosePairing, PairWindow
<1>8. PICK w : w = IF u.token # v.token /\ u.paired = {} /\ u.opened < pairScene.windows
                     THEN [u EXCEPT !.opened = u.opened + 1, !.token = u.opened + 1] ELSE u
  OBVIOUS
<1>9. window' = [window EXCEPT ![b] = w]
  BY <1>1, <1>3, <1>4, <1>6, <1>8
<1>10. phone' = phone /\ requests' = requests /\ asked' = asked /\ accepted' = accepted /\ acks' \in SUBSET PairAcks /\ (\A a \in acks' : a \in acks \/ ~ a.ok)
  BY DEF PairingExpiry, PairInv
<1>11. CASE w = u
  BY <1>1, <1>2, <1>7, <1>9, <1>10, <1>11, WindowStep
<1>12. CASE w = [u EXCEPT !.opened = u.opened + 1, !.token = u.opened + 1]
  <2>1. PICK n \in Nat : n = v.opened + 1
    BY <1>2
  <2>2. w \in PairWindow /\ w.token = n /\ w.opened = n /\ w.inbox = v.inbox
    BY <1>7, <1>12, <2>1 DEF PairWindow
  <2>3. n <= n /\ v.opened <= n
    BY <1>2, <2>1
  <2>. QED  BY <1>1, <1>2, <1>9, <1>10, <2>1, <2>2, <2>3, WindowStep
<1>. QED  BY <1>8, <1>11, <1>12

\* A relay gives the bridge a request, or the bridge drops a phone it was paired with.
LEMMA GivesKeeps ==
  ASSUME PairInv, NEW b \in Bridges, RelayGives(b) \/ Unpair(b), UNCHANGED pairScene
  PROVE  PairInv'
<1>1. PICK v \in PairWindow : v = window[b]
  BY DEF PairInv
<1>2. v.opened \in Nat /\ v.opened <= v.opened /\ v.token <= v.opened /\ \A r \in v.inbox : r.to = b
  BY <1>1 DEF PairInv, PairWindow
<1>3. phone' = phone /\ requests' = requests /\ asked' = asked /\ accepted' = accepted /\ acks' \in SUBSET PairAcks /\ (\A a \in acks' : a \in acks \/ ~ a.ok)
  BY DEF RelayGives, Unpair, PairInv
<1>4. CASE RelayGives(b)
  <2>1. PICK r \in requests : r.to = b /\ window' = [window EXCEPT ![b].inbox = @ \cup {r}]
    BY <1>4 DEF RelayGives
  <2>2. r \in PairRequests
    BY DEF PairInv
  <2>3. PICK w : w = [v EXCEPT !.inbox = v.inbox \cup {r}]
    OBVIOUS
  <2>4. w \in PairWindow /\ w.token = v.token /\ w.opened = v.opened /\ \A x \in w.inbox : x.to = b
    BY <1>2, <2>1, <2>2, <2>3 DEF PairWindow
  <2>5. window' = [window EXCEPT ![b] = w]
    BY <1>1, <2>1, <2>3
  <2>. QED  BY <1>1, <1>2, <1>3, <2>4, <2>5, WindowStep
<1>5. CASE Unpair(b)
  <2>1. PICK p : window' = [window EXCEPT ![b].paired = @ \ {p}]
    BY <1>5 DEF Unpair
  <2>2. PICK w : w = [v EXCEPT !.paired = v.paired \ {p}]
    OBVIOUS
  <2>3. w \in PairWindow /\ w.token = v.token /\ w.opened = v.opened /\ w.inbox = v.inbox
    BY <2>2 DEF PairWindow
  <2>4. window' = [window EXCEPT ![b] = w]
    BY <1>1, <2>1, <2>2
  <2>. QED  BY <1>1, <1>2, <1>3, <2>3, <2>4, WindowStep
<1>. QED  BY <1>4, <1>5

\* on_pair_request: the token that fits is spent with the window, so no request
\* accepted later carries it.
LEMMA RequestKeeps ==
  ASSUME PairInv, NEW b \in Bridges, OnPairRequest(b), UNCHANGED pairScene
  PROVE  PairInv'
<1>1. PICK v \in PairWindow : v = window[b]
  BY DEF PairInv
<1>2. v.opened \in Nat /\ v.opened <= v.opened /\ 0 <= v.opened /\ v.token <= v.opened /\ \A x \in v.inbox : x.to = b
  BY <1>1 DEF PairInv, PairWindow
<1>3. PICK r \in v.inbox :
        LET w == [window[b] EXCEPT !.inbox = @ \ {r}, !.seen = @ \cup {r.id}]
            new == r.id \notin window[b].seen
        IN  /\ \/ /\ ~ new
                  /\ window' = [window EXCEPT ![b] = w] /\ UNCHANGED <<acks, accepted>>
               \/ /\ new /\ TokenFits(w, r)
                  /\ window' = [window EXCEPT ![b] = PairedBy(w, r)]
                  /\ acks' = acks \cup {PairAck(b, r.from, TRUE)}
                  /\ accepted' = accepted \cup {r}
               \/ /\ new /\ ~ TokenFits(w, r)
                  /\ window' = [window EXCEPT ![b] = Refuses(w)]
                  /\ acks' = IF Refuses(w).nacks <= MaxPairNacks
                               THEN acks \cup {PairAck(b, r.from, FALSE)} ELSE acks
                  /\ UNCHANGED accepted
            /\ UNCHANGED <<phone, requests, asked>>
  BY <1>1 DEF OnPairRequest
<1>4. r \in PairRequests /\ r.id \in Nat /\ r.from \in Phones /\ r.to = b /\ r.token \in Nat
  BY <1>2 DEF PairWindow, PairRequests
<1>5. PICK w : w = [v EXCEPT !.inbox = v.inbox \ {r}, !.seen = v.seen \cup {r.id}]
  OBVIOUS
<1>6. w \in PairWindow /\ w.token = v.token /\ w.opened = v.opened /\ w.inbox \subseteq v.inbox
  BY <1>4, <1>5 DEF PairWindow
<1>7. /\ \/ window' = [window EXCEPT ![b] = w] /\ acks' = acks /\ accepted' = accepted
         \/ TokenFits(w, r) /\ window' = [window EXCEPT ![b] = PairedBy(w, r)]
            /\ acks' = acks \cup {PairAck(b, r.from, TRUE)} /\ accepted' = accepted \cup {r}
         \/ window' = [window EXCEPT ![b] = Refuses(w)] /\ accepted' = accepted
            /\ (acks' = acks \cup {PairAck(b, r.from, FALSE)} \/ acks' = acks)
      /\ pairScene' = pairScene /\ phone' = phone /\ requests' = requests /\ asked' = asked
  BY <1>1, <1>3, <1>5
<1>8. \A ok \in BOOLEAN : PairAck(b, r.from, ok) \in PairAcks /\ PairAck(b, r.from, ok).ok = ok
         /\ PairAck(b, r.from, ok).to = r.from /\ PairAck(b, r.from, ok).from = b
  BY <1>4 DEF PairAck, PairAcks
<1>9. acks \in SUBSET PairAcks
  BY DEF PairInv
<1>10. CASE window' = [window EXCEPT ![b] = w] /\ acks' = acks /\ accepted' = accepted
  BY <1>1, <1>2, <1>6, <1>7, <1>9, <1>10, WindowStep
<1>11. CASE /\ window' = [window EXCEPT ![b] = Refuses(w)] /\ accepted' = accepted
            /\ acks' = acks \cup {PairAck(b, r.from, FALSE)} \/ acks' = acks
  <2>1. PICK u : u = Refuses(w)
    OBVIOUS
  <2>2. u \in PairWindow /\ u.token = v.token /\ u.opened = v.opened /\ u.inbox = w.inbox
    BY <1>6, <2>1 DEF Refuses, PairWindow
  <2>3. acks' \in SUBSET PairAcks /\ \A a \in acks' : a \in acks \/ ~ a.ok
    BY <1>8, <1>9, <1>11
  <2>. QED  BY <1>1, <1>2, <1>6, <1>7, <1>11, <2>1, <2>2, <2>3, WindowStep
<1>12. CASE /\ TokenFits(w, r) /\ window' = [window EXCEPT ![b] = PairedBy(w, r)]
            /\ acks' = acks \cup {PairAck(b, r.from, TRUE)} /\ accepted' = accepted \cup {r}
  <2>1. PICK u : u = PairedBy(w, r)
    OBVIOUS
  <2>2. u \in PairWindow /\ u.token = 0 /\ u.opened = v.opened /\ u.inbox = w.inbox
    BY <1>4, <1>6, <2>1 DEF PairedBy, ClosePairing, PairWindow
  <2>3. v.token = r.token /\ r.token # 0
    BY <1>6, <1>12 DEF TokenFits
  <2>4. window' \in [Bridges -> PairWindow] /\ \A x \in Bridges : window'[x] = IF x = b THEN u ELSE window[x]
    BY <1>12, <2>1, <2>2 DEF PairInv
  <2>5. \A x \in Bridges : window'[x].token <= window'[x].opened /\ \A y \in window'[x].inbox : y.to = x
    BY <1>2, <1>6, <2>2, <2>4, SMTT(30), ZenonT(30) DEF PairInv
  <2>6. \A a \in acks' : a.ok => \E q \in accepted' : q.from = a.to /\ q.to = a.from
    <3>1. \A a \in acks : a.ok => \E q \in accepted' : q.from = a.to /\ q.to = a.from
      BY <1>12 DEF PairInv
    <3>2. PICK n \in PairAcks : n = PairAck(b, r.from, TRUE) /\ n.to = r.from /\ n.from = b
      BY <1>8
    <3>3. r \in accepted' /\ r.from = n.to /\ r.to = n.from /\ acks' = acks \cup {n}
      BY <1>4, <1>12, <3>2
    <3>. QED  BY <3>1, <3>3
  <2>7. \A q \in accepted : q.token # 0 /\ q.token <= window[q.to].opened /\ q.token # window[q.to].token /\ q.to \in Bridges
    BY DEF PairInv, PairRequests
  <2>8. \A q \in accepted' : q.token # 0 /\ q.token <= window'[q.to].opened /\ q.token # window'[q.to].token
    BY <1>1, <1>2, <1>4, <1>12, <2>2, <2>3, <2>4, <2>7
  <2>9. \A q \in accepted : ~ (q.to = b /\ q.token = r.token)
    BY <1>1, <2>3, <2>7
  <2>10. \A x, y \in accepted' : x.to = y.to /\ x.token = y.token => x = y
    BY <1>4, <1>12, <2>9 DEF PairInv
  <2>11. acks' \in SUBSET PairAcks /\ accepted' \in SUBSET PairRequests
    BY <1>4, <1>8, <1>9, <1>12 DEF PairInv
  <2>12. \A p \in Phones : \A x \in phone'[p].machines : \E q \in accepted' : q.from = p /\ q.to = x
    BY <1>7, <1>12, SMTT(30), ZenonT(30) DEF PairInv
  <2>. QED  BY <1>7, <2>4, <2>5, <2>6, <2>8, <2>10, <2>11, <2>12 DEF PairInv
<1>. QED  BY <1>7, <1>10, <1>11, <1>12

\* Every step of a phone or a bridge keeps the invariant.
LEMMA PairNextKeeps == PairInv /\ [PairNext]_pairVars => PairInv'
<1>. SUFFICES ASSUME PairInv, [PairNext]_pairVars  PROVE PairInv'
  OBVIOUS
<1>1. CASE UNCHANGED pairVars
  BY <1>1, SMTT(30), ZenonT(30) DEF pairVars, PairInv, PairPhoneFits
<1>2. CASE PairNext
  <2>1. UNCHANGED pairScene
    BY <1>2 DEF PairNext
  <2>2. ASSUME NEW p \in Phones, BeginPairing(p)  PROVE PairInv'
    <3>1. PICK link \in PairLinks : BeginPair(p, link, phone[p].pairing.staged)
      BY <2>2, LinksOf DEF BeginPairing
    <3>2. phone[p].pairing.staged \in PairLinks \cup {NoLink}
      BY DEF PairInv, PairPhone, PairState
    <3>. QED  BY <2>1, <3>1, <3>2, BeginKeeps
  <2>3. ASSUME NEW p \in Phones, ConfirmStagedPairing(p)  PROVE PairInv'
    <3>1. phone[p].pairing.staged \in PairLinks /\ BeginPair(p, phone[p].pairing.staged, NoLink)
      BY <2>3, SMTT(30), ZenonT(30) DEF ConfirmStagedPairing, PairInv, PairPhone, PairState
    <3>. QED  BY <2>1, <3>1, BeginKeeps
  <2>4. ASSUME NEW p \in Phones, StagePairing(p) \/ DismissStagedPairing(p)  PROVE PairInv'
    <3>1. PICK link \in PairLinks \cup {NoLink} : phone' = [phone EXCEPT ![p].pairing.staged = link]
      BY <2>4, LinksOf DEF StagePairing, DismissStagedPairing
    <3>2. UNCHANGED <<window, requests, acks, asked, accepted>>
      BY <2>4 DEF StagePairing, DismissStagedPairing
    <3>. QED  BY <2>1, <3>1, <3>2, StagedKeeps
  <2>5. CASE \E p \in pairScene.phones :
               \/ BeginPairing(p) \/ StagePairing(p) \/ ConfirmStagedPairing(p) \/ DismissStagedPairing(p)
               \/ ResetPairing(p) \/ PairTimerFires(p) \/ OnPairDeadline(p) \/ OnPairAck(p)
               \/ RemoveMachine(p) \/ RestartPhone(p)
    BY <2>1, <2>2, <2>3, <2>4, <2>5, LinksOf, DeadlineKeeps, ResetKeeps, AckKeeps
  <2>6. CASE \E b \in pairScene.bridges :
               OpenPairing(b) \/ PairingTimerFires(b) \/ PairingExpiry(b) \/ RelayGives(b) \/ OnPairRequest(b) \/ Unpair(b)
    BY <2>1, <2>6, LinksOf, OpenKeeps, FiresKeeps, ExpiryKeeps, GivesKeeps, RequestKeeps
  <2>. QED  BY <1>2, <2>5, <2>6 DEF PairNext, PairStep
<1>. QED  BY <1>1, <1>2

\* The invariant holds before anything happened.
LEMMA PairInitFits == PairInit => PairInv
<1>. SUFFICES ASSUME PairInit  PROVE PairInv
  OBVIOUS
<1>1. PICK q : q = [pairing |-> IdlePairing, timer |-> FALSE, fired |-> FALSE, machines |-> {}, authors |-> {}]
  OBVIOUS
<1>2. q \in PairPhone /\ q.pairing = IdlePairing /\ q.timer = FALSE /\ q.machines = {}
  BY <1>1, IdleFits DEF PairPhone
<1>3. PairPhoneFits(q)
  BY <1>2, IdleFits DEF PairPhoneFits
<1>4. phone = [p \in Phones |-> q]
  BY <1>1 DEF PairInit
<1>5. PICK w : w = [token |-> 0, opened |-> 0, fired |-> {}, inbox |-> {}, seen |-> {}, paired |-> {}, nacks |-> 0]
  OBVIOUS
<1>6. w \in PairWindow /\ w.token <= w.opened /\ w.inbox = {}
  BY <1>5 DEF PairWindow
<1>7. window = [b \in Bridges |-> w]
  BY <1>5 DEF PairInit
<1>8. phone \in [Phones -> PairPhone] /\ (\A p \in Phones : PairPhoneFits(phone[p]) /\ phone[p].machines = {})
  BY <1>2, <1>3, <1>4
<1>9. window \in [Bridges -> PairWindow] /\ \A b \in Bridges : window[b].token <= window[b].opened /\ window[b].inbox = {}
  BY <1>6, <1>7
<1>. QED  BY <1>8, <1>9 DEF PairInit, PairInv

\* Pairing is sound, whatever the relays lose, repeat or reorder: a phone lists a
\* bridge only because that bridge accepted a request of it with the token of the
\* window open then, a token pairs once, and a phone that waits for an ack has
\* exactly one deadline and hears the bridge it asked.
THEOREM PairIsSound == PairSpec => []PairSound
<1>1. PairInv => PairSound
  BY DEF PairInv, PairSound, PairedOncePerToken, AckAwaited, PairPhoneFits
<1>. QED  BY <1>1, PairInitFits, PairNextKeeps, PTL DEF PairSpec

==============================================================================
