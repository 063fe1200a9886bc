------------------------------ MODULE LiveText ------------------------------
(***************************************************************************)
(* Replies shown while the agent is still writing them.  The driver sends  *)
(* a part's text in pieces, the bridge passes each on from the offset the  *)
(* phones have it up to, holding back what may begin the session-meta      *)
(* comment, and a phone grows one live row per part until the entry that   *)
(* completes the part takes its place.  Pieces may be lost, doubled or     *)
(* overtaken on the way, and a phone may start watching in mid-part.       *)
(***************************************************************************)
EXTENDS Naturals, Sequences, FiniteSets, FiniteSetTheorems, NaturalsInduction, WellFoundedInduction, TLAPS

CONSTANTS ReplyChars,   \* the characters of replies
          LiveScenes,   \* records: the reply of each part, and the faults that may happen
          CatchUpCap    \* the most of a part kept for a client that starts watching

ASSUME LiveAssumption ==
  /\ {"<", "m", ">"} \subseteq ReplyChars
  /\ \A scene \in LiveScenes : IsFiniteSet(DOMAIN scene.reply) /\ \A k \in DOMAIN scene.reply : scene.reply[k] \in Seq(ReplyChars)

VARIABLES
  liveScene,
  written,    \* part -> how much of it the driver has sent
  parts,      \* the bridge's live parts: key -> LivePart
  entered,    \* parts whose completing entry the bridge has appended
  idle,       \* the turn ended
  wire,       \* messages on their way to the phone, oldest first
  late,       \* messages a relay may still deliver again
  rows,       \* the phone's live rows: key -> Row
  completed,       \* parts the phone knows completed this turn
  seen        \* parts whose completing entry the phone has been given (history)

liveVars == <<liveScene, written, parts, entered, idle, wire, late, rows, completed, seen>>

LiveKeys == DOMAIN liveScene.reply
LiveMay(fault) == fault \in liveScene.may
MetaOpen == <<"<", "m">>
MetaTag == <<"<", "m", ">">>

\* Where `needle` first occurs in a text, or the text's length if it does not.
Find(text, needle) ==
  LET at == {i \in 0..(Len(text) - Len(needle)) : SubSeq(text, i + 1, i + Len(needle)) = needle}
  IN IF at = {} THEN Len(text) ELSE CHOOSE i \in at : \A j \in at : i <= j
\* The stored entry's text: the tag is removed from it (a reply has one at
\* most here), and a comment that is no tag stays.
strip_session_meta(text) ==
  LET at == Find(text, MetaTag) IN SubSeq(text, 1, at) \o SubSeq(text, at + Len(MetaTag) + 1, Len(text))

\* How much of the end of a text could begin the comment.
held_tail(text) ==
  LET fits == {n \in 1..(Len(MetaOpen) - 1) : n <= Len(text) /\ SubSeq(text, Len(text) - n + 1, Len(text)) = SubSeq(MetaOpen, 1, n)}
  IN IF fits = {} THEN 0 ELSE CHOOSE n \in fits : \A m \in fits : m <= n

LivePart == [expected |-> 0, sent |-> 0, held |-> <<>>, stopped |-> FALSE, kept |-> <<>>, whole |-> TRUE]

\* What is passed on is kept until the part outgrows the cap.
keep(part, out) ==
  LET kept == part.kept \o out
  IN IF part.whole /\ Len(kept) <= CatchUpCap THEN [part EXCEPT !.kept = kept] ELSE [part EXCEPT !.kept = <<>>, !.whole = FALSE]

Out(part, text) == [part |-> part, out |-> text]
\* Mutant: a piece that does not continue the part is taken.
AdmitAnyOffset(part, offset, text) ==
  LET pending == part.held \o text
      meta == Find(pending, MetaOpen)
      tail == IF meta < Len(pending) THEN 0 ELSE held_tail(pending)
      out == SubSeq(pending, 1, meta - tail)
  IN IF part.stopped THEN Out(part, <<>>)
     ELSE Out([keep(part, out) EXCEPT !.expected = offset + Len(text), !.sent = @ + Len(out),
                 !.held = SubSeq(pending, meta - tail + 1, meta), !.stopped = meta < Len(pending)], out)
\* A piece arrived from the driver: what of it goes to the phones.
admit(part, offset, text) ==
  LET pending == part.held \o text
      meta == Find(pending, MetaOpen)
      tail == IF meta < Len(pending) THEN 0 ELSE held_tail(pending)
      out == SubSeq(pending, 1, meta - tail)
  IN IF part.stopped \/ offset # part.expected THEN Out([part EXCEPT !.stopped = TRUE], <<>>)
     ELSE Out([keep(part, out) EXCEPT !.expected = offset + Len(text), !.sent = @ + Len(out),
                 !.held = SubSeq(pending, meta - tail + 1, meta), !.stopped = meta < Len(pending)], out)

\* Messages to the phone.
PartialMsg(key, offset, text) == [kind |-> "partial", key |-> key, offset |-> offset, text |-> text]
EntryMsg(key) == [kind |-> "entry", key |-> key, offset |-> 0, text |-> <<>>]
TurnMsg == [kind |-> "turn", key |-> "none", offset |-> 0, text |-> <<>>]
ToPhone(msgs) == wire' = wire \o msgs

LiveInit ==
  /\ liveScene \in LiveScenes
  /\ written = [k \in LiveKeys |-> 0]
  /\ parts = << >> /\ entered = {} /\ idle = FALSE
  /\ wire = <<>> /\ late = {}
  /\ rows = << >> /\ completed = {} /\ seen = {}

-----------------------------------------------------------------------------
(* The bridge. *)

OnPartial(key, n) ==
  LET text == SubSeq(liveScene.reply[key], written[key] + 1, written[key] + n)
      part == IF key \in DOMAIN parts THEN parts[key] ELSE LivePart
      taken == admit(part, written[key], text)
  IN /\ ~idle /\ key \notin entered /\ written[key] + n <= Len(liveScene.reply[key])
     /\ written' = [written EXCEPT ![key] = @ + n]
     /\ parts' = [k \in DOMAIN parts \cup {key} |-> IF k = key THEN taken.part ELSE parts[k]]
     /\ ToPhone(IF taken.out = <<>> THEN <<>> ELSE <<PartialMsg(key, part.sent, taken.out)>>)
     /\ UNCHANGED <<liveScene, entered, idle, late, rows, completed, seen>>

\* A piece the driver never sent on.
PieceLost(key) ==
  /\ LiveMay("skip") /\ ~idle /\ key \notin entered
  /\ written[key] < Len(liveScene.reply[key])
  /\ written' = [written EXCEPT ![key] = @ + 1]
  /\ UNCHANGED <<liveScene, parts, entered, idle, wire, late, rows, completed, seen>>

OnEntries(key) ==
  /\ ~idle /\ key \notin entered /\ written[key] = Len(liveScene.reply[key])
  /\ entered' = entered \cup {key}
  /\ parts' = [k \in DOMAIN parts \ {key} |-> parts[k]]
  /\ ToPhone(IF strip_session_meta(liveScene.reply[key]) = <<>> THEN <<>> ELSE <<EntryMsg(key)>>)
  /\ UNCHANGED <<liveScene, written, idle, late, rows, completed, seen>>

\* The turn ends, or the agent is restarted in mid-part: no part left will
\* be completed, and the turn's last entry says it ended.
OnTurn ==
  /\ ~idle
  /\ idle' = TRUE /\ parts' = << >>
  /\ ToPhone(<<TurnMsg>>)
  /\ UNCHANGED <<liveScene, written, entered, late, rows, completed, seen>>

\* A session list names the session as not running: the phone ends its turn.
OnSessionsIdle ==
  /\ idle /\ wire = <<>> /\ rows # << >>
  /\ ToPhone(<<TurnMsg>>)
  /\ UNCHANGED <<liveScene, written, parts, entered, idle, late, rows, completed, seen>>

\* A client starts watching: every part that kept its text goes to it whole
\* (in the order of the keys, which stand in none here: in any order).
catch_up_live_text ==
  LET whole == {k \in DOMAIN parts : parts[k].whole /\ parts[k].kept # <<>>}
  IN /\ LiveMay("watch") /\ whole # {}
     /\ Len(wire) < 3
     /\ \E keys \in [1..Cardinality(whole) -> whole] :
          /\ \A k \in whole : \E i \in DOMAIN keys : keys[i] = k
          /\ ToPhone([i \in DOMAIN keys |-> PartialMsg(keys[i], 0, parts[keys[i]].kept)])
     /\ UNCHANGED <<liveScene, written, parts, entered, idle, late, rows, completed, seen>>

-----------------------------------------------------------------------------
(* The phone. *)

Row == [text |-> <<>>, frozen |-> FALSE]
apply_piece(row, msg) ==
  IF msg.offset = 0 THEN [text |-> msg.text, frozen |-> FALSE]
  ELSE IF row.frozen \/ msg.offset # Len(row.text) THEN [row EXCEPT !.frozen = TRUE]
  ELSE [row EXCEPT !.text = @ \o msg.text]

RowsWith(msg) ==
  IF msg.key \in completed THEN rows
  ELSE [k \in DOMAIN rows \cup {msg.key} |->
          IF k # msg.key THEN rows[k]
          ELSE apply_piece(IF k \in DOMAIN rows THEN rows[k] ELSE Row, msg)]

complete(key) ==
  /\ rows' = [k \in DOMAIN rows \ {key} |-> rows[k]]
  /\ seen' = seen \cup {key} /\ completed' = completed \cup {key}
end_turn == rows' = << >> /\ completed' = {} /\ UNCHANGED seen

Take(msg) ==
  \/ msg.kind = "partial" /\ rows' = RowsWith(msg) /\ UNCHANGED <<completed, seen>>
  \/ msg.kind = "entry" /\ complete(msg.key)
  \/ msg.kind = "turn" /\ end_turn

\* The oldest message arrives, or one a relay was slow with arrives again.
LiveArrives ==
  /\ wire # <<>>
  /\ Take(Head(wire)) /\ wire' = Tail(wire)
  /\ late' = IF LiveMay("again") THEN late \cup {Head(wire)} ELSE late
  /\ UNCHANGED <<liveScene, written, parts, entered, idle>>
LiveAgain == \E msg \in late :
  /\ Take(msg) /\ late' = late \ {msg}
  /\ UNCHANGED <<liveScene, written, parts, entered, idle, wire>>
\* A partial is lost. (An entry lost is fetched by the transcript's sync.)
LiveLost ==
  /\ LiveMay("lose") /\ wire # <<>> /\ Head(wire).kind = "partial"
  /\ wire' = Tail(wire)
  /\ UNCHANGED <<liveScene, written, parts, entered, idle, late, rows, completed, seen>>

LiveNext ==
  \/ \E k \in LiveKeys : (\E n \in 1..2 : OnPartial(k, n)) \/ PieceLost(k) \/ OnEntries(k)
  \/ OnTurn \/ OnSessionsIdle \/ catch_up_live_text
  \/ LiveArrives \/ LiveAgain \/ LiveLost
LiveSpec == LiveInit /\ [][LiveNext]_liveVars

-----------------------------------------------------------------------------
\* A live row is always the beginning of the text its entry will have,
\* whatever pieces were lost, doubled or overtaken and whenever the phone
\* started watching: it never shows the session-meta comment, and never text
\* with a hole in it.  And while the turn runs, a late piece of a part whose
\* entry the phone already has never brings the row back beside the entry.
LiveIsPrefix == \A k \in DOMAIN rows :
  /\ \E n \in 0..Len(strip_session_meta(liveScene.reply[k])) : rows[k].text = SubSeq(strip_session_meta(liveScene.reply[k]), 1, n)
  /\ k \notin seen \/ idle

\* No live row outlives its turn for good, though a piece delivered again
\* after the turn's end does bring one back: the next list clears it.
RowsEnd == <>[](idle => rows = << >>)

-----------------------------------------------------------------------------
(***************************************************************************)
(* Proof that a live row is always a beginning of the text its entry will  *)
(* have.  The invariant follows a text from the driver to the screen: what *)
(* the bridge passed on of a part, what is on the wire or may come again,  *)
(* and what a row shows are each a piece of the reply before the           *)
(* session-meta comment, at the offset they name.                          *)
(***************************************************************************)
Text == Seq(ReplyChars)

(* Where the opening of the session-meta comment stands in a text. *)
LEMMA OpensAt ==
  ASSUME NEW t \in Text, NEW i \in Nat, i + 2 <= Len(t)
  PROVE  SubSeq(t, i + 1, i + 2) = MetaOpen <=> t[i + 1] = "<" /\ t[i + 2] = "m"
<1>1. Len(MetaOpen) = 2 /\ MetaOpen[1] = "<" /\ MetaOpen[2] = "m" /\ MetaOpen \in Text
  BY LiveAssumption DEF MetaOpen, Text
<1>2. SubSeq(t, i + 1, i + 2) \in Text /\ Len(SubSeq(t, i + 1, i + 2)) = 2 /\ \A j \in 1..2 : SubSeq(t, i + 1, i + 2)[j] = t[i + j]
  BY DEF Text
<1>. QED  BY <1>1, <1>2 DEF Text

(* The whole tag begins with the opening of the comment. *)
LEMMA TagsAt ==
  ASSUME NEW t \in Text, NEW i \in Nat, i + 3 <= Len(t), SubSeq(t, i + 1, i + 3) = MetaTag
  PROVE  SubSeq(t, i + 1, i + 2) = MetaOpen
<1>1. Len(MetaTag) = 3 /\ MetaTag[1] = "<" /\ MetaTag[2] = "m"
  BY DEF MetaTag
<1>2. \A j \in 1..3 : SubSeq(t, i + 1, i + 3)[j] = t[i + j]
  BY DEF Text
<1>3. t[i + 1] = "<" /\ t[i + 2] = "m"
  BY <1>1, <1>2
<1>4. i + 2 <= Len(t)
  BY DEF Text
<1>. QED  BY <1>3, <1>4, OpensAt

(* A set of naturals that is not empty has a least member. *)
LEMMA LeastIsIn ==
  ASSUME NEW S \in SUBSET Nat, S # {}
  PROVE  \E i \in S : \A j \in S : i <= j
<1>. DEFINE R == {ss \in Nat \X Nat : ss[1] < ss[2]}
<1>1. R = OpToRel(<, Nat)
  BY DEF OpToRel
<1>2. IsWellFoundedOn(R, Nat)
  BY <1>1, NatLessThanWellFounded
<1>3. \A x, y \in Nat : y < x => <<y, x>> \in R
  OBVIOUS
<1>. HIDE DEF R
<1>4. PICK x \in S : \A y \in S : ~ (<<y, x>> \in R)
  BY <1>2, WFMin
<1>5. \A y \in S : ~ (y < x)
  BY <1>3, <1>4
<1>. QED  BY <1>5

(* Find gives the first opening of the comment, or the length of the text. *)
LEMMA FindOpen ==
  ASSUME NEW t \in Text
  PROVE  /\ Find(t, MetaOpen) \in Nat /\ Find(t, MetaOpen) <= Len(t)
         /\ \A i \in Nat : i + 2 <= Len(t) /\ t[i + 1] = "<" /\ t[i + 2] = "m" => Find(t, MetaOpen) <= i
         /\ Find(t, MetaOpen) < Len(t) => /\ Find(t, MetaOpen) + 2 <= Len(t)
                                          /\ t[Find(t, MetaOpen) + 1] = "<" /\ t[Find(t, MetaOpen) + 2] = "m"
<1>. DEFINE at == {i \in 0..(Len(t) - Len(MetaOpen)) : SubSeq(t, i + 1, i + Len(MetaOpen)) = MetaOpen}
<1>1. Len(t) \in Nat /\ Len(MetaOpen) = 2
  BY DEF Text, MetaOpen
<1>2. at \in SUBSET Nat /\ \A i \in Nat : i \in at <=> i + 2 <= Len(t) /\ t[i + 1] = "<" /\ t[i + 2] = "m"
  <2>1. \A i \in Nat : i \in at <=> i + 2 <= Len(t) /\ SubSeq(t, i + 1, i + 2) = MetaOpen
    BY <1>1
  <2>. QED  BY <2>1, OpensAt
<1>3. Find(t, MetaOpen) = IF at = {} THEN Len(t) ELSE CHOOSE i \in at : \A j \in at : i <= j
  BY DEF Find
<1>. HIDE DEF at
<1>4. at # {} => Find(t, MetaOpen) \in at /\ \A j \in at : Find(t, MetaOpen) <= j
  BY <1>2, <1>3, LeastIsIn
<1>5. CASE at = {}
  <2>1. Find(t, MetaOpen) = Len(t)
    BY <1>3, <1>5
  <2>. QED  BY <1>1, <1>2, <1>5, <2>1
<1>6. CASE at # {}
  <2>1. PICK f : f = Find(t, MetaOpen)
    OBVIOUS
  <2>2. f \in at /\ f \in Nat /\ \A j \in at : f <= j
    BY <1>2, <1>4, <1>6, <2>1
  <2>3. f + 2 <= Len(t) /\ t[f + 1] = "<" /\ t[f + 2] = "m"
    BY <1>2, <2>2
  <2>4. \A i \in Nat : i + 2 <= Len(t) /\ t[i + 1] = "<" /\ t[i + 2] = "m" => f <= i
    BY <1>2, <2>2
  <2>. QED  BY <1>1, <2>1, <2>2, <2>3, <2>4
<1>. QED  BY <1>5, <1>6

(* The tag comes no earlier than the first opening. *)
LEMMA FindTag ==
  ASSUME NEW t \in Text
  PROVE  Find(t, MetaTag) \in Nat /\ Find(t, MetaTag) <= Len(t) /\ Find(t, MetaOpen) <= Find(t, MetaTag)
<1>. DEFINE at == {i \in 0..(Len(t) - Len(MetaTag)) : SubSeq(t, i + 1, i + Len(MetaTag)) = MetaTag}
<1>1. Len(t) \in Nat /\ Len(MetaTag) = 3
  BY DEF Text, MetaTag
<1>2. at \in SUBSET Nat /\ \A i \in at : i + 3 <= Len(t) /\ SubSeq(t, i + 1, i + 2) = MetaOpen
  BY <1>1, TagsAt
<1>3. Find(t, MetaTag) = IF at = {} THEN Len(t) ELSE CHOOSE i \in at : \A j \in at : i <= j
  BY DEF Find
<1>. HIDE DEF at
<1>4. at # {} => Find(t, MetaTag) \in at
  BY <1>2, <1>3, LeastIsIn
<1>5. \A i \in at : i \in Nat /\ i <= Len(t) /\ Find(t, MetaOpen) <= i
  BY <1>1, <1>2, OpensAt, FindOpen
<1>. QED  BY <1>1, <1>3, <1>4, <1>5, FindOpen

(* Pieces of a text. *)
LEMMA Slice ==
  ASSUME NEW t \in Text, NEW a \in Nat, NEW b \in Nat, a <= b, b <= Len(t)
  PROVE  SubSeq(t, a + 1, b) \in Text /\ Len(SubSeq(t, a + 1, b)) = b - a /\ \A j \in 1..(b - a) : SubSeq(t, a + 1, b)[j] = t[a + j]
BY DEF Text

(* The beginning of a text. *)
LEMMA Begins ==
  ASSUME NEW t \in Text, NEW b \in Nat, b <= Len(t)
  PROVE  SubSeq(t, 1, b) \in Text /\ Len(SubSeq(t, 1, b)) = b /\ \A j \in 1..b : SubSeq(t, 1, b)[j] = t[j]
BY DEF Text

(* A piece and the one that continues it are one piece. *)
LEMMA Joins ==
  ASSUME NEW t \in Text, NEW a \in Nat, NEW b \in Nat, NEW c \in Nat, a <= b, b <= c, c <= Len(t)
  PROVE  SubSeq(t, a + 1, b) \o SubSeq(t, b + 1, c) = SubSeq(t, a + 1, c)
BY DEF Text

(* A piece of a piece. *)
LEMMA SliceOfSlice ==
  ASSUME NEW t \in Text, NEW a \in Nat, NEW c \in Nat, a <= c, c <= Len(t), NEW m \in Nat, NEW n \in Nat, m <= n, n <= c - a
  PROVE  SubSeq(SubSeq(t, a + 1, c), m + 1, n) = SubSeq(t, a + m + 1, a + n)
BY DEF Text

(* What comes before the comment is the beginning of the entry's text. *)
LEMMA StripKeeps ==
  ASSUME NEW t \in Text, NEW n \in Nat, n <= Find(t, MetaOpen)
  PROVE  n \in 0..Len(strip_session_meta(t)) /\ SubSeq(strip_session_meta(t), 1, n) = SubSeq(t, 1, n)
<1>. DEFINE at == Find(t, MetaTag)
            rest == SubSeq(t, at + Len(MetaTag) + 1, Len(t))
<1>1. at \in Nat /\ at <= Len(t) /\ n <= at /\ Len(MetaTag) = 3
  BY FindTag, FindOpen DEF MetaTag
<1>2. SubSeq(t, 1, at) \in Text /\ Len(SubSeq(t, 1, at)) = at /\ rest \in Text
  BY <1>1 DEF Text
<1>3. strip_session_meta(t) = SubSeq(t, 1, at) \o rest
  BY DEF strip_session_meta
<1>. HIDE DEF at, rest
<1>. QED  BY <1>1, <1>2, <1>3 DEF Text

(* A text is held back by one character: the first of the comment. *)
LEMMA HeldTail ==
  ASSUME NEW p \in Text
  PROVE  held_tail(p) = IF Len(p) >= 1 /\ p[Len(p)] = "<" THEN 1 ELSE 0
<1>. DEFINE fits == {n \in 1..(Len(MetaOpen) - 1) : n <= Len(p) /\ SubSeq(p, Len(p) - n + 1, Len(p)) = SubSeq(MetaOpen, 1, n)}
<1>1. Len(MetaOpen) = 2 /\ MetaOpen[1] = "<" /\ MetaOpen \in Text /\ Len(p) \in Nat
  BY LiveAssumption DEF MetaOpen, Text
<1>2. fits \subseteq {1} /\ (1 \in fits <=> Len(p) >= 1 /\ p[Len(p)] = "<")
  <2>1. SubSeq(MetaOpen, 1, 1) \in Text /\ Len(SubSeq(MetaOpen, 1, 1)) = 1 /\ SubSeq(MetaOpen, 1, 1)[1] = "<"
    <3>1. 1 \in Nat /\ 1 <= Len(MetaOpen)
      BY <1>1
    <3>2. /\ SubSeq(MetaOpen, 1, 1) \in Text /\ Len(SubSeq(MetaOpen, 1, 1)) = 1
          /\ \A j \in 1..1 : SubSeq(MetaOpen, 1, 1)[j] = MetaOpen[j]
      BY <1>1, <3>1, Begins
    <3>. QED  BY <1>1, <3>2
  <2>2. Len(p) >= 1 => SubSeq(p, Len(p), Len(p)) \in Text /\ Len(SubSeq(p, Len(p), Len(p))) = 1 /\ SubSeq(p, Len(p), Len(p))[1] = p[Len(p)]
    BY <1>1 DEF Text
  <2>3. Len(p) >= 1 => (SubSeq(p, Len(p), Len(p)) = SubSeq(MetaOpen, 1, 1) <=> p[Len(p)] = "<")
    BY <2>1, <2>2 DEF Text
  <2>4. Len(p) - 1 + 1 = Len(p) /\ 1..(Len(MetaOpen) - 1) = {1}
    BY <1>1
  <2>. QED  BY <1>1, <2>3, <2>4
<1>3. held_tail(p) = IF fits = {} THEN 0 ELSE CHOOSE n \in fits : \A m \in fits : m <= n
  BY DEF held_tail
<1>. HIDE DEF fits
<1>4. fits = {} \/ fits = {1}
  BY <1>2
<1>5. (CHOOSE n \in {1} : \A m \in {1} : m <= n) = 1
  OBVIOUS
<1>6. CASE fits = {}
  BY <1>2, <1>3, <1>6
<1>7. CASE fits = {1}
  BY <1>2, <1>3, <1>5, <1>7
<1>. QED  BY <1>4, <1>6, <1>7

LivePartType == [expected : Nat, sent : Nat, held : Text, stopped : BOOLEAN, kept : Text, whole : BOOLEAN]

(* What the bridge passed on of a part whose whole text is t is the beginning *)
(* of t up to `sent`, before the comment.                                      *)
PartFits(part, t) ==
  /\ part \in LivePartType
  /\ part.sent <= Find(t, MetaOpen)
  /\ part.whole => part.kept = SubSeq(t, 1, part.sent)
  /\ ~ part.stopped => part.sent <= part.expected /\ part.expected <= Len(t) /\ part.held = SubSeq(t, part.sent + 1, part.expected)

HeldOf(pending) == IF Find(pending, MetaOpen) < Len(pending) THEN 0 ELSE held_tail(pending)

(* Whatever is pending of a text from s on, what of it comes before the comment *)
(* and is not held back comes before the comment of the text.                   *)
LEMMA PassesBefore ==
  ASSUME NEW t \in Text, NEW s \in Nat, NEW e \in Nat, s <= e, e <= Len(t), s <= Find(t, MetaOpen)
  PROVE  LET pending == SubSeq(t, s + 1, e) IN
         /\ Find(pending, MetaOpen) \in Nat /\ HeldOf(pending) \in {0, 1} /\ HeldOf(pending) <= Find(pending, MetaOpen)
         /\ s + Find(pending, MetaOpen) <= e
         /\ s + (Find(pending, MetaOpen) - HeldOf(pending)) <= Find(t, MetaOpen)
         /\ Find(pending, MetaOpen) = Len(pending) => s + Find(pending, MetaOpen) = e
<1>. DEFINE pending == SubSeq(t, s + 1, e)
            meta == Find(pending, MetaOpen)
            tail == HeldOf(pending)
<1>1. Len(t) \in Nat
  BY DEF Text
<1>2. pending \in Text /\ Len(pending) = e - s /\ \A j \in 1..(e - s) : pending[j] = t[s + j]
  BY Slice
<1>. HIDE DEF pending
<1>3. PICK f \in Nat : f = Find(t, MetaOpen)
  BY FindOpen
<1>4. f <= Len(t) /\ (f < Len(t) => f + 2 <= Len(t) /\ t[f + 1] = "<" /\ t[f + 2] = "m")
  BY <1>3, FindOpen
<1>5. PICK d \in Nat : d = e - s /\ e = s + d
  OBVIOUS
<1>6. /\ meta \in Nat /\ meta <= d
      /\ \A i \in Nat : i + 2 <= d /\ pending[i + 1] = "<" /\ pending[i + 2] = "m" => meta <= i
      /\ meta < d => meta + 2 <= d
  BY <1>2, <1>5, FindOpen
<1>7. tail = IF meta < d THEN 0 ELSE IF d >= 1 /\ pending[d] = "<" THEN 1 ELSE 0
  BY <1>2, <1>5, HeldTail DEF HeldOf
<1>. HIDE DEF meta, tail
<1>8. tail \in {0, 1} /\ tail <= meta
  BY <1>6, <1>7
<1>9. s + (meta - tail) <= f
  <2>. SUFFICES ASSUME f < s + (meta - tail)  PROVE FALSE
    BY <1>6, <1>8
  <2>1. PICK i \in Nat : f = s + i
    <3>1. f - s \in Nat /\ f = s + (f - s)
      BY <1>3
    <3>. QED  BY <3>1
  <2>2. i < meta - tail /\ i < d /\ f < Len(t)
    BY <1>1, <1>4, <1>5, <1>6, <1>8, <2>1
  <2>3. pending[i + 1] = t[s + i + 1]
    BY <1>2, <1>5, <2>2
  <2>4. pending[i + 1] = "<"
    BY <1>4, <2>1, <2>2, <2>3
  <2>5. CASE i + 2 <= d
    <3>1. pending[i + 2] = t[s + i + 2]
      BY <1>2, <1>5, <2>5
    <3>2. pending[i + 2] = "m"
      BY <1>4, <2>1, <2>2, <3>1
    <3>3. meta <= i
      BY <1>6, <2>4, <2>5, <3>2
    <3>. QED  BY <1>6, <1>8, <2>2, <3>3
  <2>6. CASE i + 1 = d
    <3>1. tail = 1 \/ meta < d
      <4>1. pending[d] = "<"
        BY <2>4, <2>6, Zenon
      <4>2. d >= 1
        BY <2>6
      <4>. QED  BY <1>6, <1>7, <4>1, <4>2
    <3>. QED  BY <1>6, <1>8, <2>2, <2>6, <3>1
  <2>. QED  BY <1>5, <2>2, <2>5, <2>6
<1>. QED  BY <1>2, <1>3, <1>5, <1>6, <1>8, <1>9 DEF meta, tail, pending

(* LivePart::admit keeps what it passed on a beginning of the part, and passes on the piece that continues it. *)
LEMMA AdmitFits ==
  ASSUME NEW t \in Text, NEW part, PartFits(part, t), NEW offset \in Nat, NEW n \in Nat, offset + n <= Len(t)
  PROVE  LET taken == admit(part, offset, SubSeq(t, offset + 1, offset + n))
         IN /\ PartFits(taken.part, t)
            /\ taken.out \in Text /\ part.sent + Len(taken.out) <= Find(t, MetaOpen)
            /\ taken.out = SubSeq(t, part.sent + 1, part.sent + Len(taken.out))
<1>1. PICK text : text = SubSeq(t, offset + 1, offset + n)
  OBVIOUS
<1>2. text \in Text /\ Len(text) = n
  <2>1. PICK e \in Nat : e = offset + n
    OBVIOUS
  <2>. QED  BY <1>1, <2>1, Slice
<1>3. PICK s \in Nat : s = part.sent
  BY DEF PartFits, LivePartType
<1>4. PICK f \in Nat : f = Find(t, MetaOpen)
  BY FindOpen
<1>5. f <= Len(t) /\ Len(t) \in Nat /\ s <= f
  BY <1>3, <1>4, FindOpen DEF PartFits, Text
<1>6. PICK taken : taken = admit(part, offset, text)
  OBVIOUS
<1>7. SUFFICES /\ PartFits(taken.part, t)
               /\ taken.out \in Text /\ s + Len(taken.out) <= f
               /\ taken.out = SubSeq(t, s + 1, s + Len(taken.out))
  BY <1>1, <1>3, <1>4, <1>6
<1>8. CASE part.stopped \/ offset # part.expected
  <2>1. taken = [part |-> [part EXCEPT !.stopped = TRUE], out |-> <<>>]
    BY <1>6, <1>8 DEF admit, Out
  <2>2. PartFits([part EXCEPT !.stopped = TRUE], t)
    BY DEF PartFits, LivePartType
  <2>3. <<>> \in Text /\ Len(<<>>) = 0 /\ <<>> = SubSeq(t, s + 1, s)
    BY <1>5 DEF Text
  <2>. QED  BY <1>5, <2>1, <2>2, <2>3
<1>9. CASE ~ part.stopped /\ offset = part.expected
  <2>1. s <= offset /\ part.held = SubSeq(t, s + 1, offset)
    BY <1>3, <1>9 DEF PartFits
  <2>2. PICK pending : pending = part.held \o text
    OBVIOUS
  <2>3. PICK e \in Nat : e = offset + n /\ e <= Len(t) /\ s <= e
    BY <1>5, <2>1
  <2>4. pending = SubSeq(t, s + 1, e)
    BY <1>1, <2>1, <2>2, <2>3, Joins, SMTT(30), ZenonT(30)
  <2>5. PICK meta : meta = Find(pending, MetaOpen)
    OBVIOUS
  <2>6. PICK tail : tail = HeldOf(pending)
    OBVIOUS
  <2>7. /\ meta \in Nat /\ tail \in {0, 1} /\ tail <= meta /\ s + meta <= e /\ s + (meta - tail) <= f
        /\ meta = Len(pending) => s + meta = e
    <3>1. s <= Find(t, MetaOpen)
      BY <1>4, <1>5
    <3>2. /\ Find(pending, MetaOpen) \in Nat /\ HeldOf(pending) \in {0, 1} /\ HeldOf(pending) <= Find(pending, MetaOpen)
          /\ s + Find(pending, MetaOpen) <= e
          /\ s + (Find(pending, MetaOpen) - HeldOf(pending)) <= Find(t, MetaOpen)
          /\ Find(pending, MetaOpen) = Len(pending) => s + Find(pending, MetaOpen) = e
      BY <2>3, <2>4, <3>1, PassesBefore
    <3>. QED  BY <1>4, <2>5, <2>6, <3>2
  <2>8. PICK l \in Nat : l = meta - tail
    BY <2>7
  <2>9. PICK out : out = SubSeq(pending, 1, l)
    OBVIOUS
  <2>10. out \in Text /\ Len(out) = l /\ out = SubSeq(t, s + 1, s + l)
    <3>1. pending \in Text /\ Len(pending) = e - s
      BY <2>3, <2>4, Slice
    <3>2. l <= e - s
      BY <2>3, <2>7, <2>8
    <3>3. SubSeq(SubSeq(t, s + 1, e), 0 + 1, l) = SubSeq(t, s + 0 + 1, s + l)
      BY <2>3, <3>2, SliceOfSlice
    <3>4. 0 + 1 = 1 /\ s + 0 + 1 = s + 1
      OBVIOUS
    <3>5. out \in Text /\ Len(out) = l
      BY <2>9, <3>1, <3>2, Begins
    <3>. QED  BY <2>4, <2>9, <3>3, <3>4, <3>5
  <2>11. PICK held : held = SubSeq(pending, l + 1, meta)
    OBVIOUS
  <2>12. held \in Text /\ held = SubSeq(t, s + l + 1, s + meta)
    <3>1. meta <= e - s /\ l <= meta
      BY <2>3, <2>7, <2>8
    <3>2. SubSeq(SubSeq(t, s + 1, e), l + 1, meta) = SubSeq(t, s + l + 1, s + meta)
      BY <2>3, <2>7, <3>1, SliceOfSlice
    <3>3. SubSeq(t, s + l + 1, s + meta) \in Text
      <4>1. PICK a \in Nat, b \in Nat : a = s + l /\ b = s + meta /\ a <= b /\ b <= Len(t)
        BY <1>5, <2>3, <2>7, <3>1
      <4>. QED  BY <4>1, Slice
    <3>. QED  BY <2>4, <2>11, <3>2, <3>3
  <2>13. taken.out = out /\ taken.part = [keep(part, out) EXCEPT !.expected = offset + Len(text), !.sent = @ + Len(out), !.held = held, !.stopped = meta < Len(pending)]
    BY <1>6, <1>9, <2>2, <2>5, <2>6, <2>8, <2>9, <2>11 DEF admit, Out, HeldOf
  <2>14. PICK kept \in Text, whole \in BOOLEAN :
           /\ keep(part, out) = [part EXCEPT !.kept = kept, !.whole = whole]
           /\ whole => kept = SubSeq(t, 1, s + l)
    <3>1. CASE part.whole /\ Len(part.kept \o out) <= CatchUpCap
      <4>1. part.kept \o out = SubSeq(t, 1, s + l)
        <5>1. PICK b \in Nat : b = s + l /\ s <= b /\ b <= Len(t)
          BY <1>5, <2>7, <2>8
        <5>2. part.kept = SubSeq(t, 0 + 1, s)
          BY <1>3, <3>1 DEF PartFits
        <5>3. out = SubSeq(t, s + 1, b)
          BY <2>10, <5>1
        <5>4. SubSeq(t, 0 + 1, s) \o SubSeq(t, s + 1, b) = SubSeq(t, 0 + 1, b)
          BY <5>1, Joins
        <5>5. 0 + 1 = 1
          OBVIOUS
        <5>. QED  BY <5>1, <5>2, <5>3, <5>4, <5>5
      <4>2. part.kept \o out \in Text
        BY <2>10 DEF PartFits, LivePartType, Text
      <4>3. keep(part, out) = [part EXCEPT !.kept = part.kept \o out]
        BY <3>1 DEF keep
      <4>4. [part EXCEPT !.kept = part.kept \o out] = [part EXCEPT !.kept = part.kept \o out, !.whole = TRUE]
        BY <3>1 DEF PartFits, LivePartType
      <4>. QED  BY <4>1, <4>2, <4>3, <4>4
    <3>2. CASE ~ (part.whole /\ Len(part.kept \o out) <= CatchUpCap)
      <4>1. keep(part, out) = [part EXCEPT !.kept = <<>>, !.whole = FALSE]
        BY <3>2 DEF keep
      <4>2. <<>> \in Text
        BY DEF Text
      <4>. QED  BY <4>1, <4>2
    <3>. QED  BY <3>1, <3>2
  <2>15. PICK new : new = taken.part
    OBVIOUS
  <2>16. /\ new \in LivePartType /\ new.expected = e /\ new.sent = s + l /\ new.held = held
         /\ (new.stopped <=> meta < Len(pending)) /\ new.kept = kept /\ (new.whole <=> whole)
    <3>1. new = [part EXCEPT !.kept = kept, !.whole = whole, !.expected = e, !.sent = s + l, !.held = held, !.stopped = meta < Len(pending)]
      BY <1>2, <1>3, <2>3, <2>10, <2>13, <2>14, <2>15 DEF PartFits, LivePartType
    <3>2. PICK x \in Nat : x = s + l
      OBVIOUS
    <3>3. part \in LivePartType /\ held \in Text
      BY <2>12 DEF PartFits
    <3>4. ASSUME NEW stopped \in BOOLEAN,
                 new = [part EXCEPT !.kept = kept, !.whole = whole, !.expected = e, !.sent = x, !.held = held, !.stopped = stopped]
          PROVE  /\ new \in LivePartType /\ new.expected = e /\ new.sent = x /\ new.held = held
                 /\ (new.stopped <=> stopped) /\ new.kept = kept /\ (new.whole <=> whole)
      BY <3>3, <3>4 DEF LivePartType
    <3>5. CASE meta < Len(pending)
      <4>1. new = [part EXCEPT !.kept = kept, !.whole = whole, !.expected = e, !.sent = x, !.held = held, !.stopped = TRUE]
        BY <3>1, <3>2, <3>5
      <4>2. /\ new \in LivePartType /\ new.expected = e /\ new.sent = x /\ new.held = held
            /\ (new.stopped <=> TRUE) /\ new.kept = kept /\ (new.whole <=> whole)
        BY <3>4, <4>1, Zenon
      <4>. QED  BY <3>2, <3>5, <4>2
    <3>6. CASE ~ (meta < Len(pending))
      <4>1. new = [part EXCEPT !.kept = kept, !.whole = whole, !.expected = e, !.sent = x, !.held = held, !.stopped = FALSE]
        <5>1. (meta < Len(pending)) = FALSE
          BY <3>6
        <5>. QED  BY <3>1, <3>2, <5>1, Zenon
      <4>2. /\ new \in LivePartType /\ new.expected = e /\ new.sent = x /\ new.held = held
            /\ (new.stopped <=> FALSE) /\ new.kept = kept /\ (new.whole <=> whole)
        BY <3>4, <4>1, Zenon
      <4>. QED  BY <3>2, <3>6, <4>2
    <3>. QED  BY <3>5, <3>6
  <2>17. PartFits(new, t)
    <3>1. new.sent <= f
      BY <2>7, <2>8, <2>16
    <3>2. ASSUME ~ new.stopped  PROVE new.sent <= new.expected /\ new.expected <= Len(t) /\ new.held = SubSeq(t, new.sent + 1, new.expected)
      <4>1. Len(pending) = e - s
        BY <2>3, <2>4, Slice
      <4>2. s + meta = e
        BY <2>3, <2>7, <2>16, <3>2, <4>1
      <4>. QED  BY <2>3, <2>7, <2>8, <2>12, <2>16, <4>2
    <3>. QED  BY <1>4, <2>14, <2>16, <3>1, <3>2 DEF PartFits
  <2>. QED  BY <2>7, <2>8, <2>10, <2>13, <2>15, <2>17
<1>. QED  BY <1>8, <1>9

LiveNames == {"none"} \cup UNION {DOMAIN scene.reply : scene \in LiveScenes}
LiveMsgs == [kind : {"partial", "entry", "turn"}, key : LiveNames, offset : Nat, text : Text]
RowType == [text : Text, frozen : BOOLEAN]

(* A live row is the beginning of its part's text, before the comment. *)
RowFits(row, t) == row \in RowType /\ Len(row.text) <= Find(t, MetaOpen) /\ row.text = SubSeq(t, 1, Len(row.text))

PieceFits(offset, text, t) == offset + Len(text) <= Find(t, MetaOpen) /\ text = SubSeq(t, offset + 1, offset + Len(text))

(* A message on its way, or one a relay keeps: a piece of the text before the  *)
(* comment, or an end of the turn that ended.                                  *)
MsgFits(m) ==
  /\ m \in LiveMsgs
  /\ m.kind = "partial" => m.key \in LiveKeys /\ PieceFits(m.offset, m.text, liveScene.reply[m.key])
  /\ m.kind = "turn" => idle

WireFits == wire \in Seq(LiveMsgs) /\ \A i \in 1..Len(wire) : MsgFits(wire[i])

LiveInv ==
  /\ liveScene \in LiveScenes
  /\ written \in [LiveKeys -> Nat]
  /\ DOMAIN parts \subseteq LiveKeys /\ \A k \in DOMAIN parts : PartFits(parts[k], liveScene.reply[k])
  /\ WireFits
  /\ \A m \in late : MsgFits(m)
  /\ DOMAIN rows \subseteq LiveKeys /\ \A k \in DOMAIN rows : RowFits(rows[k], liveScene.reply[k])
  /\ idle \in BOOLEAN
  /\ ~ idle => seen \subseteq completed /\ DOMAIN rows \cap completed = {}

(* The replies of a scene are texts. *)
LEMMA Replies == ASSUME LiveInv, NEW k \in LiveKeys  PROVE liveScene.reply[k] \in Text /\ k \in LiveNames
BY LiveAssumption DEF LiveInv, LiveKeys, LiveNames, Text

(* A message that fits goes on fitting while the scene stays and the turn does not start again. *)
LEMMA MsgStill == ASSUME UNCHANGED liveScene, idle => idle', NEW m, MsgFits(m)  PROVE MsgFits(m)'
BY DEF MsgFits, LiveKeys

(* Messages are added at the end of the wire. *)
LEMMA WireGrows ==
  ASSUME LiveInv, UNCHANGED <<liveScene, idle>>, NEW msgs \in Seq(LiveMsgs), \A i \in 1..Len(msgs) : MsgFits(msgs[i]), ToPhone(msgs)
  PROVE  WireFits'
<1>1. PICK v, w : v = wire /\ w = wire'
  OBVIOUS
<1>2. w = v \o msgs /\ v \in Seq(LiveMsgs) /\ \A i \in 1..Len(v) : MsgFits(v[i])
  BY <1>1 DEF ToPhone, LiveInv, WireFits
<1>3. w \in Seq(LiveMsgs) /\ Len(w) = Len(v) + Len(msgs) /\ Len(v) \in Nat /\ Len(msgs) \in Nat
  BY <1>2
<1>4. ASSUME NEW i \in 1..Len(w)  PROVE MsgFits(w[i])
  <2>1. CASE i <= Len(v)
    <3>1. w[i] = v[i] /\ i \in 1..Len(v)
      BY <1>2, <1>3, <2>1
    <3>. QED  BY <1>2, <3>1
  <2>2. CASE i > Len(v)
    <3>1. w[i] = msgs[i - Len(v)] /\ i - Len(v) \in 1..Len(msgs)
      BY <1>2, <1>3, <2>2
    <3>. QED  BY <3>1
  <2>. QED  BY <1>3, <2>1, <2>2
<1>5. \A i \in 1..Len(w) : MsgFits(w[i])'
  BY <1>4, MsgStill
<1>. QED  BY <1>1, <1>3, <1>5 DEF WireFits

(* A piece applied to a row, from the start or where the row ends. *)
LEMMA ApplyFits ==
  ASSUME NEW t \in Text, NEW row, RowFits(row, t), NEW m \in LiveMsgs, PieceFits(m.offset, m.text, t)
  PROVE  RowFits(apply_piece(row, m), t)
<1>1. m.offset \in Nat /\ m.text \in Text /\ Len(m.text) \in Nat /\ row.text \in Text /\ Len(row.text) \in Nat
  BY DEF LiveMsgs, RowFits, RowType, Text
<1>2. Find(t, MetaOpen) \in Nat /\ Find(t, MetaOpen) <= Len(t) /\ Len(t) \in Nat
  BY FindOpen DEF Text
<1>3. CASE m.offset = 0
  <2>1. apply_piece(row, m) = [text |-> m.text, frozen |-> FALSE]
    BY <1>3 DEF apply_piece
  <2>2. m.text = SubSeq(t, 1, Len(m.text)) /\ Len(m.text) <= Find(t, MetaOpen)
    <3>1. 0 + 1 = 1 /\ 0 + Len(m.text) = Len(m.text)
      BY <1>1
    <3>. QED  BY <1>3, <3>1 DEF PieceFits
  <2>3. [text |-> m.text, frozen |-> FALSE] \in RowType
    BY <1>1 DEF RowType
  <2>. QED  BY <2>1, <2>2, <2>3 DEF RowFits
<1>4. CASE m.offset # 0 /\ (row.frozen \/ m.offset # Len(row.text))
  <2>1. apply_piece(row, m) = [row EXCEPT !.frozen = TRUE]
    BY <1>4 DEF apply_piece
  <2>2. [row EXCEPT !.frozen = TRUE] \in RowType /\ [row EXCEPT !.frozen = TRUE].text = row.text
    BY DEF RowFits, RowType
  <2>. QED  BY <2>1, <2>2 DEF RowFits
<1>5. CASE m.offset # 0 /\ ~ row.frozen /\ m.offset = Len(row.text)
  <2>1. PICK a \in Nat, b \in Nat : a = Len(row.text) /\ b = a + Len(m.text)
    BY <1>1
  <2>2. a <= b /\ b <= Find(t, MetaOpen) /\ b <= Len(t)
    <3>1. PICK f \in Nat : f = Find(t, MetaOpen) /\ f <= Len(t)
      BY <1>2
    <3>2. a + Len(m.text) <= f
      BY <1>5, <2>1, <3>1 DEF PieceFits
    <3>3. PICK l \in Nat : l = Len(m.text)
      BY <1>1
    <3>4. b = a + l
      BY <2>1, <3>3
    <3>5. b <= f
      BY <3>2, <3>3, <3>4
    <3>6. a <= b
      BY <3>4
    <3>7. b <= Len(t)
      BY <1>2, <3>1, <3>5
    <3>. QED  BY <3>1, <3>5, <3>6, <3>7
  <2>3. row.text = SubSeq(t, 0 + 1, a) /\ m.text = SubSeq(t, a + 1, b)
    <3>1. row.text = SubSeq(t, 1, a)
      BY <2>1 DEF RowFits
    <3>2. m.text = SubSeq(t, a + 1, a + Len(m.text))
      BY <1>5, <2>1 DEF PieceFits
    <3>3. 0 + 1 = 1
      OBVIOUS
    <3>. QED  BY <2>1, <3>1, <3>2, <3>3
  <2>4. row.text \o m.text = SubSeq(t, 0 + 1, b)
    <3>1. 0 \in Nat /\ 0 <= a
      OBVIOUS
    <3>2. SubSeq(t, 0 + 1, a) \o SubSeq(t, a + 1, b) = SubSeq(t, 0 + 1, b)
      BY <2>2, <3>1, Joins
    <3>. QED  BY <2>3, <3>2, Zenon
  <2>5. row.text \o m.text \in Text /\ Len(row.text \o m.text) = b
    BY <1>1, <2>1 DEF Text
  <2>6. apply_piece(row, m) = [row EXCEPT !.text = row.text \o m.text]
    BY <1>5 DEF apply_piece
  <2>7. PICK new : new = [row EXCEPT !.text = row.text \o m.text]
    OBVIOUS
  <2>8. new \in RowType /\ new.text = row.text \o m.text
    BY <2>5, <2>7 DEF RowFits, RowType
  <2>9. 0 + 1 = 1
    OBVIOUS
  <2>. QED  BY <2>2, <2>4, <2>5, <2>6, <2>7, <2>8, <2>9 DEF RowFits
<1>. QED  BY <1>3, <1>4, <1>5

(* What a step that leaves the phone alone keeps. *)
LEMMA BridgeKeeps ==
  ASSUME LiveInv, UNCHANGED <<liveScene, late, rows, completed, seen>>, idle' = idle \/ idle' = TRUE,
         written' \in [LiveKeys -> Nat], DOMAIN parts' \subseteq LiveKeys,
         \A k \in DOMAIN parts' : PartFits(parts'[k], liveScene.reply[k]), WireFits'
  PROVE  LiveInv'
<1>1. \A m \in late : MsgFits(m)'
  BY MsgStill DEF LiveInv
<1>. QED  BY <1>1 DEF LiveInv, LiveKeys

(* A piece from the driver, taken by the bridge or lost before it. *)
LEMMA OnPartialKeeps ==
  ASSUME LiveInv, NEW key \in LiveKeys, NEW n \in 1..2, OnPartial(key, n)
  PROVE  LiveInv'
<1>1. PICK t : t = liveScene.reply[key]
  OBVIOUS
<1>2. t \in Text /\ key \in LiveNames
  BY <1>1, Replies
<1>3. PICK at \in Nat : at = written[key]
  BY DEF LiveInv
<1>4. PICK part : part = IF key \in DOMAIN parts THEN parts[key] ELSE LivePart
  OBVIOUS
<1>5. PartFits(part, t)
  <2>1. CASE key \in DOMAIN parts
    BY <1>1, <1>4, <2>1 DEF LiveInv
  <2>2. CASE key \notin DOMAIN parts
    <3>1. part = LivePart
      BY <1>4, <2>2
    <3>2. LivePart \in LivePartType
      BY DEF LivePart, LivePartType, Text
    <3>3. SubSeq(t, 1, 0) = <<>> /\ 0 + 1 = 1 /\ Len(t) \in Nat
      BY <1>2 DEF Text
    <3>4. LivePart.sent = 0 /\ LivePart.expected = 0 /\ LivePart.kept = <<>> /\ LivePart.held = <<>>
      BY DEF LivePart
    <3>. QED  BY <1>2, <3>1, <3>2, <3>3, <3>4, FindOpen DEF PartFits
  <2>. QED  BY <2>1, <2>2
<1>6. PICK taken : taken = admit(part, at, SubSeq(t, at + 1, at + n))
  OBVIOUS
<1>7. /\ at + n <= Len(t) /\ written' = [written EXCEPT ![key] = @ + n]
      /\ parts' = [k \in DOMAIN parts \cup {key} |-> IF k = key THEN taken.part ELSE parts[k]]
      /\ ToPhone(IF taken.out = <<>> THEN <<>> ELSE <<PartialMsg(key, part.sent, taken.out)>>)
      /\ UNCHANGED <<liveScene, entered, idle, late, rows, completed, seen>>
  BY <1>1, <1>3, <1>4, <1>6 DEF OnPartial
<1>8. /\ PartFits(taken.part, t)
      /\ taken.out \in Text /\ part.sent + Len(taken.out) <= Find(t, MetaOpen)
      /\ taken.out = SubSeq(t, part.sent + 1, part.sent + Len(taken.out))
  <2>1. n \in Nat /\ at + n <= Len(t)
    BY <1>7
  <2>. QED  BY <1>2, <1>5, <1>6, <2>1, AdmitFits
<1>9. written' \in [LiveKeys -> Nat] /\ DOMAIN parts' \subseteq LiveKeys /\ \A k \in DOMAIN parts' : PartFits(parts'[k], liveScene.reply[k])
  BY <1>1, <1>7, <1>8 DEF LiveInv
<1>10. PICK msgs : msgs = IF taken.out = <<>> THEN <<>> ELSE <<PartialMsg(key, part.sent, taken.out)>>
  OBVIOUS
<1>11. msgs \in Seq(LiveMsgs) /\ \A i \in 1..Len(msgs) : MsgFits(msgs[i])
  <2>1. part.sent \in Nat
    BY <1>5 DEF PartFits, LivePartType
  <2>2. PICK m : m = PartialMsg(key, part.sent, taken.out)
    OBVIOUS
  <2>3. m \in LiveMsgs /\ m.kind = "partial" /\ m.key = key /\ m.offset = part.sent /\ m.text = taken.out
    BY <1>2, <1>8, <2>1, <2>2 DEF LiveMsgs, PartialMsg
  <2>4. MsgFits(m)
    BY <1>1, <1>8, <2>3 DEF MsgFits, PieceFits
  <2>. QED  BY <1>10, <2>2, <2>3, <2>4
<1>12. WireFits'
  BY <1>7, <1>10, <1>11, WireGrows
<1>. QED  BY <1>7, <1>9, <1>12, BridgeKeeps

(* The entry that completes a part. *)
LEMMA OnEntriesKeeps ==
  ASSUME LiveInv, NEW key \in LiveKeys, PieceLost(key) \/ OnEntries(key)
  PROVE  LiveInv'
<1>1. CASE PieceLost(key)
  <2>1. written' \in [LiveKeys -> Nat] /\ UNCHANGED <<liveScene, parts, idle, wire, late, rows, completed, seen>>
    BY <1>1 DEF PieceLost, LiveInv
  <2>2. WireFits'
    BY <2>1 DEF LiveInv, WireFits, MsgFits, LiveKeys
  <2>. QED  BY <2>1, <2>2, BridgeKeeps DEF LiveInv
<1>2. CASE OnEntries(key)
  <2>1. PICK msgs : msgs = IF strip_session_meta(liveScene.reply[key]) = <<>> THEN <<>> ELSE <<EntryMsg(key)>>
    OBVIOUS
  <2>2. ToPhone(msgs) /\ parts' = [k \in DOMAIN parts \ {key} |-> parts[k]] /\ UNCHANGED <<liveScene, written, idle, late, rows, completed, seen>>
    BY <1>2, <2>1 DEF OnEntries
  <2>3. msgs \in Seq(LiveMsgs) /\ \A i \in 1..Len(msgs) : MsgFits(msgs[i])
    <3>1. PICK m : m = EntryMsg(key)
      OBVIOUS
    <3>2. <<>> \in Text /\ key \in LiveNames
      BY Replies DEF Text
    <3>3. m \in LiveMsgs /\ m.kind = "entry"
      BY <3>1, <3>2 DEF LiveMsgs, EntryMsg
    <3>4. MsgFits(m)
      BY <3>3 DEF MsgFits
    <3>. QED  BY <2>1, <3>1, <3>3, <3>4
  <2>4. WireFits'
    BY <2>2, <2>3, WireGrows
  <2>5. written' \in [LiveKeys -> Nat] /\ DOMAIN parts' \subseteq LiveKeys /\ \A k \in DOMAIN parts' : PartFits(parts'[k], liveScene.reply[k])
    BY <2>2 DEF LiveInv
  <2>. QED  BY <2>2, <2>4, <2>5, BridgeKeeps
<1>. QED  BY <1>1, <1>2

(* The end of the turn, told by its last entry or by a list. *)
LEMMA OnTurnKeeps == LiveInv /\ (OnTurn \/ OnSessionsIdle) => LiveInv'
<1>. SUFFICES ASSUME LiveInv, OnTurn \/ OnSessionsIdle  PROVE LiveInv'
  OBVIOUS
<1>1. /\ wire' = wire \o <<TurnMsg>> /\ idle' = TRUE /\ UNCHANGED <<liveScene, written, late, rows, completed, seen>>
      /\ parts' = parts \/ parts' = << >>
  BY DEF OnTurn, OnSessionsIdle, ToPhone, LiveInv
<1>2. WireFits'
  <2>1. PICK v, w : v = wire /\ w = wire'
    OBVIOUS
  <2>2. PICK m : m = TurnMsg
    OBVIOUS
  <2>3. m \in LiveMsgs /\ m.kind = "turn"
    BY <2>2 DEF LiveMsgs, TurnMsg, LiveNames, Text
  <2>4. v \in Seq(LiveMsgs) /\ (\A i \in 1..Len(v) : MsgFits(v[i])') /\ MsgFits(m)'
    BY <1>1, <2>1, <2>3, MsgStill DEF LiveInv, WireFits, MsgFits
  <2>5. w = v \o <<m>>
    BY <1>1, <2>1, <2>2
  <2>6. w \in Seq(LiveMsgs) /\ Len(w) = Len(v) + 1 /\ w[Len(v) + 1] = m /\ \A i \in 1..Len(v) : w[i] = v[i]
    BY <2>3, <2>4, <2>5
  <2>7. Len(v) \in Nat /\ \A i \in 1..(Len(v) + 1) : i \in 1..Len(v) \/ i = Len(v) + 1
    BY <2>4
  <2>8. \A i \in 1..Len(w) : MsgFits(w[i])'
    BY <2>4, <2>6, <2>7
  <2>. QED  BY <2>1, <2>6, <2>8 DEF WireFits
<1>3. DOMAIN parts' \subseteq LiveKeys /\ \A k \in DOMAIN parts' : PartFits(parts'[k], liveScene.reply[k])
  BY <1>1 DEF LiveInv
<1>. QED  BY <1>1, <1>2, <1>3, BridgeKeeps DEF LiveInv

(* catch_up_live_text: a part sent whole is the beginning of its text. *)
LEMMA CatchUpKeeps == LiveInv /\ catch_up_live_text => LiveInv'
<1>. SUFFICES ASSUME LiveInv, catch_up_live_text  PROVE LiveInv'
  OBVIOUS
<1>1. PICK whole : whole = {k \in DOMAIN parts : parts[k].whole /\ parts[k].kept # <<>>}
  OBVIOUS
<1>2. PICK keys \in [1..Cardinality(whole) -> whole] :
        ToPhone([i \in DOMAIN keys |-> PartialMsg(keys[i], 0, parts[keys[i]].kept)])
  BY <1>1 DEF catch_up_live_text
<1>3. UNCHANGED <<liveScene, written, parts, idle, late, rows, completed, seen>>
  BY DEF catch_up_live_text
<1>4. ASSUME NEW k \in whole  PROVE MsgFits(PartialMsg(k, 0, parts[k].kept))
  <2>1. PICK t : t = liveScene.reply[k]
    OBVIOUS
  <2>2. k \in LiveKeys /\ PartFits(parts[k], t) /\ t \in Text /\ k \in LiveNames /\ parts[k].whole
    BY <1>1, <2>1, Replies DEF LiveInv
  <2>3. PICK s \in Nat, text \in Text : s = parts[k].sent /\ text = parts[k].kept
    BY <2>2 DEF PartFits, LivePartType
  <2>4. text = SubSeq(t, 1, s) /\ s <= Find(t, MetaOpen) /\ s <= Len(t)
    <3>1. Find(t, MetaOpen) \in Nat /\ Find(t, MetaOpen) <= Len(t) /\ Len(t) \in Nat
      BY <2>2, FindOpen DEF Text
    <3>. QED  BY <2>2, <2>3, <3>1, SMTT(30), ZenonT(30) DEF PartFits
  <2>5. Len(text) = s
    BY <2>2, <2>4, Begins
  <2>6. PICK m : m = PartialMsg(k, 0, text)
    OBVIOUS
  <2>7. m \in LiveMsgs /\ m.kind = "partial" /\ m.key = k /\ m.offset = 0 /\ m.text = text
    BY <2>2, <2>6 DEF LiveMsgs, PartialMsg
  <2>8. PieceFits(0, text, t)
    <3>1. 0 + 1 = 1 /\ 0 + Len(text) = s
      BY <2>5
    <3>. QED  BY <2>4, <3>1 DEF PieceFits
  <2>. QED  BY <2>1, <2>2, <2>3, <2>6, <2>7, <2>8 DEF MsgFits
<1>5. PICK msgs : msgs = [i \in 1..Cardinality(whole) |-> PartialMsg(keys[i], 0, parts[keys[i]].kept)]
  OBVIOUS
<1>6. ToPhone(msgs)
  <2>1. DOMAIN keys = 1..Cardinality(whole)
    OBVIOUS
  <2>. QED  BY <1>2, <1>5, <2>1
<1>7. PICK n \in Nat : n = Cardinality(whole)
  <2>1. IsFiniteSet(LiveKeys) /\ whole \subseteq LiveKeys
    BY <1>1, LiveAssumption DEF LiveInv, LiveKeys
  <2>. QED  BY <2>1, FS_Subset, FS_CardinalityType
<1>8. msgs \in Seq(LiveMsgs) /\ \A i \in 1..Len(msgs) : MsgFits(msgs[i])
  <2>1. \A i \in 1..n : keys[i] \in whole /\ msgs[i] = PartialMsg(keys[i], 0, parts[keys[i]].kept)
    BY <1>5, <1>7
  <2>2. \A i \in 1..n : MsgFits(msgs[i]) /\ msgs[i] \in LiveMsgs
    BY <1>4, <2>1 DEF MsgFits
  <2>3. DOMAIN msgs = 1..n /\ msgs = [i \in 1..n |-> msgs[i]]
    BY <1>5, <1>7
  <2>4. msgs \in Seq(LiveMsgs) /\ Len(msgs) = n
    BY <2>2, <2>3
  <2>. QED  BY <2>2, <2>4
<1>9. WireFits'
  BY <1>3, <1>6, <1>8, WireGrows
<1>. QED  BY <1>3, <1>9, BridgeKeeps DEF LiveInv

(* A message taken by the phone: a piece grows a row, an entry takes its      *)
(* part's place, the turn's end clears the rows.                              *)
LEMMA TakeKeeps ==
  ASSUME LiveInv, NEW m, MsgFits(m), Take(m)
  PROVE  /\ DOMAIN rows' \subseteq LiveKeys /\ \A k \in DOMAIN rows' : RowFits(rows'[k], liveScene.reply[k])
         /\ ~ idle => seen' \subseteq completed' /\ DOMAIN rows' \cap completed' = {}
<1>1. CASE m.kind = "partial"
  <2>1. rows' = RowsWith(m) /\ UNCHANGED <<completed, seen>>
    BY <1>1 DEF Take
  <2>2. PICK key, t : key = m.key /\ t = liveScene.reply[key]
    OBVIOUS
  <2>3. key \in LiveKeys /\ m \in LiveMsgs /\ PieceFits(m.offset, m.text, t) /\ t \in Text
    BY <1>1, <2>2, Replies DEF MsgFits
  <2>4. CASE key \in completed
    BY <2>1, <2>2, <2>4 DEF RowsWith, LiveInv
  <2>5. CASE key \notin completed
    <3>1. PICK row : row = IF key \in DOMAIN rows THEN rows[key] ELSE Row
      OBVIOUS
    <3>2. RowFits(row, t)
      <4>1. CASE key \in DOMAIN rows
        BY <2>2, <3>1, <4>1 DEF LiveInv
      <4>2. CASE key \notin DOMAIN rows
        <5>1. row \in RowType /\ row.text = <<>> /\ Len(row.text) = 0
          BY <3>1, <4>2 DEF Row, RowType, Text
        <5>2. SubSeq(t, 1, 0) = <<>>
          BY <2>3 DEF Text
        <5>. QED  BY <2>3, <5>1, <5>2, FindOpen DEF RowFits
      <4>. QED  BY <4>1, <4>2
    <3>3. RowFits(apply_piece(row, m), t)
      BY <2>3, <3>2, ApplyFits
    <3>4. rows' = [k \in DOMAIN rows \cup {key} |-> IF k # key THEN rows[k] ELSE apply_piece(row, m)]
      BY <2>1, <2>2, <2>5, <3>1 DEF RowsWith
    <3>. QED  BY <2>1, <2>2, <2>3, <2>5, <3>3, <3>4, SMTT(30), ZenonT(30) DEF LiveInv
  <2>. QED  BY <2>4, <2>5
<1>2. CASE m.kind = "entry"
  BY <1>2 DEF Take, complete, LiveInv
<1>3. CASE m.kind = "turn"
  BY <1>3 DEF Take, end_turn, MsgFits
<1>. QED  BY <1>1, <1>2, <1>3 DEF MsgFits, LiveMsgs

(* A message arrives, arrives again, or is lost. *)
LEMMA PhoneKeeps == LiveInv /\ (LiveArrives \/ LiveAgain \/ LiveLost) => LiveInv'
<1>. SUFFICES ASSUME LiveInv, LiveArrives \/ LiveAgain \/ LiveLost  PROVE LiveInv'
  OBVIOUS
<1>1. UNCHANGED <<liveScene, written, parts, idle>>
  BY DEF LiveArrives, LiveAgain, LiveLost
<1>2. \A m : MsgFits(m) => MsgFits(m)'
  BY <1>1, MsgStill
<1>3. wire # <<>> => MsgFits(Head(wire)) /\ (wire' = Tail(wire) => WireFits')
  <2>. SUFFICES ASSUME wire # <<>>  PROVE MsgFits(Head(wire)) /\ (wire' = Tail(wire) => WireFits')
    OBVIOUS
  <2>1. PICK v : v = wire
    OBVIOUS
  <2>2. v \in Seq(LiveMsgs) /\ v # <<>> /\ \A i \in 1..Len(v) : MsgFits(v[i])
    BY <2>1 DEF LiveInv, WireFits
  <2>3. Len(v) \in Nat /\ Len(v) >= 1 /\ Head(v) = v[1] /\ 1 \in 1..Len(v)
    BY <2>2
  <2>4. PICK w : w = Tail(v)
    OBVIOUS
  <2>5. w \in Seq(LiveMsgs) /\ \A i \in 1..Len(w) : w[i] = v[i + 1] /\ i + 1 \in 1..Len(v)
    BY <2>2, <2>3, <2>4
  <2>6. \A i \in 1..Len(w) : MsgFits(w[i])'
    BY <1>2, <2>2, <2>5
  <2>. QED  BY <2>1, <2>2, <2>3, <2>4, <2>5, <2>6 DEF WireFits
<1>4. WireFits' /\ \A m \in late' : MsgFits(m)
  <2>1. CASE LiveAgain
    BY <1>1, <2>1 DEF LiveAgain, LiveInv, WireFits, MsgFits, LiveKeys
  <2>2. CASE LiveArrives \/ LiveLost
    BY <1>3, <2>2 DEF LiveArrives, LiveLost, LiveInv
  <2>. QED  BY <2>1, <2>2
<1>5. /\ DOMAIN rows' \subseteq LiveKeys /\ \A k \in DOMAIN rows' : RowFits(rows'[k], liveScene.reply[k])
      /\ ~ idle => seen' \subseteq completed' /\ DOMAIN rows' \cap completed' = {}
  <2>1. CASE LiveLost
    BY <2>1 DEF LiveLost, LiveInv
  <2>2. CASE LiveArrives
    <3>1. PICK m : m = Head(wire)
      OBVIOUS
    <3>2. MsgFits(m) /\ Take(m)
      BY <1>3, <2>2, <3>1 DEF LiveArrives
    <3>. QED  BY <3>2, TakeKeeps
  <2>3. CASE LiveAgain
    BY <2>3, TakeKeeps DEF LiveAgain, LiveInv
  <2>. QED  BY <2>1, <2>2, <2>3
<1>6. \A m \in late' : MsgFits(m)'
  <2>1. PICK l : l = late'
    OBVIOUS
  <2>2. \A m \in l : MsgFits(m)'
    BY <1>2, <1>4, <2>1
  <2>. QED  BY <2>1, <2>2
<1>. QED  BY <1>1, <1>4, <1>5, <1>6 DEF LiveInv, LiveKeys

(* Every step of LiveText keeps the invariant. *)
LEMMA LiveNextKeeps == LiveInv /\ [LiveNext]_liveVars => LiveInv'
<1>. SUFFICES ASSUME LiveInv, [LiveNext]_liveVars  PROVE LiveInv'
  OBVIOUS
<1>1. CASE UNCHANGED liveVars
  BY <1>1 DEF liveVars, LiveInv, LiveKeys, WireFits, MsgFits
<1>2. ASSUME NEW k \in LiveKeys, (\E n \in 1..2 : OnPartial(k, n)) \/ PieceLost(k) \/ OnEntries(k)  PROVE LiveInv'
  BY <1>2, OnPartialKeeps, OnEntriesKeeps
<1>3. CASE OnTurn \/ OnSessionsIdle
  BY <1>3, OnTurnKeeps
<1>4. CASE catch_up_live_text
  BY <1>4, CatchUpKeeps
<1>5. CASE LiveArrives \/ LiveAgain \/ LiveLost
  BY <1>5, PhoneKeeps
<1>. QED  BY <1>1, <1>2, <1>3, <1>4, <1>5 DEF LiveNext

(* A live row is the beginning of the text its entry will have, for any       *)
(* replies, however the driver cuts them into pieces and whatever becomes of  *)
(* the pieces on the way (LivePart::admit, LiveRow::apply).                   *)
THEOREM LiveRowsArePrefixes == LiveSpec => []LiveIsPrefix
<1>1. LiveInit => LiveInv
  <2>. SUFFICES ASSUME LiveInit  PROVE LiveInv
    OBVIOUS
  <2>1. WireFits
    BY DEF LiveInit, WireFits
  <2>2. liveScene \in LiveScenes /\ written \in [LiveKeys -> Nat] /\ idle = FALSE
    BY DEF LiveInit
  <2>3. parts = << >> /\ late = {} /\ rows = << >> /\ completed = {} /\ seen = {}
    BY DEF LiveInit
  <2>4. DOMAIN parts = {} /\ DOMAIN rows = {}
    BY <2>3
  <2>. QED  BY <2>1, <2>2, <2>3, <2>4 DEF LiveInv
<1>2. LiveInv /\ [LiveNext]_liveVars => LiveInv'
  BY LiveNextKeeps
<1>3. LiveInv => LiveIsPrefix
  <2>. SUFFICES ASSUME LiveInv, NEW k \in DOMAIN rows
                PROVE  /\ \E n \in 0..Len(strip_session_meta(liveScene.reply[k])) : rows[k].text = SubSeq(strip_session_meta(liveScene.reply[k]), 1, n)
                       /\ k \notin seen \/ idle
    BY DEF LiveIsPrefix
  <2>1. PICK t, row : t = liveScene.reply[k] /\ row = rows[k]
    OBVIOUS
  <2>2. t \in Text /\ RowFits(row, t)
    BY <2>1, Replies DEF LiveInv
  <2>3. PICK n \in Nat : n = Len(row.text)
    BY <2>2 DEF RowFits, RowType, Text
  <2>4. n \in 0..Len(strip_session_meta(t)) /\ SubSeq(strip_session_meta(t), 1, n) = SubSeq(t, 1, n)
    BY <2>2, <2>3, StripKeeps DEF RowFits
  <2>5. row.text = SubSeq(strip_session_meta(t), 1, n)
    BY <2>2, <2>3, <2>4 DEF RowFits
  <2>6. k \notin seen \/ idle
    BY DEF LiveInv
  <2>. QED  BY <2>1, <2>4, <2>5, <2>6
<1>. QED  BY <1>1, <1>2, <1>3, PTL DEF LiveSpec
=============================================================================
