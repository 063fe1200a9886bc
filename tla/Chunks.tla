------------------------------- MODULE Chunks -------------------------------
(* Messages too large for one relay event.                                  *)
(*                                                                          *)
(* The bridge splits the encoded message into envelopes (protocol           *)
(* chunking.rs, frame_encoded_message); the phone's ChunkAssembler puts     *)
(* them together again inside BridgeApi::ingest (client-core bridge_api.rs).*)
(* Relays deliver the events of one message in any order, some of them      *)
(* twice and some of them never; a message sent again is split again under  *)
(* another id. A message is a sequence of characters, of which only the     *)
(* size in bytes (w) and the size once escaped inside an envelope (e) are   *)
(* kept.                                                                    *)
EXTENDS Integers, Sequences, FiniteSets, FiniteSetsExt, SequencesExt

CONSTANTS
    SafeBytes,      \* NIP44_SAFE_PLAINTEXT_BYTES
    Margin,         \* CHUNK_ENVELOPE_MARGIN
    Envelope,       \* the bytes of an envelope without its part
    MaxOpen,        \* DEFAULT_MAX_OPEN
    MaxBytes,       \* DEFAULT_MAX_BYTES
    AssemblyTtl,    \* CHUNK_ASSEMBLY_TTL_MS, in ticks
    InvalidCap,     \* INVALID_RECORDS_CAP
    ChunkScenes     \* [sent: messages by fragment id, odd: other envelopes,
                    \*  offers: bound on the events the phone reads]

VARIABLES
    chunkScene,     \* the scene
    chunkFrames,         \* the events of each message, by fragment id
    api,            \* BridgeApi: [open, total, invalid, failures]
    assembled,      \* history: every message handed to the decoder
    offers, tickNow

chunkVars == <<chunkScene, chunkFrames, api, assembled, offers, tickNow>>

----------------------------------------------------------------------------
(* Splitting a message: frame_encoded_message. *)

Bytes(s) == FoldLeft(LAMBDA sum, c : sum + c.w, 0, s)
Escaped(s) == FoldLeft(LAMBDA sum, c : sum + c.e, 0, s)

\* The byte offsets of json that is_char_boundary accepts, and the
\* characters between two of them.
Boundaries(json) == { Bytes(SubSeq(json, 1, k)) : k \in 0..Len(json) }
Slice(json, from, to) ==
    LET at(p) == CHOOSE k \in 0..Len(json) : Bytes(SubSeq(json, 1, k)) = p
    IN  SubSeq(json, at(from) + 1, at(to))

\* A chunk envelope as the relays carry it, and any other plaintext.
Fragment(cid, i, n, part) == [cid |-> cid, i |-> i, n |-> n, part |-> part]
Whole(json) == Fragment("", 0, 0, json)
\* Mutant: the slice is sized by its own bytes, not by the escaped envelope's.
EnvelopeUnescaped(part) == Envelope + Bytes(part)

EnvelopeSize(part) == Envelope + Escaped(part)

\* The binary search: the longest slice from pos whose envelope is in budget.
RECURSIVE Longest(_, _, _, _, _)
Longest(json, pos, lo, hi, best) ==
    LET mid  == (lo + hi) \div 2
        end  == Max({ p \in Boundaries(json) : pos <= p /\ p <= pos + mid })
        take == end - pos
    IN  CASE lo > hi -> best
          [] take = 0 -> Longest(json, pos, mid + 1, hi, best)
          [] take # 0 /\ EnvelopeSize(Slice(json, pos, end)) <= SafeBytes - Margin
                -> Longest(json, pos, mid + 1, hi, take)
          [] OTHER -> Longest(json, pos, lo, mid - 1, best)

RECURSIVE PartsFrom(_, _)
PartsFrom(json, pos) ==
    IF pos >= Bytes(json) THEN <<>>
    ELSE LET best == Longest(json, pos, 1, Bytes(json) - pos, 0)
         IN  <<Slice(json, pos, pos + best)>> \o PartsFrom(json, pos + best)

frame_encoded_message(json, cid) ==
    IF Bytes(json) <= SafeBytes THEN <<Whole(json)>>
    ELSE LET parts == PartsFrom(json, 0)
         IN  [k \in 1..Len(parts) |-> Fragment(cid, k - 1, Len(parts), parts[k])]

----------------------------------------------------------------------------
(* The assembler: a record api with the open groups by cid. *)

DropGroup(a, cid) ==
    IF cid \notin DOMAIN a.open THEN a
    ELSE [a EXCEPT !.open = Restrict(a.open, DOMAIN a.open \ {cid}),
                   !.total = @ - a.open[cid].bytes]

sweep(a, now) ==
    FoldSet(LAMBDA cid, b : DropGroup(b, cid), a,
            { cid \in DOMAIN a.open : now - a.open[cid].first >= AssemblyTtl })

\* The oldest group but one; of groups of one age the hash map's order
\* decides, so the result is a set.
Oldest(a, except) ==
    { cid \in DOMAIN a.open \ except :
        \A c \in DOMAIN a.open \ except : a.open[cid].first <= a.open[c].first }
evict_oldest(a, except) ==
    IF Oldest(a, except) = {} THEN {a}
    ELSE { DropGroup(a, cid) : cid \in Oldest(a, except) }

\* The group of the envelope, opened when there is none.
OpenGroup(a, env, now) ==
    LET b == IF env.cid \in DOMAIN a.open /\ a.open[env.cid].n # env.n
             THEN DropGroup(a, env.cid) ELSE a
        room == IF Cardinality(DOMAIN b.open) >= MaxOpen
                THEN evict_oldest(b, {}) ELSE {b}
        new == [n |-> env.n, parts |-> <<>>, bytes |-> 0, first |-> now]
    IN  IF env.cid \in DOMAIN b.open THEN {b}
        ELSE { [r EXCEPT !.open =
                  [c \in DOMAIN @ \cup {env.cid} |-> IF c = env.cid THEN new ELSE @[c]]]
               : r \in room }

Parts(a, cid) == a.open[cid].parts

\* The fragment is kept once; a second copy changes nothing.
Fill(a, env) ==
    IF env.i \in DOMAIN Parts(a, env.cid) THEN a
    ELSE [a EXCEPT !.open[env.cid].parts =
                       [i \in DOMAIN @ \cup {env.i} |-> IF i = env.i THEN env.part ELSE @[i]],
                   !.open[env.cid].bytes = @ + Bytes(env.part),
                   !.total = @ + Bytes(env.part)]

RECURSIVE WithinBytes(_, _)
WithinBytes(a, cid) ==
    IF a.total > MaxBytes /\ Cardinality(DOMAIN a.open) > 1
    THEN UNION { WithinBytes(b, cid) : b \in evict_oldest(a, {cid}) }
    ELSE {a}

\* The fragments of a complete group in index order.
Joined(parts) ==
    LET order == SetToSortSeq(DOMAIN parts, LAMBDA i, j : i < j)
    IN  FlattenSeq([k \in DOMAIN order |-> parts[order[k]]])

\* What offer returns: the assembler and the verdict.
Verdict(a, env) ==
    LET g == a.open[env.cid] IN
    CASE g.bytes > MaxBytes -> [api |-> DropGroup(a, env.cid), out |-> "invalid", json |-> <<>>]
      [] g.bytes <= MaxBytes /\ Cardinality(DOMAIN g.parts) < g.n
            -> [api |-> a, out |-> "buffered", json |-> <<>>]
      [] OTHER -> [api |-> DropGroup(a, env.cid), out |-> "message", json |-> Joined(g.parts)]

\* A plaintext that is no envelope passes through; an index out of range is
\* refused before any group is touched.
offer(a0, env, now) ==
    LET a == sweep(a0, now) IN
    CASE env.n < 2 \/ env.cid = "" -> { [api |-> a, out |-> "message", json |-> env.part] }
      [] env.n >= 2 /\ env.cid # "" /\ env.i >= env.n
            -> { [api |-> a, out |-> "invalid", json |-> <<>>] }
      [] OTHER -> { Verdict(c, env) : c \in UNION { WithinBytes(Fill(b, env), env.cid) :
                                                     b \in OpenGroup(a, env, now) } }

----------------------------------------------------------------------------
(* BridgeApi::ingest around it. *)

record_invalid(a, stage) ==
    [a EXCEPT !.invalid = LET r == Append(@, stage)
                          IN  IF Len(r) > InvalidCap THEN Tail(r) ELSE r,
              !.failures[stage] = @ + 1]

decrypt_failed(a) == record_invalid(a, "decrypt")

\* The decoder is given every message that is whole.
ingest_plaintext(r) ==
    /\ api' = IF r.out = "invalid" THEN record_invalid(r.api, "decode") ELSE r.api
    /\ assembled' = IF r.out = "message" THEN assembled \cup {r.json} ELSE assembled

\* The plaintexts of the events the relays hold.
OnRelays == chunkScene.odd \cup UNION { ToSet(chunkFrames[c]) : c \in DOMAIN chunkFrames }

\* One event of the relays: its author may no longer be paired, or its
\* content not decrypt, and then nothing of the assembler changes.
ChunkIngest ==
    /\ offers < chunkScene.offers
    /\ offers' = offers + 1
    /\ \/ UNCHANGED <<api, assembled>>
       \/ api' = decrypt_failed(api) /\ UNCHANGED assembled
       \/ \E env \in OnRelays : \E r \in offer(api, env, tickNow) : ingest_plaintext(r)
    /\ UNCHANGED <<chunkScene, chunkFrames, tickNow>>

ChunkTick ==
    /\ tickNow < AssemblyTtl
    /\ tickNow' = tickNow + 1
    /\ UNCHANGED <<chunkScene, chunkFrames, api, assembled, offers>>

ChunkInit ==
    /\ chunkScene \in ChunkScenes
    /\ chunkFrames = [c \in DOMAIN chunkScene.sent |-> frame_encoded_message(chunkScene.sent[c], c)]
    /\ api = [open |-> <<>>, total |-> 0, invalid |-> <<>>,
              failures |-> [s \in {"decrypt", "decode"} |-> 0]]
    /\ assembled = {}
    /\ offers = 0
    /\ tickNow = 0

ChunkNext == ChunkIngest \/ ChunkTick

ChunkSpec == ChunkInit /\ [][ChunkNext]_chunkVars

----------------------------------------------------------------------------

\* However a message's characters are escaped and however wide they are, its
\* fragments put together in order are the message, and every event that
\* carries one stays within what a relay takes.
FramesFit ==
    \A c \in DOMAIN chunkScene.sent :
        LET f == chunkFrames[c]
        IN  /\ FlattenSeq([k \in DOMAIN f |-> f[k].part]) = chunkScene.sent[c]
            /\ \A k \in DOMAIN f :
                 f[k].cid = c => f[k].part # <<>> /\ Envelope + Escaped(f[k].part) <= SafeBytes

\* The decoder is handed whole messages only, never a part of one or parts of
\* two, whatever the order of the fragments, their copies, the evictions, the
\* sweeps and the envelopes that belong to no message.
WholeOnly == assembled \subseteq { chunkScene.sent[c] : c \in DOMAIN chunkScene.sent }

\* What the assembler holds is counted to the byte and stays within both caps,
\* and no complete group is left waiting.
AssemblerExact ==
    /\ api.total = MapThenSumSet(LAMBDA c : api.open[c].bytes, DOMAIN api.open)
    /\ api.total <= MaxBytes
    /\ Cardinality(DOMAIN api.open) <= MaxOpen
    /\ \A c \in DOMAIN api.open :
         /\ Cardinality(DOMAIN Parts(api, c)) < api.open[c].n
         /\ api.open[c].bytes =
              MapThenSumSet(LAMBDA i : Bytes(Parts(api, c)[i]), DOMAIN Parts(api, c))

\* Chunked messages: the frames fit, whole messages come out of the assembler,
\* and it counts what it holds.
ChunksSound == FramesFit /\ WholeOnly /\ AssemblerExact
============================================================================
