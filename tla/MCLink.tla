------------------------------- MODULE MCLink -------------------------------
(***************************************************************************)
(* The transports for TLC: the phone's connection, the relay sockets, the  *)
(* direct link, the bridge's publish queue and listeners, and the chunking *)
(* of messages.  A behaviour plays one of them, in one of its scenes.      *)
(***************************************************************************)
EXTENDS PhoneLink, RelayPool, DirectLink, Publisher, Chunks, Listener

VARIABLE part

LinkScene(paired, may) == [paired |-> paired, may |-> may]

MCLinkScenes ==
  {LinkScene(TRUE, {"Start", "Stop", "Online", "Offline"}), LinkScene(TRUE, {"Start", "Pause", "Resume", "Keepalive", "quiet"}),
   LinkScene(FALSE, {"Start", "Online", "Offline", "Paired"}), LinkScene(TRUE, {"Start", "Stop", "link", "Offline"})}

MCOnly == [s \in Subs |-> Relays]
PoolScene(relays, may) == [relays |-> relays, lists |-> {}, may |-> may]

MCPoolScenes ==
  {PoolScene({"x", "y"}, {"connect", "fail", "publish"}), PoolScene({"x"}, {"connect", "auth", "publish"}),
   PoolScene({"x", "y"}, {"connect", "auth", "proxy"}), PoolScene({"x", "y"}, {"connect", "fail", "sleep", "retry"}),
   PoolScene({"x"}, {"connect", "slow", "probe"}), PoolScene({"x"}, {"connect", "close sub", "shutdown"}),
   [relays |-> {"x"}, lists |-> {{"x"}, {"y"}}, may |-> {"connect", "fail", "relays", "shutdown"}]}

MCDirectScenes == {{"events", "fail"}, {"events", "terminal"}, {"events", "unpair"}, {"publish", "fail"}}

Job(id, kind, to, key, from, len, parts) ==
  [kind |-> kind, to |-> to, key |-> key, from |-> from, len |-> len, parts |-> parts, ids |-> {id}]

\* The feeds: a session's pieces, outputs and a flush; a terminal's frames
\* between outputs; heartbeats to one phone and to both; a relay's rate limit.
MCPublishScenes ==
  LET p == <<"p">>
      pq == <<"p", "q">>
  IN {[feed |-> <<Job(1, "partial", p, "s", 0, 1, {"k"}), Job(2, "partial", p, "s", 1, 1, {"k"}), Job(3, "output", p, "t", 1, 1, {}),
                  Job(4, "output", p, "s", 1, 1, {"k"}), Job(5, "output", p, "s", 2, 1, {}), Job(6, "flush", <<>>, "", 0, 0, {})>>,
       direct |-> {}, may |-> {}],
      [feed |-> <<Job(1, "terminal", p, "a", 0, 1, {}), Job(2, "output", p, "s", 1, 1, {}), Job(3, "terminal", p, "a", 1, 2, {}),
                  Job(4, "terminal", p, "a", 3, 1, {}), Job(5, "other", p, "", 0, 0, {}), Job(6, "flush", <<>>, "", 0, 0, {})>>,
       direct |-> {"p"}, may |-> {}],
      [feed |-> <<Job(1, "sessions", pq, "", 0, 0, {}), Job(2, "sessions", p, "", 0, 0, {}), Job(3, "other", pq, "", 0, 0, {}),
                  Job(4, "sessions", pq, "", 0, 0, {})>>,
       direct |-> {"p"}, may |-> {}],
      [feed |-> <<Job(1, "sessions", p, "", 0, 0, {}), Job(2, "output", pq, "s", 1, 1, {})>>, direct |-> {"p"}, may |-> {"limit"}]}

\* A character by the bytes it takes, and by those it takes escaped.
Char(w1, e1) == [w |-> w1, e |-> e1]
PlainChar == Char(1, 1)
QuoteChar == Char(1, 2)
WideChar == Char(3, 3)

Sent(json) == [c \in {"c"} |-> json]
ChunkScene(sent, odd, n) == [sent |-> sent, odd |-> odd, offers |-> n]
MCLong == <<PlainChar, PlainChar, PlainChar, WideChar, QuoteChar, PlainChar>>
MCLong2 == <<WideChar, WideChar, PlainChar>>
MCOdd == {Fragment("c", 0, 9, <<PlainChar>>), Fragment("c", 3, 2, <<QuoteChar>>)}

\* Every message of up to five characters is framed; three are put together.
MCChunkScenes ==
  {ChunkScene(Sent(json), {}, 0) : json \in SeqOf({PlainChar, QuoteChar, WideChar}, 5)}
    \cup {ChunkScene([c \in {"c", "d", "e"} |-> IF c = "e" THEN <<PlainChar, QuoteChar>> ELSE MCLong], MCOdd, 5),
          ChunkScene([c \in {"c", "d", "e"} |-> IF c = "c" THEN MCLong ELSE MCLong2], {}, 5),
          ChunkScene(Sent(MCLong \o MCLong2), {}, 5)}

MCRequests ==
  {Request("POST", "/api/config", TRUE, TRUE, TRUE), Request("POST", "/api/sign-out", TRUE, TRUE, TRUE),
   Request("POST", "/api/browsers/sign-out", TRUE, FALSE, TRUE), Request("GET", "/api/status", TRUE, FALSE, FALSE)}

-----------------------------------------------------------------------------
Played == {"phone", "pool", "direct", "publisher", "chunks", "listener"}

MCInit ==
  /\ part \in Played
  /\ LinkInit /\ (part = "phone" \/ setting = CHOOSE s \in LinkScenes : TRUE)
  /\ PoolInit /\ (part = "pool" \/ scene = CHOOSE s \in PoolScenes : TRUE)
  /\ DirectInit /\ (part = "direct" \/ doing = CHOOSE s \in DirectScenes : TRUE)
  /\ PubInit /\ (part = "publisher" \/ play = CHOOSE s \in PublishScenes : TRUE)
  /\ ChunkInit /\ (part = "chunks" \/ chunkScene = CHOOSE s \in ChunkScenes : TRUE)
  /\ ListenInit

MCNext ==
  /\ UNCHANGED part
  /\ \/ part = "phone" /\ LinkNext /\ UNCHANGED <<poolVars, directVars, pubVars, chunkVars, listenVars>>
     \/ part = "pool" /\ PoolNext /\ UNCHANGED <<linkVars, directVars, pubVars, chunkVars, listenVars>>
     \/ part = "direct" /\ DirectNext /\ UNCHANGED <<linkVars, poolVars, pubVars, chunkVars, listenVars>>
     \/ part = "publisher" /\ PubNext /\ UNCHANGED <<linkVars, poolVars, directVars, chunkVars, listenVars>>
     \/ part = "chunks" /\ ChunkNext /\ UNCHANGED <<linkVars, poolVars, directVars, pubVars, listenVars>>
     \/ part = "listener" /\ ListenNext /\ UNCHANGED <<linkVars, poolVars, directVars, pubVars, chunkVars>>

MCSpec == MCInit /\ [][MCNext]_<<part, linkVars, poolVars, directVars, pubVars, chunkVars, listenVars>>
=============================================================================
