------------------------------- MODULE MCAccess -------------------------------
(***************************************************************************)
(* How devices come to be trusted and what they hand over, for TLC: the    *)
(* pairing and its link, the session keys, the backup of the machines, the *)
(* browsers signed in, the files sent, and the commands a bridge takes.    *)
(* A behaviour plays one of them, in one of its scenes.                    *)
(***************************************************************************)
EXTENDS SessionKeys, Pairing, Backup, Web, Uploads, Ingest

CONSTANTS MaxTexts, MaxText   \* bounds: texts in a link, and their characters

VARIABLES part,
          texts               \* the texts a link is made of

KeyScene(confirmed, until, n, may) ==
  [confirmed |-> confirmed, old |-> FALSE, until |-> until, commands |-> n, may |-> may]

MCKeyScenes ==
  {KeyScene(FALSE, 2, 2, {"input", "refresh", "signer fails", "beat"}), KeyScene(FALSE, 2, 1, {"live", "lose", "beat"}),
   KeyScene(TRUE, 5, 1, {"input", "beat"}), KeyScene(TRUE, 4, 1, {"input", "beat", "restart"}),
   KeyScene(TRUE, 2, 1, {"others", "input", "beat"}), KeyScene(FALSE, 2, 1, {"input", "crash"}), KeyScene(TRUE, 4, 1, {"input", "beat", "crash"})}
    \cup {[KeyScene(TRUE, 2, 2, {"presence", "watching", "away", "card", "live", "bridge restarts"}) EXCEPT !.old = o] : o \in BOOLEAN}

PairScene(phones, bridges, n, may) == [phones |-> phones, bridges |-> bridges, windows |-> n, may |-> may]

MCPairScenes ==
  {PairScene({"p"}, {"b", "c"}, 1, {}), PairScene({"p", "q"}, {"b"}, 1, {}), PairScene({"p"}, {"b"}, 2, {}), PairScene({"p"}, {"b"}, 1, {"stage", "reset"}),
   PairScene({"p"}, {"b"}, 1, {"remove", "restart", "unpair"})}

\* A text more, or a character more: a relay is complete before the next begins.
Type ==
  \/ /\ Len(Last(texts)) < MaxText
     /\ \E c \in Unreserved \cup DOMAIN Hex : texts' = [texts EXCEPT ![Len(texts)] = Append(@, c)]
  \/ Len(texts) < MaxTexts /\ is_relay_url(Last(texts)) /\ texts' = Append(texts, <<>>)

Two(a, c) == [d \in Devices |-> IF d = "A" THEN a ELSE c]
All(v) == [i \in Items |-> v]
Ahead1(a, c, n, may) ==
  [have |-> Two(All(1), All(1)), relay |-> Two("x", Nowhere), ahead |-> Two(a, c), edits |-> n, may |-> may]

MCBackupScenes ==
  {[Ahead1(0, 1, 3, {"remove"}) EXCEPT !.have = Two(All(1), All(2))], Ahead1(0, 1, 3, {}), Ahead1(1, 0, 2, {"stop"}), Ahead1(1, 0, 1, {"delete"}),
   Ahead1(1, 0, 1, {"off"}), Ahead1(1, 0, 1, {"move"}), Ahead1(1, 0, 1, {"unreadable"}), Ahead1(1, 0, 1, {"now"}), Ahead1(0, 1, 1, {"closed"}),
   Ahead1(1, 0, 1, {"crash", "fail"}), Ahead1(0, 1, 2, {"race", "still"}), Ahead1(1, 0, 2, {"crash", "still"}),
   Ahead1(1, 0, 2, {"fail", "still"})}

MCWebMay == {{"crash"}, {"end", "list"}}

UploadScene(ids, n, server, may) == [sends |-> ids, size |-> n, server |-> server, may |-> may]

MCUploadScenes ==
  {UploadScene({1, 2}, 4, FALSE, {}), UploadScene({1}, 9, FALSE, {}), UploadScene({1}, 6, TRUE, {"server", "relay"}),
   UploadScene({1, 2}, 3, TRUE, {"relay"}), UploadScene({1}, 3, TRUE, {"disk", "session", "server"}),
   UploadScene({1}, 6, FALSE, {"relay", "restart"}), UploadScene({1}, 15, TRUE, {"server"}), UploadScene({1}, 16, TRUE, {}),
   UploadScene({1}, 4, FALSE, {"slow"})}

-------------------------------------------------------------------------------
Played == {"keys", "pairing", "link", "backup", "web", "uploads", "ingest"}

\* The scene of a part that is not played.
KeyIdle == CHOOSE s \in KeyScenes : TRUE
BackupIdle == CHOOSE s \in BackupScenes : TRUE
UploadIdle == CHOOSE s \in UploadScenes : TRUE

MCInit ==
  /\ part \in Played
  /\ KeyInit /\ (part = "keys" \/ keyScene = KeyIdle)
  /\ PairInit /\ (part = "pairing" \/ pairScene = CHOOSE s \in PairScenes : TRUE)
  /\ texts = << <<>> >>
  /\ BackupInit /\ (part = "backup" \/ backupScene = BackupIdle)
  /\ WebInit /\ (part = "web" \/ webMay = CHOOSE s \in WebMay : TRUE)
  /\ UploadInit /\ (part = "uploads" \/ upScene = UploadIdle)
  /\ IngestInit

MCNext ==
  /\ UNCHANGED part
  /\ \/ part = "keys" /\ KeyNext /\ UNCHANGED <<pairVars, texts, backupVars, webVars, upVars, ingestVars>>
     \/ part = "pairing" /\ PairNext /\ UNCHANGED <<keyVars, texts, backupVars, webVars, upVars, ingestVars>>
     \/ part = "link" /\ Type /\ UNCHANGED <<keyVars, pairVars, backupVars, webVars, upVars, ingestVars>>
     \/ part = "backup" /\ BackupNext /\ UNCHANGED <<keyVars, pairVars, texts, webVars, upVars, ingestVars>>
     \/ part = "web" /\ WebNext /\ UNCHANGED <<keyVars, pairVars, texts, backupVars, upVars, ingestVars>>
     \/ part = "uploads" /\ UploadNext /\ UNCHANGED <<keyVars, pairVars, texts, backupVars, webVars, ingestVars>>
     \/ part = "ingest" /\ IngestNext /\ UNCHANGED <<keyVars, pairVars, texts, backupVars, webVars, upVars>>

MCSpec == MCInit /\ [][MCNext]_<<part, keyVars, pairVars, texts, backupVars, webVars, upVars, ingestVars>>

-------------------------------------------------------------------------------
\* What a bridge puts into its pairing link is what the phone reads out of it,
\* whatever characters the relays, the machine's name and the token have
\* (pairing_url, parse_pairing_url); and different relays without a comma, typed by
\* hand, are read as they were typed (parse_manual_pair).
UrlRoundTrips ==
  LET t == Last(texts)
      link == PairingParts(<<"a">>, texts, t, t)
      typed == PairingParts(<<"a">>, texts, <<"(manual)">>, t)
  IN  (\A r \in ToSet(texts) : is_relay_url(r)) =>
        /\ parse_pairing_url(pairing_url(link)) = link
        /\ IsInjective(texts) /\ (\A r \in ToSet(texts) : "," \notin ToSet(r))
             => parse_manual_pair(<<"a">>, t, JoinWith(texts, ",")) = typed

\* Pairing: what the link says is what the phone reads, a token pairs one phone,
\* and an ack is taken only by the phone that awaits it.
PairingSound == PairSound /\ UrlRoundTrips
===============================================================================
