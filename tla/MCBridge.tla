------------------------------- MODULE MCBridge -------------------------------
(* A machine's settings and the files of its bridge for TLC: the answers to   *)
(* changes, the provider profiles, the credentials, the options of a session, *)
(* the config file, the bridge's home, the terminal allowlist, the audit log  *)
(* and the transcript of a session.  They share no state, so a behaviour      *)
(* plays one.  "functions" applies the range functions to every list of up to *)
(* MaxRanges ranges (empty, overlapping, adjacent and unsorted ones too) on   *)
(* the seqs 0..MaxSeq, and the cut of a sync answer to every transcript of    *)
(* MaxSeq seqs.                                                               *)
EXTENDS Answers, Profiles, Options, BridgeConfig, BridgeShell, TerminalAllow, AuditLog,
        BridgeTranscript, Ranges

CONSTANTS
  MaxRanges,  \* bound: the longest list of ranges
  Sizes       \* the chunk sizes tried

VARIABLES
  part,       \* what this behaviour plays
  have        \* the list of ranges

AnswerScene(changes, hostStops) == [changes |-> changes, hostStops |-> hostStops]

MCAnswerScenes ==
  {AnswerScene({Change("plugin", "install", {"x"}, TRUE), Change("plugin", "remove", {"x"}, TRUE), Read("plugin")}, TRUE),
   AnswerScene({Change("agent", "install", {"a"}, FALSE), Change("agent", "remove", {"a"}, TRUE)}, TRUE),
   AnswerScene({Change("mcp", "add", {"x", "y"}, FALSE), Change("mcp", "remove", {"x"}, FALSE), Read("mcp")}, FALSE),
   AnswerScene({Change("account", "sign in", {"x"}, FALSE), Change("account", "remove", {"x"}, FALSE), Read("account")}, TRUE),
   AnswerScene({Change("session", "toggle", {"x"}, FALSE), Read("session")}, FALSE),
   AnswerScene({Read("models"), Read("commands"), Read("personas")}, TRUE),
   AnswerScene({Change("rules", "remove", {"x", "y"}, FALSE), Change("rules", "remove", {"x"}, FALSE), Read("rules")}, FALSE)}

ProfileWrite(kind, for, token) == [id |-> "p", kind |-> kind, agent |-> for, token |-> token]
ProfileScene(writes, mayFail, hostStops, phone) == [writes |-> writes, disk |-> mayFail, hostStops |-> hostStops, phone |-> phone]

MCProfileScenes ==
  {ProfileScene({ProfileWrite("upsert", "A", TRUE), ProfileWrite("from provider", "A", TRUE), ProfileWrite("delete", "A", TRUE)}, FALSE, TRUE, FALSE),
   ProfileScene({ProfileWrite("upsert", "A", TRUE), ProfileWrite("upsert", "B", TRUE), ProfileWrite("bad", "B", TRUE)}, TRUE, FALSE, FALSE),
   ProfileScene({ProfileWrite("upsert", "A", TRUE), ProfileWrite("upsert", "C", FALSE), ProfileWrite("delete", "A", TRUE)}, FALSE, FALSE, TRUE)}

OptionScene(o, p, n, w, d, h, beat) ==
  [options |-> o, present |-> p, sets |-> n, own |-> w, deaths |-> d, heads |-> h, beats |-> beat]

MCOptionScenes ==
  {OptionScene({"mode"}, FALSE, 2, 1, 1, 1, 0), OptionScene({"mode"}, TRUE, 1, 1, 0, 1, 0),
   OptionScene({"model", "mode"}, FALSE, 2, 0, 0, 0, 0), OptionScene({"model"}, TRUE, 1, 0, 1, 1, 1), OptionScene({}, TRUE, 0, 0, 1, 2, 1),
   OptionScene({"effort"}, FALSE, 2, 0, 1, 1, 0), OptionScene({"effort"}, TRUE, 1, 0, 1, 1, 0)}

ConfigScene(fl, e, f, ps, n) == [flags |-> fl, env |-> e, file |-> f, posts |-> ps, together |-> n]

MCFiles ==
  {"machineName" :> {"desk"} @@ "other" :> {"kept"} @@ "direct.listen" :> {"addr"},
   "direct.onionListen" :> {"loopback"} @@ "relays" :> {"wss"} @@ "transcriptKeepLast" :> {"3"} @@ "other" :> {"kept"}}

MCPosts ==
  {"machineName" :> {"m"}, "direct.endpoints" :> {"wss"}, "direct.endpoints" :> {"ws.onion"}, "relays" :> {}, "direct.listen" :> {"x"},
   "direct.endpoints" :> {"plain"}, ("relays" :> {"ws.onion"}) @@ ("transcriptKeepLast" :> Unset)}

MCEnvs ==
  {<<>>, "relays" :> {}, "relays" :> {"wss", "ws.onion"},
   ("transcriptKeepLast" :> {"unparsable"}) @@ ("direct.onionListen" :> {"loopback"}),
   ("transcriptKeepLast" :> {"4"}) @@ ("direct.listen" :> {"env"})}

MCFlags == {<<>>, ("machineName" :> {"flag"}) @@ ("direct.endpoints" :> {"wss"}) @@ ("direct.listen" :> {"f"})}

MCConfigScenes ==
  UNION {{ConfigScene(fl, e, f, {a, c}, 1) : fl \in MCFlags, e \in MCEnvs, f \in MCFiles} : a \in MCPosts, c \in MCPosts}

MCConfigIdle == CHOOSE s \in MCConfigScenes : TRUE

ShellScene(c, may) == [commands |-> c, may |-> may]

MCShellScenes ==
  {ShellScene(<<"run", "unpair", "run">>, {"overlap"}), ShellScene(<<"pair", "run", "unpair">>, {"kill"}),
   ShellScene(<<"run", "pair", "run">>, {"disk"}), ShellScene(<<"run", "run">>, {"overlap"}),
   ShellScene(<<"run", "pair">>, {"overlap", "kill"})}

AllowScene(live, n, c, may) == [live |-> live, edits |-> n, commands |-> c, may |-> may]

MCAllowScenes ==
  {AllowScene(AllowDevices, 2, 2, {}), AllowScene({"d"}, 1, 2, {"gone"}), AllowScene(AllowDevices, 1, 1, {"gone"}),
   AllowScene({"d"}, 2, 2, {"join"}), AllowScene({"d"}, 2, 2, {"restart"}), AllowScene({"d"}, 2, 2, {"die"}),
   AllowScene({"d"}, 2, 2, {"slow"})}

MCCasts ==
  "a" :> [day |-> 0 - 2, len |-> 2] @@ "b" :> [day |-> 0 - 1, len |-> 1] @@ "c" :> [day |-> 0, len |-> 3]
MCAuditMay == {{}, {"busy"}, {"error"}, {"crash"}}

AllRanges == (0 .. MaxSeq) \X (0 .. MaxSeq)

NoEntries == [s \in 1 .. MaxSeq |-> 0]

\* Any further range, as the decoder of a `sync-request` hands it over.
Push ==
  /\ size = NoEntries /\ Len(have) < MaxRanges
  /\ \E r \in AllRanges : have' = Append(have, r)
  /\ UNCHANGED size

\* Any entry, of any size, at any seq of the transcript that is cut.
Store ==
  /\ have = <<>>
  /\ \E s \in 1 .. MaxSeq, n \in 0 .. MaxSize : size' = [size EXCEPT ![s] = n]
  /\ UNCHANGED have

Reset == have' = <<>> /\ size' = NoEntries

-------------------------------------------------------------------------------
Played == {"answers", "profiles", "credentials", "options", "config", "shell", "allow", "audit",
           "transcript", "functions"}

MCInit ==
    /\ part \in Played
    /\ ConfigInit /\ (part = "config" \/ configScene = MCConfigIdle)
    /\ AnswersInit /\ (part = "answers" \/ answerScene = CHOOSE s \in AnswerScenes : TRUE)
    /\ ProfilesInit /\ (part = "profiles" \/ profileScene = CHOOSE s \in ProfileScenes : TRUE)
    /\ CredInit
    /\ OptionsInit /\ (part = "options" \/ ((optionScene = CHOOSE s \in OptionScenes : TRUE) /\ rec.effort = ""))
    /\ ShellInit /\ (part = "shell" \/ shellScene = CHOOSE s \in ShellScenes : TRUE)
    /\ AllowInit /\ (part = "allow" \/ allowScene = CHOOSE s \in AllowScenes : TRUE)
    /\ AuditInit /\ (part = "audit" \/ auditMay = CHOOSE s \in AuditMay : TRUE)
    /\ Init /\ have = <<>> /\ size = NoEntries

MCNext ==
    /\ UNCHANGED part
    /\ \/ part = "answers" /\ AnswersNext
          /\ UNCHANGED <<profileVars, credVars, optionVars, configVars, shellVars, allowVars, auditVars, vars, have, size>>
       \/ part = "profiles" /\ ProfilesNext
          /\ UNCHANGED <<answerVars, credVars, optionVars, configVars, shellVars, allowVars, auditVars, vars, have, size>>
       \/ part = "credentials" /\ CredNext
          /\ UNCHANGED <<answerVars, profileVars, optionVars, configVars, shellVars, allowVars, auditVars, vars, have, size>>
       \/ part = "options" /\ OptionsNext
          /\ UNCHANGED <<answerVars, profileVars, credVars, configVars, shellVars, allowVars, auditVars, vars, have, size>>
       \/ part = "config" /\ ConfigNext
          /\ UNCHANGED <<answerVars, profileVars, credVars, optionVars, shellVars, allowVars, auditVars, vars, have, size>>
       \/ part = "shell" /\ ShellNext
          /\ UNCHANGED <<answerVars, profileVars, credVars, optionVars, configVars, allowVars, auditVars, vars, have, size>>
       \/ part = "allow" /\ AllowNext
          /\ UNCHANGED <<answerVars, profileVars, credVars, optionVars, configVars, shellVars, auditVars, vars, have, size>>
       \/ part = "audit" /\ AuditNext
          /\ UNCHANGED <<answerVars, profileVars, credVars, optionVars, configVars, shellVars, allowVars, vars, have, size>>
       \/ part = "transcript" /\ Next
          /\ UNCHANGED <<answerVars, profileVars, credVars, optionVars, configVars, shellVars, allowVars, auditVars, have, size>>
       \/ part = "functions" /\ (Push \/ Store \/ Reset)
          /\ UNCHANGED <<answerVars, profileVars, credVars, optionVars, configVars, shellVars, allowVars, auditVars, vars>>

MCSpec ==
    MCInit /\ [][MCNext]_<<part, answerVars, profileVars, credVars, optionVars, configVars, shellVars, allowVars, auditVars,
                            vars, have, size>>

-------------------------------------------------------------------------------
IsCanonical(rs) ==
  /\ \A i \in DOMAIN rs : rs[i][1] <= rs[i][2]
  /\ \A i \in 1 .. Len(rs) - 1 : rs[i][2] + 1 < rs[i + 1][1]

\* normalize_ranges keeps exactly the seqs it was given and returns them as
\* the one minimal list: sorted, no overlap, no two ranges that touch.
NormalizeIsCanonical ==
  LET norm == normalize_ranges(have)
  IN  IsCanonical(norm) /\ SeqsOf(norm) = SeqsOf(have)

\* missing_ranges is the complement: with `have` it splits [lo, hi] in two.
\* A sync asks for exactly the gaps.  (Below the top of the integer type.)
MissingIsComplement ==
  \A lo \in 0 .. MaxSeq, hi \in 0 .. MaxSeq - 1 :
    LET gaps == missing_ranges(have, lo, hi)
    IN  /\ SeqsOf(gaps) = (lo .. hi) \ SeqsOf(have)
        /\ IsCanonical(gaps)
        /\ covers(have, lo, hi) <=> (lo .. hi) \subseteq SeqsOf(have)

\* chunk_ranges tiles its input: no seq lost, none twice, none over the cap.
ChunksTile ==
  \A most \in Sizes :
    LET chunks == chunk_ranges(have, most)
    IN  /\ SeqsOf(chunks) = SeqsOf(have)
        /\ \A i, j \in DOMAIN chunks :
             /\ chunks[i][2] - chunks[i][1] < most
             /\ i < j => chunks[i][2] < chunks[j][1]

\* What is still owed after a delivery is the difference of the two sets,
\* delivered and owed add up again, and range_size counts each seq once.
SubtractThenUnion ==
  \A k \in 0 .. Len(have) :
    LET owns == SubSeq(have, 1, k)
        gets == SelectSeq(SubSeq(have, k + 1, Len(have)), LAMBDA r : r[2] < MaxSeq)
        owed == subtract_ranges(owns, gets)
    IN  (\A r \in ToSet(owns) : r[2] < MaxSeq) =>
          /\ SeqsOf(owed) = SeqsOf(owns) \ SeqsOf(gets)
          /\ union_ranges(owed, gets) = union_ranges(owns, gets)
          /\ range_size(owed) = Cardinality(SeqsOf(owns) \ SeqsOf(gets))

\* The range functions of protocol/ranges.rs compute on lists what the set
\* operations do on the seqs they cover: normal form, complement, tiling,
\* difference and union, for lists in any order and with any overlap.
RangesAreSets ==
  part = "functions" => NormalizeIsCanonical /\ MissingIsComplement /\ ChunksTile /\ SubtractThenUnion

\* A missing range is cut into chunks that tile it exactly, wherever entries are
\* pruned, and each fits chunk_bytes unless it is one larger entry
\* (SyncServer::cut).
CutSound == part = "functions" => CutTiles /\ CutFits

\* Ranges and the cuts made of them (protocol/ranges.rs, SyncServer::cut).
RangesSound == RangesAreSets /\ CutSound
===============================================================================
