------------------------------ MODULE Uploads -------------------------------
(* A file attached to a session.                                            *)
(*                                                                          *)
(* The phone puts the encrypted file on the user's Blossom server and sends *)
(* the bridge a reference, or, with no server or when that fails, sends the *)
(* file through the relays in base64 pieces (client-runtime runtime.rs,     *)
(* FileSendCtx::send_session_file; attachments.rs). The bridge downloads or *)
(* reassembles it on its blocking pool, writes it to disk and gives the     *)
(* session a message naming it (bridge-runtime uploads.rs). Sizes are       *)
(* bytes; time is in ticks.                                                 *)
EXTENDS Integers, Sequences, FiniteSets, FiniteSetsExt

CONSTANTS
    MaxUploadBytes,     \* MAX_UPLOAD_BYTES, MAX_BLOSSOM_UPLOAD_BYTES
    TagBytes,           \* what encryption adds to a file
    ChunkChars,         \* IMAGE_CHUNK_BYTES
    MaxFallbackChunks, MaxRetries, AttemptTicks, BlobBudget, RetryFloor,
    ChunkBudget,        \* CHUNK_ASSEMBLY_BUDGET_MS
    SendBudget,         \* SESSION_IMAGE_SEND_BUDGET_MS
    PublishTicks,       \* bound: the longest a confirmed publish takes
    AssemblyIdle, MaxOpenUploads,
    UploadScenes        \* [sends: what the user sends, size, server: is one set, may: faults]

VARIABLES
    upScene, upNow,
    sends,      \* per send: [stage, started, since, i, attempt]
    mail,       \* the commands on the relays
    blobs,      \* the sends whose bytes the Blossom server holds
    bridge,     \* [up: session runs, taken, uploads, injected]
    work,       \* the bridge's running tasks
    delivered,  \* history: the messages the session got, in order
    spoilt      \* history: sends a fault of the network or the disk hit

upVars == <<upScene, upNow, sends, mail, blobs, bridge, work, delivered, spoilt>>

Sends == upScene.sends
Faulty(f) == f \in upScene.may

----------------------------------------------------------------------------
(* The pure parts. *)

Base64(bytes) == 4 * ((bytes + 2) \div 3)

\* How many pieces chunk_base64 makes, and the length of piece i.
Pieces(len) == IF len <= ChunkChars THEN 1 ELSE (len + ChunkChars - 1) \div ChunkChars
PieceLen(len, i) == IF i + 1 = Pieces(len) THEN len - i * ChunkChars ELSE ChunkChars

max_upload_bytes(server) ==
    IF server THEN MaxUploadBytes ELSE ((MaxFallbackChunks * ChunkChars) \div 4) * 3

remaining_budget(started, budget) == Max({0, budget - (upNow - started)})

\* The two shapes of the upload-file command. A piece is named by its place
\* in the file; only the first carries the words.
BlossomMsg(s) == [kind |-> "blossom", send |-> s, size |-> upScene.size]
ChunkMsg(s, i) ==
    [kind |-> "chunk", send |-> s, i |-> i, total |-> Pieces(Base64(upScene.size)),
     len |-> PieceLen(Base64(upScene.size), i), text |-> i = 0]

----------------------------------------------------------------------------
(* The phone: send_session_file, one task per send. *)

To(s, stage) == [sends EXCEPT ![s].stage = stage, ![s].since = upNow]

\* Without bytes on a server the file goes in pieces, if few enough do.
Fallback(s) ==
    IF Pieces(Base64(upScene.size)) > MaxFallbackChunks THEN To(s, "failed")
    ELSE [sends EXCEPT ![s].stage = "chunks", ![s].since = upNow, ![s].chunked = upNow]

StartSend(s) ==
    /\ sends[s].stage = "idle"
    /\ upScene.size <= max_upload_bytes(upScene.server)
    /\ sends' = IF upScene.server
                THEN [sends EXCEPT ![s].stage = "blob", ![s].since = upNow, ![s].started = upNow]
                ELSE [Fallback(s) EXCEPT ![s].started = upNow]
    /\ UNCHANGED <<upScene, upNow, mail, blobs, bridge, work, delivered, spoilt>>

\* An attempt that may be made again: the retries and the budget decide.
RetryBlob(s) ==
    IF sends[s].attempt < MaxRetries /\ remaining_budget(sends[s].started, BlobBudget) >= RetryFloor
    THEN [sends EXCEPT ![s].attempt = @ + 1, ![s].since = upNow]
    ELSE Fallback(s)

\* One PUT: stored and answered; stored or not, and the answer lost or late;
\* refused with a status worth a retry; refused for good.
UploadAttempt(s) ==
    /\ sends[s].stage = "blob"
    /\ \/ blobs' = blobs \cup {s} /\ sends' = To(s, "ref")
       \/ /\ Faulty("server")
          /\ blobs' \in {blobs, blobs \cup {s}}
          /\ sends' = RetryBlob(s)
       \/ /\ Faulty("server")
          /\ blobs' = blobs
          /\ sends' = Fallback(s)
    /\ UNCHANGED <<upScene, upNow, mail, bridge, work, delivered, spoilt>>

\* A confirmed publish: on the relays; unconfirmed, and there or not; or
\* refused.
UploadPublishes(s, msg, sent, refused) ==
    \/ mail' = mail \cup {msg} /\ sends' = sent /\ UNCHANGED spoilt
    \/ /\ Faulty("relay")
       /\ mail' \in {mail, mail \cup {msg}}
       /\ sends' = sent
       /\ spoilt' = spoilt \cup {s}
    \/ /\ Faulty("relay")
       /\ UNCHANGED mail
       /\ sends' = refused
       /\ spoilt' = spoilt \cup {s}

SendReference(s) ==
    /\ sends[s].stage = "ref"
    /\ UploadPublishes(s, BlossomMsg(s), To(s, "sent"), To(s, "failed"))
    /\ UNCHANGED <<upScene, upNow, blobs, bridge, work, delivered>>

\* The next piece, unless either budget is spent.
SendPiece(s) ==
    LET p == sends[s]
        last == p.i + 1 = Pieces(Base64(upScene.size))
    IN
    /\ p.stage = "chunks"
    /\ IF upNow - p.chunked >= ChunkBudget \/ upNow - p.started >= SendBudget
       THEN sends' = To(s, "failed") /\ UNCHANGED <<mail, spoilt>>
       ELSE UploadPublishes(s, ChunkMsg(s, p.i),
                      IF last THEN To(s, "sent")
                      ELSE [sends EXCEPT ![s].i = @ + 1, ![s].since = upNow],
                      To(s, "failed"))
    /\ UNCHANGED <<upScene, upNow, blobs, bridge, work, delivered>>

----------------------------------------------------------------------------
(* The bridge. *)

\* Engine::on_upload_file: an upload for a session that runs becomes a task.
OnUploadFile(m) ==
    /\ m \in mail \ bridge.taken
    /\ bridge' = [bridge EXCEPT !.taken = @ \cup {m}]
    /\ work' = IF bridge.up THEN work \cup {m} ELSE work
    /\ spoilt' = IF bridge.up THEN spoilt ELSE spoilt \cup {m.send}
    /\ UNCHANGED <<upScene, upNow, sends, mail, blobs, delivered>>

\* What a task leaves: the uploads, the messages to give, and whether a fault
\* of the disk, the server or a limit hit the send.
Leaves(b, gives, bad) == [bridge |-> b, gives |-> gives, bad |-> bad]

\* Uploads::finish: a resend is dropped, a file that cannot be written too;
\* otherwise the session is to get a message naming the saved file.
Finish(b, m, parts, text) ==
    LET identity == <<m.kind, m.send>>
        ready == [kind |-> "ready", send |-> m.send, parts |-> parts, text |-> text]
    IN  IF identity \in b.injected THEN { Leaves(b, {}, FALSE) }
        ELSE { Leaves([b EXCEPT !.injected = @ \cup {identity}], {ready}, FALSE) }
             \cup (IF Faulty("disk") THEN { Leaves(b, {}, TRUE) } ELSE {})

\* Mutant: an upload idle for no longer than a publish takes is given up on.
FreshShort(uploads) ==
    LET live == { s \in DOMAIN uploads : upNow - uploads[s].last < PublishTicks }
    IN  [s \in live |-> uploads[s]]

\* The uploads that have not been idle too long.
Fresh(uploads) ==
    LET live == { s \in DOMAIN uploads : upNow - uploads[s].last < AssemblyIdle }
    IN  [s \in live |-> uploads[s]]

\* The upload with one more piece: its time starts again, and its words are
\* those of piece 0 whenever that one comes.
Kept(old, m) ==
    [text |-> old.text \/ m.text, total |-> old.total, last |-> upNow,
     size |-> old.size + m.len, parts |-> old.parts \cup {m.i}]

\* Uploads::chunk.
TakeChunk(m) ==
    LET fresh == Fresh(bridge.uploads)
        new  == [text |-> m.text, total |-> m.total, last |-> upNow, size |-> 0, parts |-> {}]
        up   == Kept(IF m.send \in DOMAIN fresh THEN fresh[m.send] ELSE new, m)
        Now(uploads) == [bridge EXCEPT !.uploads = uploads]
        without == Now([s \in DOMAIN fresh \ {m.send} |-> fresh[s]])
        with == Now([s \in DOMAIN fresh \cup {m.send} |-> IF s = m.send THEN up ELSE fresh[s]])
    IN  CASE m.send \notin DOMAIN fresh /\ Cardinality(DOMAIN fresh) >= MaxOpenUploads
               -> { Leaves(Now(fresh), {}, TRUE) }
          [] up.size > (MaxUploadBytes * 4) \div 3 + 4 -> { Leaves(without, {}, FALSE) }
          [] Cardinality(up.parts) < up.total -> { Leaves(with, {}, FALSE) }
          [] OTHER -> Finish(without, m, up.parts, up.text)

\* fetch_blossom: the size the message claims, then what the server holds,
\* which is the encrypted file, must be within the cap.
FetchBlossom(m) ==
    IF m.size > MaxUploadBytes \/ m.size + TagBytes > MaxUploadBytes
    THEN { Leaves(bridge, {}, FALSE) }
    ELSE (IF m.send \in blobs
          THEN Finish(bridge, m, 0..Pieces(Base64(m.size)) - 1, TRUE) ELSE {})
         \cup (IF Faulty("server") THEN { Leaves(bridge, {}, TRUE) } ELSE {})

\* A task of the blocking pool or a download ends; they end in any order.
TaskEnds(m) ==
    /\ m \in work /\ m.kind \in {"chunk", "blossom"}
    /\ \E r \in IF m.kind = "chunk" THEN TakeChunk(m) ELSE FetchBlossom(m) :
         /\ bridge' = r.bridge
         /\ work' = (work \ {m}) \cup r.gives
         /\ spoilt' = IF r.bad THEN spoilt \cup {m.send} ELSE spoilt
    /\ UNCHANGED <<upScene, upNow, sends, mail, blobs, delivered>>

\* Input::FileReady: the session gets the message, if it still runs.
FileReady(m) ==
    /\ m \in work /\ m.kind = "ready"
    /\ work' = work \ {m}
    /\ delivered' = IF bridge.up THEN Append(delivered, m) ELSE delivered
    /\ spoilt' = IF bridge.up THEN spoilt ELSE spoilt \cup {m.send}
    /\ UNCHANGED <<upScene, upNow, sends, mail, blobs, bridge>>

----------------------------------------------------------------------------
(* What happens around them. *)

SessionEnds ==
    /\ Faulty("session") /\ bridge.up
    /\ bridge' = [bridge EXCEPT !.up = FALSE]
    /\ UNCHANGED <<upScene, upNow, sends, mail, blobs, work, delivered, spoilt>>

\* The bridge restarts: what it was reassembling, its tasks and its memory of
\* resends are gone. The commands it had taken are not read again.
BridgeRestarts ==
    /\ Faulty("restart")
    /\ bridge' = [bridge EXCEPT !.uploads = <<>>, !.injected = {}]
    /\ work' = {}
    /\ spoilt' = spoilt \cup { m.send : m \in bridge.taken }
    /\ UNCHANGED <<upScene, upNow, sends, mail, blobs, delivered>>

Busy == { s \in Sends : sends[s].stage \in {"blob", "ref", "chunks"} }

\* Time passes: a publish or an attempt is given up on in its time. Only slow
\* relays keep what the bridge has not read, or a slow disk its tasks.
UploadTick ==
    /\ Busy # {} \/ Faulty("slow")
    /\ upNow < SendBudget
    /\ \A s \in Busy : upNow - sends[s].since <
            (IF sends[s].stage = "blob" THEN AttemptTicks ELSE PublishTicks)
    /\ Faulty("slow") \/ (mail \subseteq bridge.taken /\ work = {})
    /\ upNow' = upNow + 1
    /\ spoilt' = spoilt \cup { m.send : m \in (mail \ bridge.taken) \cup work }
    /\ UNCHANGED <<upScene, sends, mail, blobs, bridge, work, delivered>>

UploadInit ==
    /\ upScene \in UploadScenes
    /\ upNow = 0
    /\ sends = [s \in Sends |-> [stage |-> "idle", started |-> 0, since |-> 0, chunked |-> 0,
                                 i |-> 0, attempt |-> 0]]
    /\ mail = {} /\ blobs = {} /\ work = {}
    /\ bridge = [up |-> TRUE, taken |-> {}, uploads |-> <<>>, injected |-> {}]
    /\ delivered = <<>>
    /\ spoilt = {}

UploadNext ==
    \/ \E s \in Sends : StartSend(s) \/ UploadAttempt(s) \/ SendReference(s) \/ SendPiece(s)
    \/ \E m \in mail : OnUploadFile(m)
    \/ \E m \in work : TaskEnds(m) \/ FileReady(m)
    \/ SessionEnds \/ BridgeRestarts \/ UploadTick

UploadSpec == UploadInit /\ [][UploadNext]_upVars

----------------------------------------------------------------------------

\* A session gets a file whole, with the words it was sent with, and once per
\* send: whatever order its pieces are read in, however often the server was
\* tried, and whether or not a publish was confirmed.
FilesWhole ==
    \A k \in DOMAIN delivered :
        /\ delivered[k].parts = 0..Pieces(Base64(upScene.size)) - 1
        /\ delivered[k].text
        /\ \A j \in DOMAIN delivered : delivered[j].send = delivered[k].send => j = k

\* "The largest file one send can carry: through a Blossom server, what the
\* bridge keeps": when nothing is left to do, a send that ended well reached
\* the session, unless a relay, the server, the disk, a limit on open uploads,
\* the end of the session or a restart came between.  In no run: the bridge
\* holds the encrypted body, TagBytes longer than the file, to the same cap,
\* so it refuses the largest files the phone offers to send.
OfferedArrives ==
    \A s \in Sends :
        /\ sends[s].stage = "sent" /\ s \notin spoilt
        /\ mail \subseteq bridge.taken /\ work = {}
        => \E k \in DOMAIN delivered : delivered[k].send = s

\* The same for every size whose encrypted body is within the bridge's cap:
\* neither side's time limits drop a file the other side keeps sending.
FileArrives == upScene.size + TagBytes <= MaxUploadBytes => OfferedArrives

\* A file sent from the phone reaches the session whole or not at all, and it
\* does reach it, by the server or in pieces, unless something failed.
UploadsSound == FilesWhole /\ FileArrives
============================================================================
