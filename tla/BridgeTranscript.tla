--------------------------- MODULE BridgeTranscript ---------------------------
(***************************************************************************)
(* How the bridge numbers transcript entries and keeps them across         *)
(* restarts: Engine::append, Engine::start, Engine::run_retention and the  *)
(* file store FileTranscripts, for one session.                            *)
(*                                                                         *)
(* The engine is one thread, but a crash can fall between any two writes   *)
(* of a run of entries, or inside one: the loop of `append` is therefore   *)
(* one step per line, with the live send as its last step.                 *)
(***************************************************************************)
EXTENDS Integers, Sequences, FiniteSets

CONSTANTS
  MaxEntries,  \* bound: entries ever handed to `append`
  MaxRun,      \* bound: entries in one call of `append`
  KeepLast,    \* EngineConfig::transcript_keep_last (0 keeps everything)
  Faults       \* what may go wrong, a subset of FaultKinds

(* tear: a crash leaves a part of a line; bare: it leaves the whole line   *)
(* but not its newline; write: a write fails, perhaps half way; read: the  *)
(* file cannot be read when the bridge starts; dir: its directory cannot.  *)
FaultKinds == {"tear", "bare", "write", "read", "dir"}

ASSUME TranscriptAssumption ==
  /\ MaxEntries \in Nat
  /\ MaxRun \in Nat
  /\ KeepLast \in Nat
  /\ Faults \subseteq FaultKinds

VARIABLES
  up,         \* the bridge runs
  file,       \* the session's .jsonl file
  refused,    \* the session is in FileTranscripts::refused
  high,       \* seq_highs[session], 0 when absent
  batch,      \* entries of the `append` under way, 0 when none is
  done,       \* how many of them went through transcripts.append
  fresh,      \* entries handed to `append` so far; each entry's content is
              \* its number in this count, so no two are the same
  published,  \* every [seq, c] ever sent in an `output`
  intact      \* history: no error so far, and no crash but between two writes or one
              \* that leaves a part of a line ("bare" is not: see SeqsUnique)

vars == <<up, file, refused, high, batch, done, fresh, published, intact>>

Entry == [seq : Nat, c : Nat]

(***************************************************************************)
(* The file: the lines that parse, in order; how it ends; and whether some *)
(* line does not parse.  The next line is written behind whatever the file *)
(* ends with, so it is lost with a torn tail, and takes the line before it *)
(* along when only that line's newline was missing.                        *)
(***************************************************************************)
File == [lines : Seq(Entry), tail : {"clean", "torn", "bare"}, junk : BOOLEAN]

LinesBelow(f) ==
  IF f.tail = "bare" THEN SubSeq(f.lines, 1, Len(f.lines) - 1) ELSE f.lines

\* The bytes of the whole line, newline included.
WriteLine(f, e) ==
  IF f.tail = "clean"
  THEN [f EXCEPT !.lines = Append(@, e)]
  ELSE [lines |-> LinesBelow(f), tail |-> "clean", junk |-> TRUE]

\* Some of the bytes of the line.
WritePart(f) == [lines |-> LinesBelow(f), tail |-> "torn", junk |-> TRUE]

\* All the bytes of the line but its newline.
WriteBare(f, e) ==
  IF f.tail = "clean"
  THEN [f EXCEPT !.lines = Append(@, e), !.tail = "bare"]
  ELSE WritePart(f)

\* load() rewrites the file when a line does not parse.
Rewritten(f) == IF f.junk THEN [f EXCEPT !.tail = "clean", !.junk = FALSE] ELSE f

\* Mutant: the first lines are kept instead of the last.
PruneEnd(f, keep_last) ==
  IF Len(f.lines) > keep_last
  THEN [lines |-> SubSeq(f.lines, 1, keep_last), tail |-> "clean", junk |-> FALSE]
  ELSE f

prune(f, keep_last) ==
  IF Len(f.lines) > keep_last
  THEN [lines |-> SubSeq(f.lines, Len(f.lines) - keep_last + 1, Len(f.lines)),
        tail |-> "clean", junk |-> FALSE]
  ELSE f

run_retention(f) == IF KeepLast = 0 THEN f ELSE prune(f, KeepLast)

\* Mutant: the last line is taken for a torn one and not counted.
HighOfShort(lines) == IF Len(lines) > 1 THEN lines[Len(lines) - 1].seq ELSE 0

\* The highest seq among the lines, 0 without lines.
HighOf(lines) ==
  CHOOSE h \in {0} \cup {lines[i].seq : i \in DOMAIN lines} :
    \A i \in DOMAIN lines : lines[i].seq <= h

\* The entry the loop of `append` is at.
Current == [seq |-> high + done + 1, c |-> fresh + done + 1]

Init ==
  /\ up = TRUE
  /\ file = [lines |-> <<>>, tail |-> "clean", junk |-> FALSE]
  /\ refused = FALSE
  /\ high = 0 /\ batch = 0 /\ done = 0 /\ fresh = 0
  /\ published = {} /\ intact = TRUE

BeginAppend(n) ==
  /\ up /\ batch = 0
  /\ fresh + n <= MaxEntries
  /\ batch' = n
  /\ UNCHANGED <<up, file, refused, high, done, fresh, published, intact>>

\* transcripts.append succeeds.
StoreEntry ==
  /\ up /\ done < batch /\ ~refused
  /\ file' = WriteLine(file, Current)
  /\ done' = done + 1
  /\ UNCHANGED <<up, refused, high, batch, fresh, published, intact>>

\* transcripts.append returns an error, which `append` only logs: the file is
\* refused, or the write failed with none or some of the bytes out.
StoreFails ==
  /\ up /\ done < batch
  /\ \/ refused /\ UNCHANGED <<file, intact>>
     \/ ~refused /\ "write" \in Faults /\ UNCHANGED file /\ intact' = FALSE
     \/ ~refused /\ "write" \in Faults /\ file' = WritePart(file) /\ intact' = FALSE
  /\ done' = done + 1
  /\ UNCHANGED <<up, refused, high, batch, fresh, published>>

\* The entries of the `output` that ends `append`: consecutive seqs.
Run == {[seq |-> high + i, c |-> fresh + i] : i \in 1 .. batch}

\* The end of `append`: the new high, and the entries sent live as one run.
Publish ==
  /\ up /\ batch > 0 /\ done = batch
  /\ high' = high + batch
  /\ published' = published \cup Run
  /\ fresh' = fresh + batch
  /\ batch' = 0 /\ done' = 0
  /\ UNCHANGED <<up, file, refused, intact>>

\* The retention timer: only sessions in seq_highs are swept.
Retention ==
  /\ up /\ batch = 0 /\ high > 0
  /\ file' = run_retention(file)
  /\ UNCHANGED <<up, refused, high, batch, done, fresh, published, intact>>

\* The process dies: between two writes, or inside one.
Crash ==
  /\ up
  /\ \/ UNCHANGED <<file, intact>>
     \/ /\ done < batch /\ ~refused /\ "tear" \in Faults
        /\ file' = WritePart(file) /\ UNCHANGED intact
     \/ /\ done < batch /\ ~refused /\ "bare" \in Faults
        /\ file' = WriteBare(file, Current) /\ intact' = FALSE
  /\ up' = FALSE
  /\ high' = 0 /\ batch' = 0 /\ done' = 0
  /\ fresh' = fresh + batch
  /\ UNCHANGED <<refused, published>>

\* Engine::start: load the transcripts, then the first retention sweep.
Start ==
  /\ ~up
  /\ up' = TRUE
  /\ \/ /\ high' = HighOf(file.lines)
        /\ \/ file' = run_retention(Rewritten(file)) /\ UNCHANGED intact
           \/ /\ "write" \in Faults /\ intact' = FALSE
              /\ file' \in {file, Rewritten(file), run_retention(file)}
        /\ refused' = FALSE
     \/ /\ "read" \in Faults
        /\ high' = 0 /\ refused' = TRUE /\ intact' = FALSE
        /\ UNCHANGED file
     \/ /\ "dir" \in Faults
        /\ high' = 0 /\ refused' = FALSE /\ intact' = FALSE
        /\ UNCHANGED file
  /\ batch' = 0 /\ done' = 0
  /\ UNCHANGED <<fresh, published>>

Next ==
  \/ \E n \in 1 .. MaxRun : BeginAppend(n)
  \/ StoreEntry \/ StoreFails \/ Publish
  \/ Retention \/ Crash \/ Start

Spec == Init /\ [][Next]_vars

-----------------------------------------------------------------------------
(* The types of the state `append`, `load` and `prune` keep. *)
TypeOK ==
  /\ up \in BOOLEAN /\ refused \in BOOLEAN
  /\ file \in File
  /\ high \in Nat /\ batch \in Nat /\ done \in 0 .. batch /\ fresh \in Nat
  /\ published \subseteq Entry

(* No seq was sent with two contents: seqs are given once, never           *)
(* renumbered, and continue across restarts (engine/mod.rs).  Not so after *)
(* a failed write, nor after a crash that leaves a whole line without its  *)
(* newline: load takes the line for good, the next one is written behind   *)
(* it and both are gone at the next start, with the seq the second went    *)
(* out under.                                                              *)
SeqsUnique ==
  \A p, q \in published : p.seq = q.seq => p.c = q.c

(* A seq that went out in an `output` never goes out again with other      *)
(* content, whatever crashes that cut a line short and restarts fall in    *)
(* between, other than the crash of SeqsUnique (Engine::append, start).    *)
(* The phone keeps the first entry it saw under a seq, so one sent under a *)
(* used seq is never shown.                                                *)
NeverRenumbered == intact => SeqsUnique

(* What a later sync reads from the file under a seq is what was sent live *)
(* under it, through crashes that cut a line short.                        *)
StoredAgreesWithPublished ==
  intact => \A i \in DOMAIN file.lines, p \in published :
              file.lines[i].seq = p.seq => file.lines[i] = p

(* An entry that was sent is still in the file, after any crash that cuts  *)
(* a line short, unless retention dropped it as older than everything kept.*)
PublishedSurvives ==
  intact => \A p \in published :
              \/ \E i \in DOMAIN file.lines : file.lines[i] = p
              \/ file.lines # <<>> /\ p.seq < file.lines[1].seq

(* The seqs in the file only grow from line to line, so `read`'s binary    *)
(* search over them is sound and no seq is in the file twice.              *)
FileSeqsIncrease ==
  intact => \A i, j \in DOMAIN file.lines : i < j => file.lines[i].seq < file.lines[j].seq

(* What a bridge published is on its disk under the same seq, through      *)
(* pruning, rewrites, restarts and crashes, other than one that leaves out *)
(* only a newline, and the file stays sorted (append, prune, load).        *)
TranscriptKept == StoredAgreesWithPublished /\ PublishedSurvives /\ FileSeqsIncrease
=============================================================================
