------------------------------ MODULE AuditLog ------------------------------
(* The terminal audit (bridge-runtime audit.rs): records go through a       *)
(* channel to a thread that writes each as a line carrying the hash of the  *)
(* line before it, and removes old recordings. A line is [id, rec, prev];   *)
(* its hash is its id, so two lines have the same hash only if they are the *)
(* same. A line cut short by a crash has no newline: what is written next   *)
(* joins it, and neither parses.                                            *)
EXTENDS Integers, Sequences, FiniteSets, SequencesExt, FiniteSetsExt

CONSTANTS
    MaxRecords, MaxBytesKept, MaxDays,  \* records; Retention
    Casts,                              \* recordings: name -> [day, len]
    MaxDay, MaxRuns,
    AuditMay                            \* sets of faults: "error", "crash", "busy"

VARIABLES
    auditMay,
    chan,       \* the channel to the thread
    head,       \* the thread's prev; Off when it does not run
    buffer,     \* lines written to the BufWriter and not to the file
    logFile,    \* terminal.jsonl, lines
    recorded,   \* history: records handed over
    lost,       \* history: "nothing"; "records" a crash took from memory; "line", one that a
                \* crash cut short or whose write failed
    casts,      \* recordings in the directory
    day, runs,
    kept        \* what the last retention left: [casts, failed]

auditVars == <<auditMay, chan, head, buffer, logFile, recorded, lost, casts, day, runs, kept>>

GENESIS == 0
Off == 0 - 1
LineOf(id, r, prev) == [id |-> id, rec |-> r, prev |-> prev, cut |-> FALSE]
NextId == 1 + Len(logFile) + Len(buffer)

\* The hash of the file's last line.
last_line_hash(lines) == IF lines = <<>> THEN GENESIS ELSE Last(lines).id

\* The chain as verify walks it: the number of lines, or Off at a break.
verify(lines) ==
    IF \A i \in DOMAIN lines :
         ~ lines[i].cut /\ lines[i].prev = (IF i = 1 THEN GENESIS ELSE lines[i - 1].id)
    THEN Len(lines) ELSE Off

\* Bytes reach the file: after a line cut short they are part of that line.
Flushed(lines, more) ==
    IF lines # <<>> /\ Last(lines).cut /\ more # <<>> THEN Front(lines) \o <<[Last(lines) EXCEPT !.id = NextId]>> \o Tail(more)
    ELSE lines \o more

----------------------------------------------------------------------------
(* The recordings, oldest first. *)

Total(names) == MapThenSumSet(LAMBDA c : Casts[c].len, names)
Before(names, c) == { b \in names : Casts[b].day < Casts[c].day }

\* run_retention's loop reaches a recording when it removed, or failed to
\* remove, all older ones, and each was too old or the rest too big.
Selected(names, failed) ==
    LET goes(c) == \/ MaxDays > 0 /\ Casts[c].day + MaxDays < day
                   \/ MaxBytesKept > 0 /\ Total(names) - Total(Before(names, c) \ failed) > MaxBytesKept
    IN  { c \in names : \A b \in Before(names, c) \cup {c} : goes(b) }

run_cast_retention ==
    \E failed \in (IF "busy" \in auditMay THEN SUBSET casts ELSE {{}}) :
        /\ casts' = casts \ (Selected(casts, failed) \ failed)
        /\ kept' = [casts |-> casts', gone |-> casts \ casts', failed |-> failed]

----------------------------------------------------------------------------

\* Mutant: the chain starts anew with every run of the bridge.
OpenAnew ==
    /\ head = Off /\ runs < MaxRuns
    /\ runs' = runs + 1
    /\ head' = GENESIS
    /\ run_cast_retention
    /\ UNCHANGED <<auditMay, chan, buffer, logFile, recorded, lost, day>>

\* Audit::open and the start of writer_loop.
open ==
    /\ head = Off /\ runs < MaxRuns
    /\ runs' = runs + 1
    /\ head' = last_line_hash(logFile)
    /\ run_cast_retention
    /\ UNCHANGED <<auditMay, chan, buffer, logFile, recorded, lost, day>>

record ==
    /\ head # Off /\ Len(recorded) < MaxRecords
    /\ recorded' = Append(recorded, Len(recorded) + 1)
    /\ chan' = Append(chan, Len(recorded) + 1)
    /\ UNCHANGED <<auditMay, head, buffer, logFile, lost, casts, day, runs, kept>>

\* write_line, and prev moves on.
write_line ==
    /\ head # Off /\ chan # <<>>
    /\ chan' = Tail(chan)
    /\ logFile' = Flushed(logFile, Append(buffer, LineOf(NextId, Head(chan), head)))
    /\ buffer' = <<>>
    /\ head' = NextId
    /\ UNCHANGED <<auditMay, recorded, lost, casts, day, runs, kept>>

\* write_line failing: the flush leaves the line in the buffer, or the fsync
\* fails with the line in the file; prev stays.
WriteFails ==
    /\ "error" \in auditMay /\ head # Off /\ chan # <<>>
    /\ chan' = Tail(chan)
    /\ lost' = "line"
    /\ LET l == LineOf(NextId, Head(chan), head)
       IN  \/ buffer' = Append(buffer, l) /\ UNCHANGED logFile
           \/ logFile' = Flushed(logFile, Append(buffer, l)) /\ buffer' = <<>>
    /\ UNCHANGED <<auditMay, head, recorded, casts, day, runs, kept>>

\* The daily run of retention.
Daily ==
    /\ head # Off /\ day < MaxDay
    /\ day' = day + 1
    /\ run_cast_retention
    /\ UNCHANGED <<auditMay, chan, head, buffer, logFile, recorded, lost, runs>>

\* Drop: the channel closes, the thread drains it and ends.
DropAudit ==
    /\ head # Off /\ chan = <<>>
    /\ head' = Off
    /\ logFile' = Flushed(logFile, buffer)
    /\ buffer' = <<>>
    /\ UNCHANGED <<auditMay, chan, recorded, lost, casts, day, runs, kept>>

\* The process dies: what is in memory is gone, and the line being written is not
\* in the file, all there, or cut short.
LogCrash ==
    /\ "crash" \in auditMay /\ head # Off
    /\ head' = Off /\ chan' = <<>> /\ buffer' = <<>>
    /\ \/ /\ lost' = IF chan # <<>> /\ lost = "nothing" THEN "records" ELSE lost
          /\ UNCHANGED logFile
       \/ /\ chan # <<>> /\ logFile' = Flushed(logFile, Append(buffer, LineOf(NextId, Head(chan), head)))
          /\ lost' = IF Len(chan) > 1 /\ lost = "nothing" THEN "records" ELSE lost
       \/ /\ chan # <<>> /\ logFile' = Flushed(logFile, <<[LineOf(NextId, Head(chan), head) EXCEPT !.cut = TRUE]>>)
          /\ lost' = "line"
    /\ UNCHANGED <<auditMay, recorded, casts, day, runs, kept>>

AuditInit ==
    /\ auditMay \in AuditMay
    /\ chan = <<>> /\ head = Off /\ buffer = <<>> /\ logFile = <<>> /\ recorded = <<>>
    /\ lost = "nothing"
    /\ casts = DOMAIN Casts
    /\ day = 0 /\ runs = 0
    /\ kept = [casts |-> {}, gone |-> {}, failed |-> {}]

AuditNext ==
    \/ open \/ record \/ write_line \/ WriteFails \/ Daily \/ DropAudit \/ LogCrash

AuditSpec == AuditInit /\ [][AuditNext]_auditVars

----------------------------------------------------------------------------

\* As long as no write failed and no line was cut short, the chain verifies and its
\* records are in the order they were handed over, none of them twice, over any
\* number of runs and of crashes; if no crash took records from memory either, the
\* log holds every record that is no longer on its way.
LogIsWhole ==
    LET records == [i \in DOMAIN logFile |-> logFile[i].rec]
    IN  /\ lost # "line" => /\ verify(logFile) # Off
                            /\ \A i, j \in DOMAIN records : i < j => records[i] < records[j]
        /\ lost = "nothing" => records \o chan = recorded

\* Retention removes whole recordings from the oldest on: it never removes
\* one while keeping an older one it could have removed, and what it leaves is
\* within the limit, what could not be removed aside.
OldestGoFirst ==
    /\ \A c \in kept.casts \ kept.failed, g \in kept.gone : Casts[c].day >= Casts[g].day
    /\ Total(kept.casts \ kept.failed) <= MaxBytesKept

\* The audit log keeps every record it took, chained and in order, and what it
\* gives up of the recordings is the oldest.
AuditSound == LogIsWhole /\ OldestGoFirst
============================================================================
