-------------------------------- MODULE MCPhone --------------------------------
(***************************************************************************)
(* The phone's stores and screens for TLC.  They share no state that the   *)
(* properties speak of, so a behaviour plays one of them, in one of its    *)
(* scenes; "entries" builds the rows of every transcript grown from an     *)
(* alphabet of entries.                                                    *)
(***************************************************************************)
EXTENDS SessionList, Outbox, Attention, ClientLoop, LiveText, RowCache, Watching, TranscriptView

CONSTANTS
  Alphabet,   \* the entries the transcripts of "entries" are made of
  MaxLen      \* bound: their length

VARIABLES
  part,       \* what this behaviour plays
  src         \* the transcript whose rows are built

Shape(k, id, parent, task, live) == [kind |-> k, id |-> id, parent |-> parent, task |-> task, live |-> live]
Plain(k, id, parent) == Shape(k, id, parent, NoId, FALSE)

\* An agent call c, a call d inside it, and what can name either of them.
MCAlphabet ==
  {Shape("call", "c", NoId, NoId, TRUE), Shape("task", "c", NoId, "t", TRUE), Shape("task", "c", NoId, "t", FALSE)}
    \cup {Plain("call", "d", "c"), Plain("result", "c", NoId), Plain("diff", "d", "c"),
          Plain("text", NoId, NoId), Plain("text", NoId, "c"), Plain("thinking", NoId, "d"),
          Plain("question", "q", NoId), Plain("question", "r", NoId), Plain("permission", "p", NoId),
          Plain("resolved", "p", NoId), Plain("unsupported", NoId, NoId)}

Numbered(e, n) == [seq |-> n, kind |-> e.kind, id |-> e.id, parent |-> e.parent, task |-> e.task, live |-> e.live]

Grow(e) ==
  /\ Len(src) < MaxLen
  /\ e.kind = "call" => e.id \notin CallIds(src)
  /\ src' = Append(src, Numbered(e, Len(src) + 1))

Script(s) == [i \in DOMAIN s |-> Numbered(s[i], i)]
MCOne == Script(<<Plain("text", NoId, NoId), Plain("call", "c", NoId), Plain("result", "c", NoId)>>)
MCTwo == Script(<<Plain("permission", "p", NoId), Plain("resolved", "p", NoId)>>)
ViewScene(scripts, o, f) == [scripts |-> scripts, opens |-> o, forgets |-> f]

MCViewScenes ==
  {ViewScene([s \in {"s"} |-> MCOne], 2, 0), ViewScene([s \in {"s"} |-> MCTwo], 2, 1),
   ViewScene([s \in {"s", "t"} |-> MCTwo], 2, 0)}

\* Which of the two screens is which does not matter.
MCSymmetry == Permutations(ScreenIds)

ListScene(here, later, n, kept, may) == [here |-> here, later |-> later, lists |-> n, keep |-> kept, may |-> may]

MCListScenes ==
  {ListScene({"a"}, {}, 2, 2, {"shutdown"}),
   ListScene({"a"}, {}, 2, 1, {"elsewhere"}),
   ListScene({"a"}, {}, 1, 1, {"crash"}),
   ListScene({"a", "b"}, {}, 1, 1, {}),
   ListScene({}, {"a"}, 2, 1, {})}

AttScene(from, life, may) == [from |-> from, life |-> life, may |-> may]

MCAttScenes ==
  {AttScene("none", {"lists"}, {"again"}),
   AttScene("ready", {"asks", "finished", "lists"}, {"reorder"}),
   AttScene("ready", {"asks", "works", "lists", "deleted"}, {"lose"}),
   AttScene("ready", {"asks", "finished"}, {"again", "restart"}),
   AttScene("ready", {"finished"}, {"store error"}),
   AttScene("ready", {"finished", "lists"}, {"delete", "again"})}

MCLoopKinds == {a.kind : a \in AllArms} \cup {"ingested", "grant", "kill"}
MCLoopScenes == [kinds : {MCLoopKinds}, watch : {{s} : s \in Slices}]

MCReply == <<"t", "<", "u", "<", "m", ">", "v">>
Only(t) == [k \in {"k"} |-> t]
Both == [k \in {"k", "l"} |-> IF k = "k" THEN <<"t", "<", "m">> ELSE <<"<", "m", ">">>]

MCLiveScenes ==
  {[reply |-> Only(MCReply), may |-> {"lose", "watch"}], [reply |-> Only(MCReply), may |-> {"skip", "watch"}],
   [reply |-> Only(<<"t", "u", "<", "m", "x">>), may |-> {"again", "watch"}], [reply |-> Both, may |-> {"lose", "watch"}]}

MCRowScenes == {[calls |-> 4, old |-> {2}, may |-> {"fail"}]}

MCWatchScenes ==
  {[conn |-> "connected", acts |-> 4, faults |-> 0, may |-> {"hide", "terminal"}],
   [conn |-> "connecting", acts |-> 4, faults |-> 0, may |-> {"hide", "drop"}]}

-------------------------------------------------------------------------------
Played ==
  {"list", "outbox", "attention", "loop", "live", "rows", "watch",
   "view", "entries"}

Plays(p, scene, scenes) == part = p \/ scene = CHOOSE s \in scenes : TRUE

MCInit ==
  /\ part \in Played
  /\ ListInit /\ Plays("list", listScene, ListScenes)
  /\ OutboxInit
  /\ AttInit /\ Plays("attention", attScene, AttScenes)
  /\ LoopInit /\ Plays("loop", loopScene, LoopScenes)
  /\ LiveInit /\ Plays("live", liveScene, LiveScenes)
  /\ RowsInit /\ Plays("rows", rowScene, RowScenes)
  /\ WatchInit /\ Plays("watch", watchScene, WatchScenes)
  /\ ViewInit /\ Plays("view", viewScene, ViewScenes)
  /\ src = <<>>

MCNext ==
  /\ UNCHANGED part
  /\ \/ part = "list" /\ ListNext
        /\ UNCHANGED <<outboxVars, attVars, loopVars, liveVars, rowVars, watchVars, viewVars, src>>
     \/ part = "outbox" /\ OutboxNext
        /\ UNCHANGED <<listVars, attVars, loopVars, liveVars, rowVars, watchVars, viewVars, src>>
     \/ part = "attention" /\ AttNext
        /\ UNCHANGED <<listVars, outboxVars, loopVars, liveVars, rowVars, watchVars, viewVars, src>>
     \/ part = "loop" /\ LoopNext
        /\ UNCHANGED <<listVars, outboxVars, attVars, liveVars, rowVars, watchVars, viewVars, src>>
     \/ part = "live" /\ LiveNext
        /\ UNCHANGED <<listVars, outboxVars, attVars, loopVars, rowVars, watchVars, viewVars, src>>
     \/ part = "rows" /\ RowsNext
        /\ UNCHANGED <<listVars, outboxVars, attVars, loopVars, liveVars, watchVars, viewVars, src>>
     \/ part = "watch" /\ WatchNext
        /\ UNCHANGED <<listVars, outboxVars, attVars, loopVars, liveVars, rowVars, viewVars, src>>
     \/ part = "view" /\ ViewNext
        /\ UNCHANGED <<listVars, outboxVars, attVars, loopVars, liveVars, rowVars, watchVars, src>>
     \/ part = "entries" /\ (\E e \in Alphabet : Grow(e))
        /\ UNCHANGED <<listVars, outboxVars, attVars, loopVars, liveVars, rowVars, watchVars, viewVars>>

MCSpec ==
  MCInit /\ [][MCNext]_<<part, listVars, outboxVars, attVars, loopVars, liveVars, rowVars, watchVars, viewVars, src>>

-------------------------------------------------------------------------------
\* Every entry of a transcript is shown by exactly one row, or by the activity
\* bar or the card that takes it over; rows keep the order of the transcript, and
\* no step is listed twice in its turn, whatever calls, results, questions and
\* nested agents stand next to each other (build_display_entries).  A sub-agent or
\* a background task that runs is on the activity sheet, once (build_activity), and
\* the bar above the input names the last permission card the rows show as open
\* (find_pending_permission).
EachEntryOnce ==
  LET rs == build_display_entries(src)
      sheet == build_activity(src, rs)
      Runs(e) == \/ e.kind = "call" /\ e.live /\ e.parent \notin CallIds(src) /\ LatestFor(src, "result", e.id) = 0
                 \/ e.kind = "task" /\ e.live /\ \A x \in OfKind(src, "task") : x.task = e.task => x.seq <= e.seq
      open == {i \in DOMAIN rs : rs[i].kind = "permission" /\ rs[i].answered = 0}
  IN /\ \A e \in ToSet(src) : e.seq \notin Elsewhere(src) =>
          Cardinality({i \in DOMAIN rs : e.seq \in Shown(rs[i]) \ {rs[i].answered}}) = 1
     /\ \A i, j \in DOMAIN rs : i < j => rs[i].seq < rs[j].seq
     /\ \A i \in DOMAIN rs : \A e \in ToSet(src) : Times(rs[i].steps, e.seq) <= 1
     /\ \A e \in ToSet(src) : Runs(e) =>
          Cardinality({i \in DOMAIN (sheet.agents \o sheet.tasks) : (sheet.agents \o sheet.tasks)[i].seq = e.seq}) = 1
     /\ find_pending_permission(src, {}) = Max({rs[i].seq : i \in open} \cup {0})
===============================================================================
