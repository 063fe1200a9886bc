--------------------------- MODULE TranscriptView ---------------------------
(* How a session's rows reach a screen (client-ffi lib.rs transcript_delta, *)
(* views.rs; client-runtime view.rs): the decoded entries and the rows last *)
(* handed out are kept between calls, a call reads only what came since, and*)
(* answers with what changed. No lock is held while the loop answers a read,*)
(* so calls of two screens interleave between their steps.                  *)
EXTENDS Integers, Sequences, FiniteSets, SequencesExt

(* The rows a transcript is shown as (client-core presentation/             *)
(* display_entries.rs and activity.rs): tool activity collapses into groups,*)
(* a call carries its result, its diffs and the steps of the sub-agent it   *)
(* started, and cards carry their answer.                                   *)
(*                                                                          *)
(* An entry is [seq, kind, id, parent, task, live]: id is the call or the   *)
(* request an entry names, parent the call whose sub-agent wrote it, task a *)
(* background task, live whether that still runs, and of a call whether it  *)
(* starts a sub-agent. Wording, titles, counts of lines and the summary of  *)
(* a group are left out.                                                    *)
CONSTANTS
    NoId,
    FinishedAgentsShown, EndedTasksShown    \* activity.rs's two caps

Hidden == {"turn", "blank", "resolved"}
Cards == {"permission", "approval"}

OfKind(src, k) == { e \in ToSet(src) : e.kind = k }
CallIds(src) == { e.id : e \in OfKind(src, "call") }
IsHidden(e) == e.kind \in Hidden

\* The last entry of a kind that names an id, its seq; 0 for none.
LatestFor(src, k, id) ==
    LET at == { e.seq : e \in { x \in OfKind(src, k) : x.id = id } }
    IN  IF at = {} THEN 0 ELSE CHOOSE s \in at : \A t \in at : t <= s

\* collect_resolved and answered_at: the last resolution of a request, when it
\* came after the card; 0 while it is open.
answered_at(src, id, seq) ==
    LET at == LatestFor(src, "resolved", id) IN IF at > seq THEN at ELSE 0

----------------------------------------------------------------------------
(* Steps and rows. *)

\* Does the entry ride a call rather than stand by itself?
\* Mutant: a result stands by itself although its call is known.
RidesCallNotResult(src, e) ==
    /\ e.id \in CallIds(src)
    /\ \/ e.kind = "diff"
       \/ e.kind = "task" /\ e.live

RidesCall(src, e) ==
    /\ e.id \in CallIds(src)
    /\ \/ e.kind \in {"result", "diff"}
       \/ e.kind = "task" /\ e.live

\* The step of an entry, with what rides it. Diffs and the checklist go to the
\* first call with that id, the result and the task's state to all of them.
StepOf(src, e) ==
    LET mine == e.kind = "call"
        first == mine /\ \A x \in OfKind(src, "call") : x.id = e.id => e.seq <= x.seq
    IN  [seq |-> e.seq, kind |-> e.kind, id |-> e.id, agent |-> e.live,
         result |-> IF mine THEN LatestFor(src, "result", e.id) ELSE 0,
         diffs |-> IF first THEN { x.seq : x \in { y \in OfKind(src, "diff") : y.id = e.id } } ELSE {},
         todos |-> IF first THEN LatestFor(src, "todos", e.id) ELSE 0,
         task |-> IF mine THEN LatestFor(src, "task", e.id) ELSE 0,
         children |-> <<>>]

RowOf(src, e) ==
    [seq |-> e.seq, kind |-> e.kind,
     steps |-> <<>>,
     questions |-> {},
     answered |-> IF e.kind \in Cards THEN answered_at(src, e.id, e.seq) ELSE 0]

\* Builder: the rows so far and the open runs of steps and of questions.
Builder0 == [display |-> <<>>, steps |-> <<>>, asks |-> <<>>, children |-> <<>>]

flush_group(b) ==
    IF b.steps = <<>> THEN b
    ELSE [b EXCEPT !.display = Append(@, [seq |-> b.steps[1].seq, kind |-> "group", steps |-> b.steps,
                                          questions |-> {}, answered |-> 0]),
                   !.steps = <<>>]

flush_questions(src, b) ==
    IF b.asks = <<>> THEN b
    ELSE [b EXCEPT !.display = Append(@, [seq |-> b.asks[1].seq, kind |-> "question", steps |-> <<>>,
                                          questions |-> { q.seq : q \in ToSet(b.asks) },
                                          answered |-> answered_at(src, b.asks[1].id, b.asks[1].seq)]),
                   !.asks = <<>>]

flush_all(src, b) == flush_questions(src, flush_group(b))

push_step(src, b, step) == [flush_questions(src, b) EXCEPT !.steps = Append(@, step)]

\* An entry that is a step: of the sub-agent of a known call, or of the group.
IsStep(e) == \/ e.kind \in {"call", "result", "thinking"}
             \/ e.kind = "text" /\ e.parent # NoId

TakeStep(src, b, e) ==
    IF e.parent \in CallIds(src)
    THEN [b EXCEPT !.children = Append(@, [of |-> e.parent, step |-> StepOf(src, e)])]
    ELSE push_step(src, b, StepOf(src, e))

TakeQuestion(src, b, e) ==
    LET c == flush_group(b)
        d == IF c.asks # <<>> /\ c.asks[1].id = e.id THEN c ELSE flush_questions(src, c)
    IN  [d EXCEPT !.asks = Append(@, e)]

\* A run of entries this app does not know is said once.
TakeUnsupported(src, b, e) ==
    LET c == flush_all(src, b)
    IN  IF c.display # <<>> /\ Last(c.display).kind = "unsupported" THEN c
        ELSE [c EXCEPT !.display = Append(@, RowOf(src, e))]

TakeEntry(src, b, e) ==
    CASE IsHidden(e) \/ RidesCall(src, e) \/ e.kind = "todos" -> b
      [] IsStep(e) /\ ~ RidesCall(src, e) -> TakeStep(src, b, e)
      [] e.kind = "question" -> TakeQuestion(src, b, e)
      [] e.kind = "unsupported" -> TakeUnsupported(src, b, e)
      [] OTHER -> [flush_all(src, b) EXCEPT !.display = Append(@, RowOf(src, e))]

\* The steps a sub-agent made, under the call that started it, theirs too.
\* A call id used twice gives them to the first call reached.
RECURSIVE adopt(_, _)
adopt(steps, kids) ==
    [i \in DOMAIN steps |->
        LET s == steps[i]
            mine == SelectSeq(kids, LAMBDA k : k.of = s.id)
            rest == SelectSeq(kids, LAMBDA k : k.of # s.id)
        IN  IF s.kind # "call" \/ \E j \in 1..(i - 1) : steps[j].kind = "call" /\ steps[j].id = s.id THEN s
            ELSE [s EXCEPT !.children = adopt([k \in DOMAIN mine |-> mine[k].step], rest)]]

Adopted(steps, kids) == adopt(steps, kids)

build_display_entries(src) ==
    LET b == flush_all(src, FoldLeft(LAMBDA acc, e : TakeEntry(src, acc, e), Builder0, src))
    IN  [i \in DOMAIN b.display |->
            IF b.display[i].kind # "group" THEN b.display[i]
            ELSE [b.display[i] EXCEPT !.steps = Adopted(@, b.children)]]

\* The latest permission request still open and not answered here; 0 for none.
find_pending_permission(src, responded) ==
    LET open == { e \in OfKind(src, "permission") :
                    answered_at(src, e.id, e.seq) = 0 /\ e.id \notin responded }
    IN  IF open = {} THEN 0 ELSE CHOOSE s \in { e.seq : e \in open } : \A e \in open : e.seq <= s

----------------------------------------------------------------------------
(* The activity sheet. *)

\* Every live one, then the last few of the rest, in order.
keep_running_and_last(all, Live(_), ended) ==
    LET done == SelectSeq(all, LAMBDA x : ~ Live(x))
        skip == IF Len(done) > ended THEN Len(done) - ended ELSE 0
    IN  SelectSeq(all, Live) \o SubSeq(done, skip + 1, Len(done))

agents_of(rows) ==
    LET calls == FlattenSeq([i \in DOMAIN rows |->
                    SelectSeq(rows[i].steps, LAMBDA s : s.kind = "call" /\ s.agent)])
    IN  keep_running_and_last(calls, LAMBDA s : s.result = 0, FinishedAgentsShown)

\* Each background task as its latest entry says, in the order they started.
tasks_of(src) ==
    LET all == SelectSeq(src, LAMBDA e : e.kind = "task")
        same(e) == { x \in ToSet(all) : x.task = e.task }
        firsts == SelectSeq(all, LAMBDA e : \A x \in same(e) : e.seq <= x.seq)
        latest(e) == CHOOSE x \in same(e) : \A y \in same(e) : y.seq <= x.seq
    IN  keep_running_and_last([i \in DOMAIN firsts |-> latest(firsts[i])],
                              LAMBDA t : t.live, EndedTasksShown)

build_activity(src, rows) ==
    LET todos == { e.seq : e \in OfKind(src, "todos") }
    IN  [todos |-> IF todos = {} THEN 0 ELSE CHOOSE s \in todos : \A t \in todos : t <= s,
         agents |-> agents_of(rows), tasks |-> tasks_of(src)]

----------------------------------------------------------------------------
(* What the rows are checked for. *)

RECURSIVE SeqsIn(_)
SeqsIn(steps) ==
    UNION { {steps[i].seq, steps[i].result, steps[i].todos} \cup steps[i].diffs
              \cup SeqsIn(steps[i].children) : i \in DOMAIN steps }

\* The steps of a row and of the sub-agents in it, as a bag of seqs would have
\* them: how often each step is there.
RECURSIVE Times(_, _)
Times(steps, seq) ==
    FoldFunction(LAMBDA a, b : a + b, 0,
        [i \in DOMAIN steps |-> (IF steps[i].seq = seq THEN 1 ELSE 0) + Times(steps[i].children, seq)])

Shown(row) == ({row.seq, row.answered} \cup row.questions \cup SeqsIn(row.steps)) \ {0}
Keys(rows) == [i \in DOMAIN rows |-> rows[i].seq]

\* Entries that are shown elsewhere, or together with an earlier one of a run.
Elsewhere(src) ==
    { e.seq : e \in { x \in ToSet(src) : \/ IsHidden(x) \/ x.kind \in {"todos", "unsupported"}
                                         \/ x.kind = "task" /\ RidesCall(src, x)
                                         \/ x.kind = "result" /\ x.seq # LatestFor(src, "result", x.id) } }

------------------------------------------------------------------------------

CONSTANTS
    ScreenIds,      \* collectors of transcriptFlow
    ViewScenes,     \* [scripts: session -> entries in seq order, opens, forgets: bounds]
    NoView

VARIABLES
    viewScene,
    rowsOf,         \* session -> seqs in the row store, which is also its coverage
    entryCache,     \* TranscriptCache
    deltaBase,      \* TranscriptDeltaBase
    screens,        \* screen -> the collector and the copy it keeps
    opened, forgotten   \* counters, bounded

viewVars == <<viewScene, rowsOf, entryCache, deltaBase, screens, opened, forgotten>>

ViewSessions == DOMAIN viewScene.scripts
UpTo(seqs, high) == { n \in seqs : n <= high }
NewestIn(seqs) == IF seqs = {} THEN 0 ELSE CHOOSE n \in seqs : \A m \in seqs : m <= n
Entries(s, seqs) == SelectSeq(viewScene.scripts[s], LAMBDA e : e.seq \in seqs)

Closed == [session |-> NoView, since |-> 0, rows |-> <<>>, trigger |-> FALSE,
           phase |-> "idle", after |-> 0, view |-> NoView]

\* TranscriptRowsView::load: the rows past `after`, and the coverage.
load(s, after) ==
    [seqs |-> { n \in rowsOf[s] : n > after }, coverage |-> rowsOf[s], high |-> NewestIn(rowsOf[s])]

----------------------------------------------------------------------------

\* Where a read for this session may start.
resume_after(s) == IF entryCache # NoView /\ entryCache.session = s THEN entryCache.high ELSE 0

\* Mutant: a read is taken in although another call moved the cache on.
AbsorbableStale(s, view, after) ==
    \/ after = 0
    \/ /\ entryCache # NoView /\ entryCache.session = s
       /\ UpTo(view.coverage, after) = UpTo(entryCache.coverage, after)

\* TranscriptCache::absorb: do the rows continue what is kept?
Absorbable(s, view, after) ==
    \/ after = 0
    \/ /\ entryCache # NoView /\ entryCache.session = s /\ entryCache.high = after
       /\ UpTo(view.coverage, after) = entryCache.coverage

absorb(s, view, after) ==
    LET high == IF view.high > after THEN view.high ELSE after
    IN  [session |-> s, high |-> high, coverage |-> UpTo(view.coverage, high),
         seqs |-> IF after = 0 THEN view.seqs ELSE entryCache.seqs \cup view.seqs]

IsBase(s, since) ==
    deltaBase # NoView /\ since # 0 /\ deltaBase.revision = since /\ deltaBase.session = s

\* build_uniffi_transcript_delta, with rows whose keys are all different.
DeltaOf(s, rows, since) ==
    LET full == ~ IsBase(s, since)
        old == ToSet(deltaBase.rows)
        changed == IF full THEN rows ELSE SelectSeq(rows, LAMBDA r : r \notin old)
        same == ~ full /\ changed = <<>> /\ Len(deltaBase.rows) = Len(rows)
    IN  [revision |-> IF same THEN since ELSE (IF deltaBase = NoView THEN 0 ELSE deltaBase.revision) + 1,
         full |-> full, order |-> Keys(rows), changed |-> changed]

\* The screen applies a delta to its copy.
Patched(rows, d) ==
    LET row(k) == IF \E r \in ToSet(d.changed) : r.seq = k
                  THEN CHOOSE r \in ToSet(d.changed) : r.seq = k
                  ELSE CHOOSE r \in ToSet(rows) : r.seq = k
    IN  IF d.full THEN d.changed ELSE [i \in DOMAIN d.order |-> row(d.order[i])]

----------------------------------------------------------------------------

\* A row is stored: live, or a gap filled by a sync. Screens of the session
\* hear of it.
RowStored(s, n) ==
    /\ n \notin rowsOf[s]
    /\ rowsOf' = [rowsOf EXCEPT ![s] = @ \cup {n}]
    /\ screens' = [c \in ScreenIds |-> IF screens[c].session = s THEN [screens[c] EXCEPT !.trigger = TRUE]
                                       ELSE screens[c]]
    /\ UNCHANGED <<viewScene, entryCache, deltaBase, opened, forgotten>>

\* A session's rows are removed: every screen hears of it.
RowsRemoved(s) ==
    /\ forgotten < viewScene.forgets /\ rowsOf[s] # {}
    /\ forgotten' = forgotten + 1
    /\ rowsOf' = [rowsOf EXCEPT ![s] = {}]
    /\ screens' = [c \in ScreenIds |-> IF screens[c].session = NoView THEN screens[c]
                                       ELSE [screens[c] EXCEPT !.trigger = TRUE]]
    /\ UNCHANGED <<viewScene, entryCache, deltaBase, opened>>

\* A screen opens a session; a call it had under way is dropped.
ScreenOpens(c, s) ==
    /\ opened < viewScene.opens /\ screens[c].session # s
    /\ opened' = opened + 1
    /\ screens' = [screens EXCEPT ![c] = [Closed EXCEPT !.session = s, !.trigger = TRUE]]
    /\ UNCHANGED <<viewScene, rowsOf, entryCache, deltaBase, forgotten>>

\* transcript_delta starts: where to read from. Events that come from here on
\* are answered by one more call.
CallStarts(c) ==
    /\ screens[c].session # NoView /\ screens[c].phase = "idle" /\ screens[c].trigger
    /\ screens' = [screens EXCEPT ![c].trigger = FALSE, ![c].phase = "reading",
                                  ![c].after = resume_after(screens[c].session)]
    /\ UNCHANGED <<viewScene, rowsOf, entryCache, deltaBase, opened, forgotten>>

\* The loop answers the read.
LoopReads(c) ==
    /\ screens[c].phase = "reading"
    /\ screens' = [screens EXCEPT ![c].phase = "read", ![c].view = load(screens[c].session, screens[c].after)]
    /\ UNCHANGED <<viewScene, rowsOf, entryCache, deltaBase, opened, forgotten>>

\* The rest of the call, under the cache's lock: a read that does not continue
\* the cache is redone in full.
CallEnds(c) ==
    LET p == screens[c]
        kept == absorb(p.session, p.view, p.after)
        rows == build_display_entries(Entries(p.session, kept.seqs))
        d == DeltaOf(p.session, rows, p.since)
    IN
    /\ p.phase = "read"
    /\ IF Absorbable(p.session, p.view, p.after)
       THEN /\ entryCache' = kept
            /\ deltaBase' = [session |-> p.session, revision |-> d.revision, rows |-> rows]
            /\ screens' = [screens EXCEPT ![c].phase = "idle", ![c].view = NoView, ![c].after = 0,
                                          ![c].since = d.revision, ![c].rows = Patched(p.rows, d)]
       ELSE /\ screens' = [screens EXCEPT ![c].phase = "reading", ![c].view = NoView, ![c].after = 0]
            /\ UNCHANGED <<entryCache, deltaBase>>
    /\ UNCHANGED <<viewScene, rowsOf, opened, forgotten>>

ViewInit ==
    /\ viewScene \in ViewScenes
    /\ rowsOf = [s \in ViewSessions |-> {}]
    /\ entryCache = NoView /\ deltaBase = NoView
    /\ screens = [c \in ScreenIds |-> Closed]
    /\ opened = 0 /\ forgotten = 0

ViewNext ==
    \/ \E s \in ViewSessions :
         \/ \E e \in ToSet(viewScene.scripts[s]) : RowStored(s, e.seq)
         \/ RowsRemoved(s)
         \/ \E c \in ScreenIds : ScreenOpens(c, s)
    \/ \E c \in ScreenIds : CallStarts(c) \/ LoopReads(c) \/ CallEnds(c)

ViewSpec == ViewInit /\ [][ViewNext]_viewVars

----------------------------------------------------------------------------

\* A screen with no call under way and no event to answer shows exactly the
\* rows of what is stored for its session, whatever order rows were stored in
\* and whatever calls of another screen came in between.
ScreenIsCurrent ==
    \A c \in ScreenIds :
        LET p == screens[c]
        IN  p.session # NoView /\ p.phase = "idle" /\ ~ p.trigger
            => p.rows = build_display_entries(Entries(p.session, rowsOf[p.session]))

============================================================================
