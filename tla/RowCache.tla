------------------------------- MODULE RowCache -------------------------------
(***************************************************************************)
(* The phone's transcript store: a table of rows per session (SQLite), and *)
(* in front of it a cache of the rows of the session last read.  An        *)
(* operation takes effect on the table when it is called and on the cache  *)
(* when its answer is awaited; with a store whose answers are ready at     *)
(* once nothing comes between the two, with one that is really             *)
(* asynchronous other operations may.                                      *)
(***************************************************************************)
EXTENDS Naturals, TLAPS

CONSTANTS CacheSessions,
          MaxRow,          \* bound: sequence numbers 1..MaxRow
          RowScenes        \* records: calls (bound), old (rows that do not parse, from before), may (faults)

\* No session has the name the cache has while it is empty.
ASSUME CacheAssumption == "" \notin CacheSessions
ASSUME RowAssumption == MaxRow \in Nat

VARIABLES
  rowScene,
  table,       \* session -> the rows stored: a set of [seq, ok], ok while its JSON parses
  cache,       \* CachedSession, or NoCache
  generation,  \* bumped on every change of the cache
  flying,      \* operations called and not yet awaited
  called,      \* how many were called
  readAnswers      \* what the last read answered, and the rows stored when it was called (history)

rowVars == <<rowScene, table, cache, generation, flying, called, readAnswers>>
CachedSession(session, high, rows) == [session |-> session, high |-> high, rows |-> rows]
NoCache == CachedSession("", 0, {})
RowMay(what) == what \in rowScene.may
Seqs(rows) == {r.seq : r \in rows}
Upto(seqs, from, to) == {q \in seqs : from <= q /\ q <= to}
Readable(session) == Seqs({r \in table[session] : r.ok})
caches(session) == cache.session = session

RowsInit ==
  /\ rowScene \in RowScenes
  /\ table = [s \in CacheSessions |-> [seq : rowScene.old, ok : {FALSE}]] /\ cache = NoCache /\ generation = 0 /\ flying = {} /\ called = 0
  /\ readAnswers = [got |-> {}, stored |-> {}]

\* Calls one after another, unless the store is really asynchronous.
Call(op) ==
  /\ called < rowScene.calls /\ called' = called + 1
  /\ flying = {} \/ RowMay("async")
  /\ flying' = flying \cup {op}
CallLands(op) == op \in flying /\ flying' = flying \ {op} /\ UNCHANGED <<rowScene, table, called>>
set_cache(new) == cache' = new /\ generation' = generation + 1

\* Rows new to the table, in one transaction that may fail as a whole.
insert_rows(session, seqs) == seqs \ Seqs(table[session])
InsertIgnore(session, seqs) ==
  \E failed \in BOOLEAN :
  /\ failed => RowMay("fail")
  /\ LET new == IF failed THEN {} ELSE insert_rows(session, seqs)
     IN /\ Call([n |-> called, kind |-> "insert", session |-> session, started |-> generation, mirror |-> caches(session), inserted |-> new, failed |-> failed])
        /\ table' = [table EXCEPT ![session] = @ \cup [seq : new, ok : {TRUE}]]
  /\ UNCHANGED <<rowScene, cache, generation, readAnswers>>
\* The cache takes the rows below its `high`, unless it moved on meanwhile.
InsertLands(op) ==
  /\ CallLands(op) /\ op.kind = "insert"
  /\ IF op.failed \/ ~caches(op.session) THEN UNCHANGED <<cache, generation>>
     ELSE IF ~op.mirror \/ generation # op.started THEN set_cache(NoCache)
     ELSE set_cache([cache EXCEPT !.rows = @ \cup Upto(op.inserted, 1, cache.high)])
  /\ UNCHANGED readAnswers

\* Rows whose JSON does not parse are left out, and deleted.
query_range(session, from, to) == Upto(Readable(session), from, to)
Swept(session, from, to) == [table EXCEPT ![session] = {r \in @ : r.ok \/ r.seq < from \/ r.seq > to}]
\* A read the cache covers is answered from it; another fetches what is past
\* the cache's `high`, and only one from the start can build a cache.
ReadRange(session, from, to) ==
  LET hit == caches(session)
      first == IF hit THEN cache.high + 1 ELSE 1
      lowest == IF first > from THEN first ELSE from
  IN /\ IF hit /\ to <= cache.high
        THEN /\ Call([n |-> called, kind |-> "done"]) /\ readAnswers' = [got |-> Upto(cache.rows, from, to), stored |-> query_range(session, from, to)]
             /\ UNCHANGED table
        ELSE IF ~hit /\ from # 1
        THEN /\ Call([n |-> called, kind |-> "done"]) /\ table' = Swept(session, from, to)
             /\ readAnswers' = [got |-> query_range(session, from, to), stored |-> query_range(session, from, to)]
        ELSE /\ Call([n |-> called, kind |-> "read", session |-> session, from |-> from, to |-> to, first |-> first, started |-> generation,
                      cached |-> IF hit THEN Upto(cache.rows, from, cache.high) ELSE {}, fetched |-> query_range(session, lowest, to),
                      stored |-> query_range(session, from, to)])
             /\ table' = Swept(session, lowest, to) /\ UNCHANGED readAnswers
     /\ UNCHANGED <<rowScene, cache, generation>>
\* Mutant: a read that skips rows past the cache's `high` extends it too.
MayCacheAny(op) == generation = op.started
MayCache(op) == generation = op.started /\ op.from <= op.first
ReadLands(op) ==
  /\ CallLands(op) /\ op.kind = "read"
  /\ IF MayCache(op)
     THEN set_cache(CachedSession(op.session, op.to, (IF caches(op.session) THEN cache.rows ELSE {}) \cup op.fetched))
     ELSE UNCHANGED <<cache, generation>>
  /\ readAnswers' = [got |-> op.cached \cup op.fetched, stored |-> op.stored]
DoneLands(op) == CallLands(op) /\ op.kind = "done" /\ UNCHANGED <<cache, generation, readAnswers>>

remove(session) ==
  /\ Call([n |-> called, kind |-> "done"]) /\ table' = [table EXCEPT ![session] = {}]
  /\ IF caches(session) THEN set_cache(NoCache) ELSE UNCHANGED <<cache, generation>>
  /\ UNCHANGED <<rowScene, readAnswers>>
\* The stored seqs, from which the ranges to ask for are computed: the
\* unreadable rows go first.
query_seqs(session) ==
  /\ Call([n |-> called, kind |-> "done"])
  /\ table' = [table EXCEPT ![session] = {r \in @ : r.ok}]
  /\ UNCHANGED <<rowScene, cache, generation, readAnswers>>

RowsNext ==
  \/ \E s \in CacheSessions :
       \/ \E seqs \in SUBSET (1..MaxRow) \ {{}} : InsertIgnore(s, seqs)
       \/ \E from, to \in 1..MaxRow : ReadRange(s, from, to)
       \/ remove(s) \/ query_seqs(s)
  \/ \E op \in flying : InsertLands(op) \/ ReadLands(op) \/ DoneLands(op)
RowsSpec == RowsInit /\ [][RowsNext]_rowVars

-----------------------------------------------------------------------------
\* "The cache is exact, not a guess: it holds every stored row of its session
\* with `seq <= high`": whenever no operation is under way the cached rows are
\* the readable rows of the table up to the cache's `high`.
CacheExact ==
  (flying = {} /\ cache # NoCache) => cache.rows = Upto(Readable(cache.session), 1, cache.high)

\* With a store whose answers are ready at once a read, cached, extended or
\* fetched, answers with exactly the rows stored when it was called, and leaves
\* an exact cache.
ReadsExact == CacheExact /\ readAnswers.got = readAnswers.stored

(***************************************************************************)
(* Reads are exact, for any sessions and rows, when the store answers at   *)
(* once: what has to be carried along is what the one operation under way  *)
(* will do to the cache.                                                   *)
(***************************************************************************)
Sequential == \A scene \in RowScenes : "async" \notin scene.may

Exact(session, high, cached) == cached = Upto(Readable(session), 1, high)

\* The cache, or what it will be, is exact.
CacheFits ==
  cache # NoCache => cache.session \in CacheSessions /\ cache.high \in Nat /\ Exact(cache.session, cache.high, cache.rows)

InsertFits(op) ==
  /\ op.session \in CacheSessions
  /\ op.started = generation /\ (op.mirror <=> caches(op.session))
  /\ cache # NoCache => cache.session \in CacheSessions /\ cache.high \in Nat
  /\ IF op.failed \/ ~ caches(op.session) THEN CacheFits
     ELSE Exact(cache.session, cache.high, cache.rows \cup Upto(op.inserted, 1, cache.high))

ReadFits(op) ==
  /\ op.session \in CacheSessions /\ op.to \in Nat
  /\ op.cached \cup op.fetched = op.stored
  /\ MayCache(op) => Exact(op.session, op.to, (IF caches(op.session) THEN cache.rows ELSE {}) \cup op.fetched)
  /\ CacheFits

OpFits(op) ==
  \/ op.kind = "insert" /\ InsertFits(op)
  \/ op.kind = "read" /\ ReadFits(op)
  \/ op.kind = "done" /\ CacheFits

RowInv ==
  /\ rowScene \in RowScenes
  /\ DOMAIN table = CacheSessions /\ (\A s \in CacheSessions : Readable(s) \subseteq Nat)
  /\ cache = CachedSession(cache.session, cache.high, cache.rows)
  /\ readAnswers.got = readAnswers.stored
  /\ flying = {} => CacheFits
  /\ \A op \in flying : flying = {op} /\ OpFits(op)

\* Rows that do not parse are swept without a change to what can be read.
LEMMA SweptReads ==
  ASSUME NEW s \in CacheSessions, DOMAIN table = CacheSessions, NEW from, NEW to,
         table' = Swept(s, from, to) \/ table' = [table EXCEPT ![s] = {r \in @ : r.ok}] \/ table' = table
  PROVE  DOMAIN table' = CacheSessions /\ \A t \in CacheSessions : Readable(t)' = Readable(t)
<1>1. DOMAIN table' = CacheSessions
  BY DEF Swept
<1>2. \A t \in CacheSessions : {r \in table'[t] : r.ok} = {r \in table[t] : r.ok}
  <2>. TAKE t \in CacheSessions
  <2>1. CASE t # s
    BY <2>1 DEF Swept
  <2>2. CASE t = s /\ table' = Swept(s, from, to)
    <3>1. table'[t] = {r \in table[t] : r.ok \/ r.seq < from \/ r.seq > to}
      BY <2>2 DEF Swept
    <3>. QED  BY <3>1
  <2>3. CASE t = s /\ table' = [table EXCEPT ![s] = {r \in @ : r.ok}]
    <3>1. table'[t] = {r \in table[t] : r.ok}
      BY <2>3
    <3>. QED  BY <3>1
  <2>4. CASE table' = table
    BY <2>4
  <2>. QED  BY <2>1, <2>2, <2>3, <2>4
<1>. QED  BY <1>1, <1>2 DEF Readable

\* The empty cache is no session's.
LEMMA CachesSome ==
  ASSUME NEW s \in CacheSessions, caches(s)
  PROVE  cache.session = s /\ cache # NoCache
<1>1. NoCache.session = ""
  BY DEF NoCache, CachedSession
<1>2. cache.session = s /\ s # ""
  BY CacheAssumption DEF caches
<1>. QED  BY <1>1, <1>2

\* What the cache holds is exact as long as its session reads the same.
LEMMA FitsStill ==
  ASSUME CacheFits, UNCHANGED cache,
         \A t \in CacheSessions : caches(t) => Readable(t)' = Readable(t)
  PROVE  CacheFits'
<1>. SUFFICES ASSUME cache # NoCache
              PROVE  cache.session \in CacheSessions /\ cache.high \in Nat /\ Exact(cache.session, cache.high, cache.rows)'
  BY DEF CacheFits, NoCache, CachedSession
<1>1. cache.session \in CacheSessions /\ cache.high \in Nat /\ Exact(cache.session, cache.high, cache.rows)
  BY DEF CacheFits
<1>2. PICK t \in CacheSessions : t = cache.session
  BY <1>1
<1>3. Readable(t)' = Readable(t)
  BY <1>2 DEF caches
<1>. QED  BY <1>1, <1>2, <1>3 DEF Exact

\* A call finds nothing under way.
LEMMA CallsAlone ==
  ASSUME RowInv, Sequential, NEW op, Call(op)
  PROVE  flying = {} /\ flying' = {op} /\ CacheFits
BY DEF RowInv, Sequential, Call, RowMay

\* Landing leaves nothing under way.
LEMMA LandsAlone ==
  ASSUME RowInv, NEW op \in flying, CallLands(op)
  PROVE  flying' = {} /\ OpFits(op) /\ UNCHANGED <<rowScene, table>>
BY DEF RowInv, CallLands

\* What every operation keeps.
LEMMA RowsKeep ==
  ASSUME RowInv, UNCHANGED rowScene, DOMAIN table' = CacheSessions, \A s \in CacheSessions : Readable(s)' \subseteq Nat,
         cache' = CachedSession(cache'.session, cache'.high, cache'.rows),
         readAnswers'.got = readAnswers'.stored,
         \/ flying' = {} /\ CacheFits'
         \/ \E op : flying' = {op} /\ OpFits(op)'
  PROVE  RowInv'
BY DEF RowInv

(* insert_ignore is called: the rows go into the table, and the cache is told when the call lands. *)
LEMMA InsertKeeps ==
  ASSUME RowInv, Sequential, NEW s \in CacheSessions, NEW seqs \in SUBSET (1..MaxRow), InsertIgnore(s, seqs)
  PROVE  RowInv'
<1>1. PICK failed \in BOOLEAN :
        LET new == IF failed THEN {} ELSE insert_rows(s, seqs)
        IN /\ Call([n |-> called, kind |-> "insert", session |-> s, started |-> generation, mirror |-> caches(s), inserted |-> new, failed |-> failed])
           /\ table' = [table EXCEPT ![s] = @ \cup [seq : new, ok : {TRUE}]]
  BY DEF InsertIgnore
<1>2. UNCHANGED <<rowScene, cache, generation, readAnswers>>
  BY DEF InsertIgnore
<1>3. PICK new : new = IF failed THEN {} ELSE insert_rows(s, seqs)
  OBVIOUS
<1>4. PICK op : op = [n |-> called, kind |-> "insert", session |-> s, started |-> generation, mirror |-> caches(s), inserted |-> new, failed |-> failed]
  OBVIOUS
<1>5. Call(op) /\ table' = [table EXCEPT ![s] = @ \cup [seq : new, ok : {TRUE}]] /\ DOMAIN table = CacheSessions
  BY <1>1, <1>3, <1>4 DEF RowInv
<1>6. op.kind = "insert" /\ op.session = s /\ op.started = generation
      /\ op.inserted = new /\ (failed => new = {})
  BY <1>3, <1>4
<1>7. (op.mirror <=> caches(s)) /\ (op.failed <=> failed)
  BY <1>4
<1>8. flying' = {op} /\ CacheFits
  BY <1>5, CallsAlone
<1>9. DOMAIN table' = CacheSessions /\ \A t \in CacheSessions : t # s => Readable(t)' = Readable(t)
  BY <1>5 DEF Readable
<1>10. Readable(s)' = Readable(s) \cup new
  <2>1. table'[s] = table[s] \cup [seq : new, ok : {TRUE}]
    BY <1>5
  <2>2. {r \in table'[s] : r.ok} = {r \in table[s] : r.ok} \cup [seq : new, ok : {TRUE}]
    BY <2>1
  <2>3. Seqs([seq : new, ok : {TRUE}]) = new
    <3>1. \A x \in new : [seq |-> x, ok |-> TRUE] \in [seq : new, ok : {TRUE}]
      OBVIOUS
    <3>2. \A x \in new : [seq |-> x, ok |-> TRUE].seq = x
      OBVIOUS
    <3>3. \A r \in [seq : new, ok : {TRUE}] : r.seq \in new
      OBVIOUS
    <3>4. new \subseteq Seqs([seq : new, ok : {TRUE}])
      BY <3>1, <3>2 DEF Seqs
    <3>. QED  BY <3>3, <3>4 DEF Seqs
  <2>4. Readable(s)' = Seqs({r \in table[s] : r.ok} \cup [seq : new, ok : {TRUE}])
    BY <2>2 DEF Readable, Seqs
  <2>5. \A A, B : Seqs(A \cup B) = Seqs(A) \cup Seqs(B)
    BY DEF Seqs
  <2>6. Readable(s) = Seqs({r \in table[s] : r.ok})
    BY DEF Readable
  <2>7. Readable(s)' = Seqs({r \in table[s] : r.ok}) \cup Seqs([seq : new, ok : {TRUE}])
    BY <2>4, <2>5, Zenon
  <2>. QED  BY <2>3, <2>6, <2>7
<1>11. \A t \in CacheSessions : Readable(t)' \subseteq Nat
  <2>1. new \subseteq Nat
    <3>1. new \subseteq seqs
      BY <1>3 DEF insert_rows
    <3>2. seqs \subseteq Nat
      BY RowAssumption
    <3>. QED  BY <3>1, <3>2
  <2>. QED  BY <1>9, <1>10, <2>1 DEF RowInv
<1>12. CASE failed \/ ~ caches(s)
  <2>1. CacheFits'
    <3>1. \A t \in CacheSessions : caches(t) => Readable(t)' = Readable(t)
      BY <1>6, <1>9, <1>10, <1>12
    <3>. QED  BY <1>2, <1>8, <3>1, FitsStill
  <2>2. InsertFits(op)'
    <3>1. (cache # NoCache => cache.session \in CacheSessions /\ cache.high \in Nat)'
      BY <2>1 DEF CacheFits
    <3>2. (op.failed \/ ~ caches(op.session))'
      BY <1>2, <1>6, <1>7, <1>12 DEF caches
    <3>. QED  BY <1>2, <1>6, <1>7, <2>1, <3>1, <3>2 DEF InsertFits, caches
  <2>3. OpFits(op)'
    BY <1>6, <2>2 DEF OpFits
  <2>. QED  BY <1>2, <1>8, <1>9, <1>11, <2>3, RowsKeep DEF RowInv
<1>13. CASE ~ failed /\ caches(s)
  <2>1. cache.session = s /\ cache # NoCache
    BY <1>13, CachesSome
  <2>2. Exact(s, cache.high, cache.rows) /\ cache.high \in Nat
    BY <1>8, <2>1 DEF CacheFits
  <2>3. Exact(s, cache.high, cache.rows \cup Upto(new, 1, cache.high))'
    BY <1>2, <1>10, <2>2 DEF Exact, Upto
  <2>4. InsertFits(op)'
    BY <1>2, <1>6, <1>7, <1>13, <2>1, <2>2, <2>3 DEF InsertFits, caches
  <2>5. OpFits(op)'
    BY <1>6, <2>4 DEF OpFits
  <2>. QED  BY <1>2, <1>8, <1>9, <1>11, <2>5, RowsKeep DEF RowInv
<1>. QED  BY <1>12, <1>13

(* An insert lands: the cache takes the rows it wrote. *)
LEMMA InsertLandsKeeps ==
  ASSUME RowInv, NEW op \in flying, InsertLands(op)
  PROVE  RowInv'
<1>1. flying' = {} /\ UNCHANGED <<rowScene, table, readAnswers>> /\ op.kind = "insert" /\ InsertFits(op)
  <2>1. CallLands(op) /\ op.kind = "insert" /\ UNCHANGED readAnswers
    BY DEF InsertLands
  <2>2. flying' = {} /\ OpFits(op) /\ UNCHANGED <<rowScene, table>>
    BY <2>1, LandsAlone
  <2>. QED  BY <2>1, <2>2 DEF OpFits
<1>2. DOMAIN table' = CacheSessions /\ \A t \in CacheSessions : Readable(t)' = Readable(t) /\ Readable(t)' \subseteq Nat
  BY <1>1 DEF RowInv, Readable
<1>3. CASE op.failed \/ ~ caches(op.session)
  <2>1. UNCHANGED cache
    BY <1>3 DEF InsertLands
  <2>2. CacheFits'
    BY <1>1, <1>2, <1>3, <2>1 DEF InsertFits, CacheFits, Exact
  <2>. QED  BY <1>1, <1>2, <2>1, <2>2, RowsKeep DEF RowInv
<1>4. CASE ~ (op.failed \/ ~ caches(op.session))
  <2>. DEFINE grown == cache.rows \cup Upto(op.inserted, 1, cache.high)
  <2>1. cache' = [cache EXCEPT !.rows = grown]
    BY <1>1, <1>4 DEF InsertLands, InsertFits, set_cache
  <2>2. Exact(cache.session, cache.high, grown)
    BY <1>1, <1>4 DEF InsertFits
  <2>3. cache # NoCache
    BY <1>1, <1>4, CachesSome DEF InsertFits
  <2>4. cache.session \in CacheSessions /\ cache.high \in Nat
    BY <1>1, <2>3 DEF InsertFits
  <2>. HIDE DEF grown
  <2>5. cache' = CachedSession(cache.session, cache.high, grown)
    <3>1. cache = [session |-> cache.session, high |-> cache.high, rows |-> cache.rows]
      BY DEF RowInv, CachedSession
    <3>. QED  BY <2>1, <3>1 DEF CachedSession
  <2>6. cache'.session = cache.session /\ cache'.high = cache.high /\ cache'.rows = grown
    BY <2>5 DEF CachedSession
  <2>7. CacheFits'
    BY <1>2, <2>2, <2>4, <2>6 DEF CacheFits, Exact
  <2>. QED  BY <1>1, <1>2, <2>5, <2>6, <2>7, RowsKeep DEF RowInv
<1>. QED  BY <1>3, <1>4

(* A read of the database lands: it answers and fills the cache. *)
LEMMA ReadLandsKeeps ==
  ASSUME RowInv, NEW op \in flying, ReadLands(op)
  PROVE  RowInv'
<1>1. flying' = {} /\ UNCHANGED <<rowScene, table>> /\ op.kind = "read" /\ ReadFits(op)
  <2>1. CallLands(op) /\ op.kind = "read"
    BY DEF ReadLands
  <2>2. flying' = {} /\ OpFits(op) /\ UNCHANGED <<rowScene, table>>
    BY <2>1, LandsAlone
  <2>. QED  BY <2>1, <2>2 DEF OpFits
<1>2. DOMAIN table' = CacheSessions /\ \A t \in CacheSessions : Readable(t)' = Readable(t) /\ Readable(t)' \subseteq Nat
  BY <1>1 DEF RowInv, Readable
<1>3. readAnswers'.got = readAnswers'.stored
  BY <1>1 DEF ReadLands, ReadFits
<1>4. CASE MayCache(op)
  <2>. DEFINE all == (IF caches(op.session) THEN cache.rows ELSE {}) \cup op.fetched
  <2>1. cache' = CachedSession(op.session, op.to, all)
    BY <1>4 DEF ReadLands, set_cache
  <2>2. Exact(op.session, op.to, all) /\ op.session \in CacheSessions /\ op.to \in Nat
    BY <1>1, <1>4 DEF ReadFits
  <2>. HIDE DEF all
  <2>3. cache'.session = op.session /\ cache'.high = op.to /\ cache'.rows = all
    BY <2>1 DEF CachedSession
  <2>4. CacheFits'
    BY <1>2, <2>2, <2>3 DEF CacheFits, Exact
  <2>. QED  BY <1>1, <1>2, <1>3, <2>1, <2>3, <2>4, RowsKeep
<1>5. CASE ~ MayCache(op)
  <2>1. UNCHANGED cache
    BY <1>5 DEF ReadLands
  <2>2. CacheFits'
    BY <1>1, <1>2, <2>1 DEF ReadFits, CacheFits, Exact
  <2>. QED  BY <1>1, <1>2, <1>3, <2>1, <2>2, RowsKeep DEF RowInv
<1>. QED  BY <1>4, <1>5

(* A call that leaves the cache alone lands. *)
LEMMA DoneLandsKeeps ==
  ASSUME RowInv, NEW op \in flying, DoneLands(op)
  PROVE  RowInv'
<1>1. flying' = {} /\ UNCHANGED <<rowScene, table, cache, readAnswers>> /\ CacheFits
  <2>1. CallLands(op) /\ op.kind = "done" /\ UNCHANGED <<cache, readAnswers>>
    BY DEF DoneLands
  <2>2. flying' = {} /\ OpFits(op) /\ UNCHANGED <<rowScene, table>>
    BY <2>1, LandsAlone
  <2>. QED  BY <2>1, <2>2 DEF OpFits
<1>2. DOMAIN table' = CacheSessions /\ \A t \in CacheSessions : Readable(t)' = Readable(t) /\ Readable(t)' \subseteq Nat
  BY <1>1 DEF RowInv, Readable
<1>3. CacheFits'
  BY <1>1, <1>2, FitsStill
<1>. QED  BY <1>1, <1>2, <1>3, RowsKeep DEF RowInv

\* An operation that answers at once: nothing is left to land but its end.
LEMMA DoneKeeps ==
  ASSUME RowInv, Sequential, Call([n |-> called, kind |-> "done"]), UNCHANGED rowScene,
         DOMAIN table' = CacheSessions, \A s \in CacheSessions : Readable(s)' \subseteq Nat,
         cache' = CachedSession(cache'.session, cache'.high, cache'.rows),
         readAnswers'.got = readAnswers'.stored, CacheFits'
  PROVE  RowInv'
<1>1. PICK op : op = [n |-> called, kind |-> "done"]
  OBVIOUS
<1>2. flying' = {op} /\ op.kind = "done"
  BY <1>1, CallsAlone
<1>3. OpFits(op)'
  BY <1>2 DEF OpFits
<1>. QED  BY <1>2, <1>3, RowsKeep

(* A read, answered from the cache or begun at the database. *)
LEMMA ReadKeeps ==
  ASSUME RowInv, Sequential, NEW s \in CacheSessions, NEW from \in 1..MaxRow, NEW to \in 1..MaxRow, ReadRange(s, from, to)
  PROVE  RowInv'
<1>1. Readable(s) \subseteq Nat
  BY DEF RowInv
<1>2. PICK first : first = IF caches(s) THEN cache.high + 1 ELSE 1
  OBVIOUS
<1>3. PICK lowest : lowest = IF first > from THEN first ELSE from
  OBVIOUS
<1>4. UNCHANGED <<rowScene, cache, generation>>
  BY DEF ReadRange
<1>5. CacheFits /\ DOMAIN table = CacheSessions /\ cache = CachedSession(cache.session, cache.high, cache.rows)
      /\ readAnswers.got = readAnswers.stored
  BY CallsAlone DEF ReadRange, RowInv
<1>6. ASSUME NEW lo, table' = table \/ table' = Swept(s, lo, to)
      PROVE  DOMAIN table' = CacheSessions /\ (\A t \in CacheSessions : Readable(t)' \subseteq Nat) /\ CacheFits'
  <2>1. DOMAIN table' = CacheSessions /\ (\A t \in CacheSessions : Readable(t)' = Readable(t))
    BY <1>5, <1>6, SweptReads
  <2>2. \A t \in CacheSessions : Readable(t)' \subseteq Nat
    BY <2>1 DEF RowInv
  <2>. QED  BY <1>4, <1>5, <2>1, <2>2, FitsStill
<1>7. from \in Nat /\ to \in Nat /\ from >= 1
  BY RowAssumption
<1>8. caches(s) => cache.high \in Nat /\ Exact(s, cache.high, cache.rows)
  BY <1>5, CachesSome DEF CacheFits
<1>9. CASE caches(s) /\ to <= cache.high
  <2>1. Call([n |-> called, kind |-> "done"]) /\ UNCHANGED table
        /\ readAnswers' = [got |-> Upto(cache.rows, from, to), stored |-> query_range(s, from, to)]
    BY <1>9 DEF ReadRange
  <2>2. Upto(cache.rows, from, to) = query_range(s, from, to)
    <3>1. cache.rows = {q \in Readable(s) : 1 <= q /\ q <= cache.high}
      BY <1>8, <1>9 DEF Exact, Upto
    <3>. QED  BY <1>1, <1>7, <1>8, <1>9, <3>1 DEF Upto, query_range
  <2>3. DOMAIN table' = CacheSessions /\ (\A t \in CacheSessions : Readable(t)' \subseteq Nat) /\ CacheFits'
    BY <1>6, <2>1
  <2>. QED  BY <1>4, <1>5, <2>1, <2>2, <2>3, DoneKeeps
<1>10. CASE ~ caches(s) /\ from # 1
  <2>1. Call([n |-> called, kind |-> "done"]) /\ table' = Swept(s, from, to)
        /\ readAnswers' = [got |-> query_range(s, from, to), stored |-> query_range(s, from, to)]
    BY <1>10 DEF ReadRange
  <2>2. DOMAIN table' = CacheSessions /\ (\A t \in CacheSessions : Readable(t)' \subseteq Nat) /\ CacheFits'
    BY <1>6, <2>1
  <2>3. readAnswers'.got = readAnswers'.stored
    BY <2>1
  <2>. QED  BY <1>4, <1>5, <2>1, <2>2, <2>3, DoneKeeps
<1>11. CASE /\ caches(s) => to > cache.high
            /\ ~ caches(s) => from = 1
  <2>1. PICK op : op = [n |-> called, kind |-> "read", session |-> s, from |-> from, to |-> to, first |-> first, started |-> generation,
                        cached |-> IF caches(s) THEN Upto(cache.rows, from, cache.high) ELSE {},
                        fetched |-> query_range(s, lowest, to), stored |-> query_range(s, from, to)]
    OBVIOUS
  <2>2. Call(op) /\ table' = Swept(s, lowest, to) /\ UNCHANGED readAnswers
    <3>1. ~ (caches(s) /\ to <= cache.high) /\ ~ (~ caches(s) /\ from # 1)
      BY <1>7, <1>8, <1>11
    <3>. QED  BY <1>2, <1>3, <2>1, <3>1 DEF ReadRange
  <2>3. flying' = {op}
    BY <2>2, CallsAlone
  <2>4. DOMAIN table' = CacheSessions /\ (\A t \in CacheSessions : Readable(t)' \subseteq Nat) /\ CacheFits'
        /\ Readable(s)' = Readable(s)
    BY <1>5, <1>6, <2>2, SweptReads
  <2>5. op.kind = "read" /\ op.session = s /\ op.from = from /\ op.to = to /\ op.first = first
        /\ op.cached = (IF caches(s) THEN Upto(cache.rows, from, cache.high) ELSE {})
        /\ op.fetched = query_range(s, lowest, to) /\ op.stored = query_range(s, from, to)
    BY <2>1
  <2>6. op.cached \cup op.fetched = op.stored
    <3>1. CASE caches(s)
      <4>1. cache.rows = {q \in Readable(s) : 1 <= q /\ q <= cache.high}
        BY <1>8, <3>1 DEF Exact, Upto
      <4>2. op.cached = {q \in Readable(s) : from <= q /\ q <= cache.high}
        BY <1>1, <1>7, <1>8, <2>5, <3>1, <4>1 DEF Upto
      <4>3. first = cache.high + 1 /\ to > cache.high /\ cache.high \in Nat
        BY <1>2, <1>8, <1>11, <3>1
      <4>4. lowest = IF cache.high + 1 > from THEN cache.high + 1 ELSE from
        BY <1>3, <4>3
      <4>. QED  BY <1>1, <1>7, <2>5, <4>2, <4>3, <4>4 DEF query_range, Upto
    <3>2. CASE ~ caches(s)
      <4>1. from = 1 /\ lowest = 1
        BY <1>2, <1>3, <1>11, <3>2
      <4>. QED  BY <2>5, <3>2, <4>1
    <3>. QED  BY <3>1, <3>2
  <2>7. MayCache(op) => Exact(s, to, (IF caches(s) THEN cache.rows ELSE {}) \cup op.fetched)
    <3>. SUFFICES ASSUME from <= first
                  PROVE  (IF caches(s) THEN cache.rows ELSE {}) \cup op.fetched = {q \in Readable(s) : 1 <= q /\ q <= to}
      BY <2>5 DEF MayCache, Exact, Upto
    <3>1. CASE caches(s)
      <4>1. cache.rows = {q \in Readable(s) : 1 <= q /\ q <= cache.high}
        BY <1>8, <3>1 DEF Exact, Upto
      <4>2. first = cache.high + 1 /\ to > cache.high /\ cache.high \in Nat
        BY <1>2, <1>8, <1>11, <3>1
      <4>3. lowest = cache.high + 1
        BY <1>3, <1>7, <4>2
      <4>4. op.fetched = {q \in Readable(s) : cache.high + 1 <= q /\ q <= to}
        BY <2>5, <4>3 DEF query_range, Upto
      <4>. QED  BY <1>1, <1>7, <3>1, <4>1, <4>2, <4>4
    <3>2. CASE ~ caches(s)
      <4>1. lowest = 1
        BY <1>2, <1>3, <1>11, <3>2
      <4>. QED  BY <2>5, <3>2, <4>1 DEF query_range, Upto
    <3>. QED  BY <3>1, <3>2
  <2>8. ReadFits(op)'
    <3>1. MayCache(op)' <=> MayCache(op)
      BY <1>4 DEF MayCache
    <3>2. caches(s)' <=> caches(s)
      BY <1>4 DEF caches
    <3>3. Exact(s, to, (IF caches(s) THEN cache.rows ELSE {}) \cup op.fetched)' <=> Exact(s, to, (IF caches(s) THEN cache.rows ELSE {}) \cup op.fetched)
      BY <1>4, <2>4, <3>2 DEF Exact
    <3>. QED  BY <1>7, <2>4, <2>5, <2>6, <2>7, <3>1, <3>3 DEF ReadFits
  <2>9. OpFits(op)'
    BY <2>5, <2>8 DEF OpFits
  <2>. QED  BY <1>4, <1>5, <2>2, <2>3, <2>4, <2>9, RowsKeep
<1>. QED  BY <1>7, <1>8, <1>9, <1>10, <1>11

(* A session is removed, and the cache with it; its seqs are asked for. *)
LEMMA RemoveKeeps ==
  ASSUME RowInv, Sequential, NEW s \in CacheSessions, remove(s) \/ query_seqs(s)
  PROVE  RowInv'
<1>1. /\ Call([n |-> called, kind |-> "done"]) /\ UNCHANGED <<rowScene, readAnswers>>
      /\ CacheFits /\ DOMAIN table = CacheSessions /\ cache = CachedSession(cache.session, cache.high, cache.rows)
  BY CallsAlone DEF remove, query_seqs, RowInv
<1>2. CASE query_seqs(s)
  <2>1. table' = [table EXCEPT ![s] = {r \in @ : r.ok}] /\ UNCHANGED cache
    BY <1>2 DEF query_seqs
  <2>2. DOMAIN table' = CacheSessions /\ \A t \in CacheSessions : Readable(t)' = Readable(t)
    BY <1>1, <2>1, SweptReads
  <2>3. CacheFits' /\ \A t \in CacheSessions : Readable(t)' \subseteq Nat
    BY <1>1, <2>1, <2>2, FitsStill DEF RowInv
  <2>. QED  BY <1>1, <2>1, <2>2, <2>3, DoneKeeps DEF RowInv
<1>3. CASE remove(s)
  <2>1. table' = [table EXCEPT ![s] = {}]
    BY <1>3 DEF remove
  <2>2. DOMAIN table' = CacheSessions /\ \A t \in CacheSessions : t # s => Readable(t)' = Readable(t)
    BY <1>1, <2>1 DEF Readable
  <2>3. Readable(s)' = {}
    BY <1>1, <2>1 DEF Readable, Seqs
  <2>4. \A t \in CacheSessions : Readable(t)' \subseteq Nat
    BY <2>2, <2>3 DEF RowInv
  <2>5. CASE caches(s)
    <3>1. cache' = NoCache
      BY <1>3, <2>5 DEF remove, set_cache
    <3>2. CacheFits' /\ cache' = CachedSession(cache'.session, cache'.high, cache'.rows)
      BY <3>1 DEF CacheFits, NoCache, CachedSession
    <3>. QED  BY <1>1, <2>2, <2>4, <3>2, DoneKeeps DEF RowInv
  <2>6. CASE ~ caches(s)
    <3>1. UNCHANGED cache
      BY <1>3, <2>6 DEF remove
    <3>2. CacheFits'
      BY <1>1, <2>2, <2>6, <3>1, FitsStill
    <3>. QED  BY <1>1, <2>2, <2>4, <3>1, <3>2, DoneKeeps DEF RowInv
  <2>. QED  BY <2>5, <2>6
<1>. QED  BY <1>2, <1>3

(* Every step of RowCache keeps the invariant. *)
LEMMA RowsNextKeeps == ASSUME Sequential PROVE RowInv /\ [RowsNext]_rowVars => RowInv'
<1>. SUFFICES ASSUME RowInv, [RowsNext]_rowVars  PROVE RowInv'
  OBVIOUS
<1>1. CASE UNCHANGED rowVars
  <2>1. UNCHANGED <<rowScene, table, cache, generation, flying, readAnswers>>
    BY <1>1 DEF rowVars
  <2>2. (\A t \in CacheSessions : Readable(t)' = Readable(t)) /\ (CacheFits' <=> CacheFits)
    BY <2>1 DEF Readable, CacheFits, Exact
  <2>3. \A op : OpFits(op)' <=> OpFits(op)
    BY <2>1, <2>2 DEF OpFits, InsertFits, ReadFits, Exact, MayCache, caches, Readable
  <2>. QED  BY <2>1, <2>2, <2>3 DEF RowInv
<1>2. ASSUME NEW s \in CacheSessions, NEW seqs \in SUBSET (1..MaxRow), InsertIgnore(s, seqs)  PROVE RowInv'
  BY <1>2, InsertKeeps
<1>3. ASSUME NEW s \in CacheSessions, NEW from \in 1..MaxRow, NEW to \in 1..MaxRow, ReadRange(s, from, to)  PROVE RowInv'
  BY <1>3, ReadKeeps
<1>4. ASSUME NEW s \in CacheSessions, remove(s) \/ query_seqs(s)  PROVE RowInv'
  BY <1>4, RemoveKeeps
<1>5. ASSUME NEW op \in flying, InsertLands(op) \/ ReadLands(op) \/ DoneLands(op)  PROVE RowInv'
  BY <1>5, InsertLandsKeeps, ReadLandsKeeps, DoneLandsKeeps
<1>. QED  BY <1>1, <1>2, <1>3, <1>4, <1>5 DEF RowsNext

\* Every read of a store that answers at once, cached, extended or fetched,
\* answers with exactly the rows stored when it was called, and leaves an exact
\* cache (CachedTranscriptStore, "The cache is exact, not a guess").
THEOREM ReadsAreExact == ASSUME Sequential PROVE RowsSpec => []ReadsExact
<1>1. RowsInit => RowInv
  <2>. SUFFICES ASSUME RowsInit  PROVE RowInv
    OBVIOUS
  <2>1. \A s \in CacheSessions : Readable(s) = {}
    BY DEF RowsInit, Readable, Seqs
  <2>2. cache = CachedSession(cache.session, cache.high, cache.rows) /\ CacheFits
    BY DEF RowsInit, NoCache, CachedSession, CacheFits
  <2>. QED  BY <2>1, <2>2 DEF RowsInit, RowInv
<1>2. RowInv /\ [RowsNext]_rowVars => RowInv'
  BY RowsNextKeeps
<1>3. RowInv => ReadsExact
  BY DEF RowInv, CacheFits, Exact, ReadsExact, CacheExact
<1>. QED  BY <1>1, <1>2, <1>3, PTL DEF RowsSpec
=============================================================================
