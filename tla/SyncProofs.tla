------------------------------ MODULE SyncProofs ------------------------------
(***************************************************************************)
(* The safety of transcript sync (SyncServer on the bridge, TranscriptSync *)
(* on the phone), proved for any length of the transcript, any retention   *)
(* limit, any number of messages under way and of faults, any retry limit. *)
(*                                                                         *)
(* AckedIsStored alone is not inductive: an ack in flight may name any     *)
(* range.  The strengthening follows a range from the cut that makes it to *)
(* the ack that returns it.  A range is cut below the bridge's `high`, so  *)
(* an entry appended later is outside it; a chunk under way carries what   *)
(* is stored in its range; an ack held or under way names only ranges      *)
(* whose stored entries are in the phone's store.                          *)
(***************************************************************************)
EXTENDS TranscriptSync, WellFoundedInduction, TLAPS

Fits(r) == r \in Seqs \X Seqs /\ r[1] <= r[2] /\ r[2] <= high

Arrived(r) == Fits(r) /\ stored \cap Span(r) \subseteq rows

MsgOK(m) ==
  /\ m.kind = "output" => m.seq \in Seqs
  /\ m.kind = "begin" => m.high \in Nat
  /\ m.kind = "chunk" => Fits(m.range) /\ stored \cap Span(m.range) \subseteq m.entries /\ m.entries \subseteq Seqs
  /\ m.kind = "ack" => \A r \in m.ranges : Arrived(r)
  /\ m.kind = "end" => m.delivered \subseteq 1..high /\ stored \cap m.delivered \subseteq rows

SyncOK == (\A r \in sync.unacked : Fits(r)) /\ (\A r \in sync.acked : Arrived(r))

CycleOK ==
  /\ state \in {"none", "idle", "complete"} => attempts = 0
  /\ Listed => known # Unlisted /\ have = rows

SyncInv ==
  /\ TypeOK
  /\ \A m \in net : MsgOK(m)
  /\ \A a \in held : Arrived(a[2])
  /\ SyncOK
  /\ CycleOK

(***************************************************************************)
(* Facts about numbers: a set of naturals has a least element, a bounded   *)
(* one a greatest; so the CHOOSE of local_high and of Free pick something. *)
(***************************************************************************)
(* Every non-empty set of naturals has a least element. *)
LEMMA LeastOf ==
  ASSUME NEW T \in SUBSET Nat, T # {}
  PROVE  \E x \in T : \A y \in T : x <= y
<1>. DEFINE R == {ss \in Nat \X Nat : ss[1] < ss[2]}
<1>1. R = OpToRel(<, Nat)
  BY DEF OpToRel
<1>2. IsWellFoundedOn(R, Nat)
  BY <1>1, NatLessThanWellFounded
<1>3. \A x, y \in Nat : y < x => <<y, x>> \in R
  OBVIOUS
<1>. HIDE DEF R
<1>4. PICK x \in T : \A y \in T : ~ (<<y, x>> \in R)
  BY <1>2, WFMin
<1>5. \A y \in T : ~ (y < x)
  BY <1>3, <1>4
<1>. QED  BY <1>5

(* Every non-empty set of naturals up to a bound has a greatest element. *)
LEMMA GreatestOf ==
  ASSUME NEW n \in Nat, NEW T \in SUBSET (0..n), T # {}
  PROVE  \E x \in T : \A y \in T : y <= x
<1>. DEFINE Flip == {n - t : t \in T}
<1>1. Flip \in SUBSET Nat /\ Flip # {}
  <2>1. \A t \in T : n - t \in Nat
    OBVIOUS
  <2>2. PICK t \in T : TRUE
    OBVIOUS
  <2>3. n - t \in Flip
    OBVIOUS
  <2>. QED  BY <2>1, <2>3
<1>2. PICK f \in Flip : \A g \in Flip : f <= g
  <2>. HIDE DEF Flip
  <2>. QED  BY <1>1, LeastOf
<1>3. PICK x \in T : f = n - x
  BY <1>2
<1>4. \A y \in T : n - x <= n - y
  BY <1>2, <1>3
<1>. QED  BY <1>4

(* TranscriptState::local_high is a number: the phone's coverage is finite. *)
LEMMA LocalHighIsNat == ASSUME have \subseteq Seqs  PROVE local_high \in Nat
<1>1. have \cup {0} \in SUBSET (0..MaxSeq) /\ have \cup {0} # {} /\ MaxSeq \in Nat
  BY ServerAssumption DEF Seqs
<1>2. \E h \in have \cup {0} : \A s \in have \cup {0} : s <= h
  BY <1>1, GreatestOf
<1>3. local_high \in have \cup {0}
  BY <1>2 DEF local_high
<1>. QED  BY <1>1, <1>3

(* The id a new sync gets is one of SyncIds not in use. *)
LEMMA FreeIsFree == ASSUME NEW used, SyncIds \ used # {}  PROVE Free(used) \in SyncIds \ used
<1>1. SyncIds \ used \in SUBSET Nat
  BY ServerAssumption
<1>2. \E i \in SyncIds \ used : \A j \in SyncIds \ used : i <= j
  BY <1>1, LeastOf
<1>. QED  BY <1>2 DEF Free

(***************************************************************************)
(* What a growing transcript and a growing store leave true.               *)
(***************************************************************************)
(* Only new seqs are appended, entries are pruned, and the store only grows. *)
Grows ==
  /\ rows \subseteq rows'
  /\ high \in Nat /\ high' \in Nat /\ high <= high'
  /\ \A s \in stored' : s \in stored \/ s > high

(* A range that was cut stays below `high`, and one that arrived stays so. *)
LEMMA RangesKeep ==
  ASSUME Grows, NEW r
  PROVE  (Fits(r) => Fits(r)') /\ (Arrived(r) => Arrived(r)')
<1>1. Fits(r) => Fits(r)'
  BY DEF Grows, Fits, Seqs
<1>2. ASSUME Fits(r)  PROVE stored' \cap Span(r) \subseteq stored \cap Span(r)
  BY <1>2 DEF Grows, Fits, Span, Seqs
<1>. QED  BY <1>1, <1>2 DEF Arrived, Grows

(* What a message says stays true until it arrives. *)
LEMMA MsgKeeps ==
  ASSUME Grows, NEW m, MsgOK(m)
  PROVE  MsgOK(m)'
<1>1. m.kind = "chunk" => (Fits(m.range) /\ stored \cap Span(m.range) \subseteq m.entries)'
  <2>. SUFFICES ASSUME m.kind = "chunk" PROVE (Fits(m.range) /\ stored \cap Span(m.range) \subseteq m.entries)'
    OBVIOUS
  <2>1. Fits(m.range) /\ stored \cap Span(m.range) \subseteq m.entries
    BY DEF MsgOK
  <2>2. Fits(m.range)'
    BY <2>1, RangesKeep
  <2>3. stored' \cap Span(m.range) \subseteq stored \cap Span(m.range)
    BY <2>1 DEF Grows, Fits, Span, Seqs
  <2>. QED  BY <2>1, <2>2, <2>3
<1>2. m.kind = "ack" => (\A r \in m.ranges : Arrived(r))'
  BY RangesKeep DEF MsgOK
<1>3. m.kind = "end" => (m.delivered \subseteq 1..high /\ stored \cap m.delivered \subseteq rows)'
  BY DEF MsgOK, Grows
<1>. QED  BY <1>1, <1>2, <1>3 DEF MsgOK

(* Handing over a message, or sending some, puts nothing else under way. *)
LEMMA NetSteps ==
  /\ \A m, out : Deliver(m, out) => net' \subseteq net \cup out /\ m \in net
  /\ \A m, out, kind : DeliverFailing(m, out, kind) => net' \subseteq net \cup out /\ m \in net
  /\ \A out : Send(out) => net' \subseteq net \cup out
BY DEF Deliver, DeliverFailing, Send, Under

(* The count of faults keeps to its bound. *)
LEMMA FaultSteps ==
  ASSUME faults \in 0..MaxFaults
  PROVE  /\ NoFault => faults' \in 0..MaxFaults
         /\ \A kind : Fault(kind) => faults' \in 0..MaxFaults
         /\ \A m, out : Deliver(m, out) => faults' \in 0..MaxFaults
         /\ \A m, out, kind : DeliverFailing(m, out, kind) => faults' \in 0..MaxFaults
BY RelayAssumption DEF NoFault, Fault, Deliver, DeliverFailing

(* What is under way after a step is true if what was sent in it is. *)
LEMMA NetKeeps ==
  ASSUME Grows, \A m \in net : MsgOK(m), NEW out, net' \subseteq net \cup out, \A m \in out : MsgOK(m)'
  PROVE  (\A m \in net : MsgOK(m))'
BY MsgKeeps

(***************************************************************************)
(* The bridge.                                                             *)
(***************************************************************************)
(* The chunks of a pass carry what is stored in their ranges. *)
LEMMA ChunksTrue ==
  ASSUME stored \subseteq Seqs, NEW s, \A r \in s.unacked : Fits(r), NEW c \in ChunkMsgs(s)
  PROVE  MsgOK(c)
BY DEF ChunkMsgs, MsgOK

(* A sync-end names what has arrived. *)
LEMMA EndTrue ==
  ASSUME high \in Nat, NEW s, \A r \in s.acked : Arrived(r)
  PROVE  MsgOK(EndMsg(s))
<1>1. SeqsIn(s.acked) \subseteq 1..high
  BY DEF SeqsIn, Span, Arrived, Fits, Seqs
<1>2. stored \cap SeqsIn(s.acked) \subseteq rows
  BY DEF SeqsIn, Arrived
<1>. QED  BY <1>1, <1>2 DEF EndMsg, MsgOK

(* Whatever a pass sends is true, whether every read succeeds or not. *)
LEMMA PassTrue ==
  ASSUME high \in Nat, stored \subseteq Seqs, NEW s,
         \A r \in s.unacked : Fits(r), \A r \in s.acked : Arrived(r)
  PROVE  /\ \A c \in SendPass(s) : MsgOK(c)
         /\ \A at : \A c \in PassCutAt(s, at) : MsgOK(c)
<1>1. \A c \in ChunkMsgs(s) : MsgOK(c)
  BY ChunksTrue
<1>2. MsgOK(EndMsg(s))
  BY EndTrue
<1>. QED  BY <1>1, <1>2 DEF SendPass, PassCutAt

(* The chunks `cut` makes lie below `high`. *)
LEMMA CutsFit ==
  ASSUME high \in 0..MaxSeq, NEW missing, missing \subseteq 1..high, NEW cuts, NEW r \in ChunksOf(missing, cuts)
  PROVE  Fits(r)
<1>1. r \in missing \X missing /\ Span(r) # {}
  BY DEF ChunksOf
<1>2. r[1] \in 1..high /\ r[2] \in 1..high
  BY <1>1
<1>3. r[1] <= r[2]
  BY <1>1, <1>2 DEF Span
<1>4. r \in (1..high) \X (1..high)
  BY <1>1
<1>. QED  BY <1>2, <1>3, <1>4, ServerAssumption DEF Fits, Seqs

(* A step in which only what is under way and the sync may change. *)
LEMMA BridgeKeeps ==
  ASSUME SyncInv, UNCHANGED <<stored, high>>, UNCHANGED clientVars, faults' \in 0..MaxFaults,
         NEW out, net' \subseteq net \cup out, \A m \in out : MsgOK(m),
         (sync \in [id : SyncIds \cup {0}, unacked : SUBSET (Seqs \X Seqs),
                    acked : SUBSET (Seqs \X Seqs), pass : 0..MaxRetries]
           /\ (sync.id # 0 => sync.unacked # {}))',
         \A r \in sync'.unacked : Fits(r), \A r \in sync'.acked : Arrived(r)
  PROVE  SyncInv'
<1>1. Grows
  BY ServerAssumption DEF SyncInv, TypeOK, ServerTypeOK, Grows, clientVars
<1>2. \A m \in out : MsgOK(m)'
  BY <1>1, MsgKeeps
<1>3. (\A m \in net : MsgOK(m))'
  BY <1>1, <1>2, NetKeeps DEF SyncInv
<1>4. (\A a \in held : Arrived(a[2]))'
  BY <1>1, RangesKeep DEF SyncInv, clientVars
<1>5. SyncOK'
  BY <1>1, RangesKeep DEF SyncOK
<1>6. CycleOK'
  BY DEF SyncInv, CycleOK, clientVars
<1>7. TypeOK'
  BY DEF SyncInv, TypeOK, ServerTypeOK, ClientTypeOK, clientVars
<1>. QED  BY <1>3, <1>4, <1>5, <1>6, <1>7 DEF SyncInv

(* sync-request: a new sync over what the phone lacks, or its end at once. *)
LEMMA RequestKeeps ==
  ASSUME SyncInv, NEW m, NEW used, request(m, used), UNCHANGED clientVars
  PROVE  SyncInv'
<1>. DEFINE missing == (1..high) \ m.have
            begin == [kind |-> "begin", id |-> Free(used), high |-> high]
            S(cuts) == [NoSync EXCEPT !.id = Free(used), !.unacked = ChunksOf(missing, cuts)]
<1>1. high \in 0..MaxSeq /\ high \in Nat /\ stored \subseteq Seqs /\ faults \in 0..MaxFaults /\ MaxRetries \in Nat
  BY ServerAssumption DEF SyncInv, TypeOK, ServerTypeOK, Seqs
<1>2. Free(used) \in SyncIds
  BY FreeIsFree DEF request
<1>3. PICK cuts \in SUBSET missing :
        \/ Deliver(m, {begin} \cup SendPass(S(cuts))) /\ sync' = AfterPass(S(cuts))
        \/ \E at \in SeqsIn(S(cuts).unacked) :
             DeliverFailing(m, {begin} \cup PassCutAt(S(cuts), at), "read") /\ sync' = NoSync
  BY DEF request
<1>. DEFINE s == S(cuts)
<1>4. \A r \in ChunksOf(missing, cuts) : Fits(r)
  <2>. HIDE DEF missing
  <2>1. missing \subseteq 1..high
    BY DEF missing
  <2>. QED  BY <1>1, <2>1, CutsFit
<1>5. s.id = Free(used) /\ s.unacked = ChunksOf(missing, cuts) /\ s.acked = {} /\ s.pass = 0
  <2>. HIDE DEF missing
  <2>. QED  BY DEF NoSync
<1>6. (\A r \in s.unacked : Fits(r)) /\ (\A r \in s.acked : Arrived(r))
  BY <1>4, <1>5
<1>7. MsgOK(begin)
  BY <1>1 DEF MsgOK
<1>8. \A r \in s.unacked : r \in Seqs \X Seqs
  BY <1>6 DEF Fits
<1>9. UNCHANGED <<stored, high>>
  BY DEF request
<1>. DEFINE Typed(x) == x \in [id : SyncIds \cup {0}, unacked : SUBSET (Seqs \X Seqs),
                              acked : SUBSET (Seqs \X Seqs), pass : 0..MaxRetries]
                        /\ (x.id # 0 => x.unacked # {})
<1>10. Typed(NoSync)
  BY <1>1 DEF NoSync
<1>11. s.unacked # {} => Typed(s)
  <2>1. NoSync \in [id : SyncIds \cup {0}, unacked : SUBSET (Seqs \X Seqs),
                    acked : SUBSET (Seqs \X Seqs), pass : 0..MaxRetries]
    BY <1>10
  <2>2. ChunksOf(missing, cuts) \in SUBSET (Seqs \X Seqs)
    BY <1>5, <1>8
  <2>. HIDE DEF missing
  <2>3. s \in [id : SyncIds \cup {0}, unacked : SUBSET (Seqs \X Seqs),
               acked : SUBSET (Seqs \X Seqs), pass : 0..MaxRetries]
    BY <1>2, <2>1, <2>2
  <2>. QED  BY <2>3
<1>12. NoSync.unacked = {} /\ NoSync.acked = {}
  BY DEF NoSync
<1>. HIDE DEF s, S, begin, missing
<1>13. CASE Deliver(m, {begin} \cup SendPass(s)) /\ sync' = AfterPass(s)
  <2>1. net' \subseteq net \cup ({begin} \cup SendPass(s))
    BY <1>13, NetSteps
  <2>2. \A c \in {begin} \cup SendPass(s) : MsgOK(c)
    BY <1>1, <1>6, <1>7, PassTrue
  <2>3. Typed(sync')
    BY <1>10, <1>11, <1>13 DEF AfterPass
  <2>4. (\A r \in sync'.unacked : Fits(r)) /\ (\A r \in sync'.acked : Arrived(r))
    BY <1>6, <1>12, <1>13 DEF AfterPass
  <2>5. faults' \in 0..MaxFaults
    BY <1>1, <1>13, FaultSteps
  <2>. QED  BY <1>9, <2>1, <2>2, <2>3, <2>4, <2>5, BridgeKeeps
<1>14. ASSUME NEW at \in SeqsIn(s.unacked), DeliverFailing(m, {begin} \cup PassCutAt(s, at), "read"), sync' = NoSync
       PROVE  SyncInv'
  <2>1. net' \subseteq net \cup ({begin} \cup PassCutAt(s, at))
    BY <1>14, NetSteps
  <2>2. \A c \in {begin} \cup PassCutAt(s, at) : MsgOK(c)
    BY <1>1, <1>6, <1>7, PassTrue
  <2>3. Typed(sync')
    BY <1>10, <1>14
  <2>4. (\A r \in sync'.unacked : Fits(r)) /\ (\A r \in sync'.acked : Arrived(r))
    BY <1>12, <1>14
  <2>5. faults' \in 0..MaxFaults
    BY <1>1, <1>14, FaultSteps
  <2>. QED  BY <1>9, <2>1, <2>2, <2>3, <2>4, <2>5, BridgeKeeps
<1>. QED  BY <1>3, <1>13, <1>14 DEF s

(* sync-ack: the chunks it names by their exact ranges have arrived. *)
LEMMA AckKeeps ==
  ASSUME SyncInv, NEW m \in net, ack(m), UNCHANGED clientVars
  PROVE  SyncInv'
<1>. DEFINE s == [sync EXCEPT !.unacked = @ \ AckedBy(m), !.acked = @ \cup AckedBy(m)]
            done == sync.id # 0 /\ s.unacked = {}
            out == IF done THEN {EndMsg(s)} ELSE {}
<1>1. high \in Nat /\ faults \in 0..MaxFaults /\ MaxRetries \in Nat
      /\ sync \in [id : SyncIds \cup {0}, unacked : SUBSET (Seqs \X Seqs),
                   acked : SUBSET (Seqs \X Seqs), pass : 0..MaxRetries]
  BY ServerAssumption DEF SyncInv, TypeOK, ServerTypeOK
<1>2. \A r \in AckedBy(m) : Arrived(r) /\ r \in sync.unacked
  BY DEF SyncInv, MsgOK, ack, AckedBy
<1>3. s.id = sync.id /\ s.unacked = sync.unacked \ AckedBy(m) /\ s.acked = sync.acked \cup AckedBy(m)
  BY <1>1
<1>4. (\A r \in s.unacked : Fits(r)) /\ (\A r \in s.acked : Arrived(r))
  BY <1>2, <1>3 DEF SyncInv, SyncOK
<1>5. s \in [id : SyncIds \cup {0}, unacked : SUBSET (Seqs \X Seqs),
             acked : SUBSET (Seqs \X Seqs), pass : 0..MaxRetries]
  BY <1>1, <1>2
<1>6. Deliver(m, out) /\ sync' = (IF done THEN NoSync ELSE s) /\ UNCHANGED <<stored, high>>
  BY DEF ack
<1>7. s.id = sync.id
  BY <1>3
<1>. HIDE DEF s
<1>8. net' \subseteq net \cup out /\ faults' \in 0..MaxFaults
  BY <1>1, <1>6, NetSteps, FaultSteps
<1>9. \A c \in out : MsgOK(c)
  BY <1>1, <1>4, EndTrue
<1>10. sync' \in [id : SyncIds \cup {0}, unacked : SUBSET (Seqs \X Seqs),
                  acked : SUBSET (Seqs \X Seqs), pass : 0..MaxRetries]
       /\ (sync'.id # 0 => sync'.unacked # {})
  BY <1>1, <1>5, <1>6, <1>7 DEF NoSync
<1>11. (\A r \in sync'.unacked : Fits(r)) /\ (\A r \in sync'.acked : Arrived(r))
  BY <1>4, <1>6 DEF NoSync
<1>. HIDE DEF out
<1>. QED  BY <1>6, <1>8, <1>9, <1>10, <1>11, BridgeKeeps

(* The bridge's timers: a pass again, or the end of the sync. *)
LEMMA TimeoutKeeps ==
  ASSUME SyncInv, AckTimeout \/ IdleTimeout, UNCHANGED clientVars
  PROVE  SyncInv'
<1>. DEFINE Record == [id : SyncIds \cup {0}, unacked : SUBSET (Seqs \X Seqs),
                       acked : SUBSET (Seqs \X Seqs), pass : 0..MaxRetries]
            s == [sync EXCEPT !.pass = @ + 1]
<1>1. high \in Nat /\ stored \subseteq Seqs /\ faults \in 0..MaxFaults /\ MaxRetries \in Nat
      /\ sync \in Record /\ (sync.id # 0 => sync.unacked # {})
  BY ServerAssumption DEF SyncInv, TypeOK, ServerTypeOK, Seqs
<1>2. (\A r \in sync.unacked : Fits(r)) /\ (\A r \in sync.acked : Arrived(r))
  BY DEF SyncInv, SyncOK
<1>3. s.id = sync.id /\ s.unacked = sync.unacked /\ s.acked = sync.acked
  BY <1>1
<1>4. sync.pass < MaxRetries => s \in Record
  <2>. SUFFICES ASSUME sync.pass < MaxRetries  PROVE s \in Record
    OBVIOUS
  <2>1. sync.pass \in 0..MaxRetries
    BY <1>1
  <2>2. sync.pass + 1 \in 0..MaxRetries
    BY <1>1, <2>1
  <2>. QED  BY <1>1, <2>2
<1>5. NoSync \in Record /\ NoSync.unacked = {} /\ NoSync.acked = {} /\ NoSync.id = 0
  BY <1>1 DEF NoSync
<1>6. (\A c \in SendPass(s) : MsgOK(c)) /\ (\A at : \A c \in PassCutAt(s, at) : MsgOK(c))
  <2>. HIDE DEF s
  <2>. QED  BY <1>1, <1>2, <1>3, PassTrue
<1>7. MsgOK(EndMsg(sync))
  BY <1>1, <1>2, EndTrue
<1>8. UNCHANGED <<stored, high>>
  BY DEF AckTimeout, IdleTimeout
<1>. HIDE DEF Record
<1>9. CASE sync.pass < MaxRetries /\ Send(SendPass(s)) /\ sync' = s /\ NoFault
  <2>1. net' \subseteq net \cup SendPass(s) /\ faults' \in 0..MaxFaults
    BY <1>1, <1>9, NetSteps, FaultSteps
  <2>2. sync' \in Record /\ (sync'.id # 0 => sync'.unacked # {})
    BY <1>1, <1>3, <1>4, <1>9
  <2>3. (\A r \in sync'.unacked : Fits(r)) /\ (\A r \in sync'.acked : Arrived(r))
    BY <1>2, <1>3, <1>9
  <2>. QED  BY <1>6, <1>8, <2>1, <2>2, <2>3, BridgeKeeps DEF Record
<1>10. ASSUME NEW out, \A c \in out : MsgOK(c), Send(out), sync' = NoSync, faults' \in 0..MaxFaults
       PROVE  SyncInv'
  <2>1. net' \subseteq net \cup out
    BY <1>10, NetSteps
  <2>2. sync' \in Record /\ (sync'.id # 0 => sync'.unacked # {})
    BY <1>5, <1>10
  <2>3. (\A r \in sync'.unacked : Fits(r)) /\ (\A r \in sync'.acked : Arrived(r))
    BY <1>5, <1>10
  <2>. QED  BY <1>8, <1>10, <2>1, <2>2, <2>3, BridgeKeeps DEF Record
<1>11. CASE (\E at \in SeqsIn(s.unacked) : Send(PassCutAt(s, at))) /\ sync' = NoSync /\ Fault("read")
  <2>1. PICK at \in SeqsIn(s.unacked) : Send(PassCutAt(s, at))
    BY <1>11
  <2>2. faults' \in 0..MaxFaults
    BY <1>1, <1>11, FaultSteps
  <2>. QED  BY <1>6, <1>10, <1>11, <2>1, <2>2
<1>12. CASE Send({EndMsg(sync)}) /\ sync' = NoSync /\ NoFault
  <2>1. faults' \in 0..MaxFaults
    BY <1>1, <1>12, FaultSteps
  <2>. QED  BY <1>7, <1>10, <1>12, <2>1
<1>. QED  BY <1>9, <1>11, <1>12 DEF AckTimeout, IdleTimeout

(* Engine::append: the new seq lies above every range cut so far. *)
LEMMA AppendKeeps ==
  ASSUME SyncInv, AppendEntry, UNCHANGED clientVars
  PROVE  SyncInv'
<1>1. high \in 0..MaxSeq /\ MaxSeq \in Nat /\ stored \subseteq 1..high /\ faults \in 0..MaxFaults
  BY ServerAssumption DEF SyncInv, TypeOK, ServerTypeOK
<1>2. Grows
  BY <1>1 DEF AppendEntry, Grows, clientVars
<1>. DEFINE out == {[kind |-> "output", seq |-> high + 1]}
<1>3. \A m \in out : MsgOK(m)'
  BY <1>1 DEF AppendEntry, MsgOK, Seqs
<1>4. net' \subseteq net \cup out /\ faults' \in 0..MaxFaults
  BY <1>1, NetSteps, FaultSteps DEF AppendEntry
<1>5. (\A m \in net : MsgOK(m))'
  <2>. HIDE DEF out
  <2>. QED  BY <1>2, <1>3, <1>4, NetKeeps DEF SyncInv
<1>6. (\A a \in held : Arrived(a[2]))'
  BY <1>2, RangesKeep DEF SyncInv, clientVars
<1>7. SyncOK'
  BY <1>2, RangesKeep DEF SyncInv, SyncOK, AppendEntry
<1>8. CycleOK'
  BY DEF SyncInv, CycleOK, clientVars
<1>9. (stored \subseteq 1..high /\ high \in 0..MaxSeq)'
  BY <1>1 DEF AppendEntry
<1>10. TypeOK'
  BY <1>4, <1>9 DEF SyncInv, TypeOK, ServerTypeOK, ClientTypeOK, clientVars, AppendEntry
<1>. QED  BY <1>5, <1>6, <1>7, <1>8, <1>10 DEF SyncInv

(* Retention only drops entries, and a restart only ends the sync. *)
LEMMA RestKeeps ==
  ASSUME SyncInv, Retention \/ RestartBridge, UNCHANGED clientVars
  PROVE  SyncInv'
<1>1. high \in Nat /\ faults \in 0..MaxFaults /\ MaxRetries \in Nat /\ stored \subseteq 1..high
  BY ServerAssumption DEF SyncInv, TypeOK, ServerTypeOK
<1>2. stored' \subseteq stored /\ high' = high /\ net' = net /\ faults' \in 0..MaxFaults
  BY <1>1, FaultSteps DEF Retention, RestartBridge, relayVars
<1>3. Grows
  BY <1>1, <1>2 DEF Grows, clientVars
<1>4. (\A m \in net : MsgOK(m))'
  BY <1>2, <1>3, MsgKeeps DEF SyncInv
<1>5. (\A a \in held : Arrived(a[2]))'
  BY <1>3, RangesKeep DEF SyncInv, clientVars
<1>6. sync' = sync \/ sync' = NoSync
  BY DEF Retention, RestartBridge
<1>7. SyncOK'
  BY <1>3, <1>6, RangesKeep DEF SyncInv, SyncOK, NoSync
<1>8. CycleOK'
  BY DEF SyncInv, CycleOK, clientVars
<1>9. (sync \in [id : SyncIds \cup {0}, unacked : SUBSET (Seqs \X Seqs),
                acked : SUBSET (Seqs \X Seqs), pass : 0..MaxRetries]
       /\ (sync.id # 0 => sync.unacked # {}))'
  BY <1>1, <1>6 DEF SyncInv, TypeOK, ServerTypeOK, NoSync
<1>10. TypeOK'
  BY <1>2, <1>9 DEF SyncInv, TypeOK, ServerTypeOK, ClientTypeOK, clientVars
<1>. QED  BY <1>4, <1>5, <1>7, <1>8, <1>10 DEF SyncInv

(***************************************************************************)
(* The phone.                                                              *)
(***************************************************************************)
(* What a sync's own state keeps to. *)
Cycle ==
  /\ state \in States /\ attempts \in 0..MaxAttempts /\ target \in Nat
  /\ backoff \in BOOLEAN /\ (backoff => state = "failed")
  /\ state \in {"none", "idle", "complete"} => attempts = 0

(* The invariant says so of every state. *)
LEMMA CycleHolds == ASSUME SyncInv  PROVE Cycle
BY DEF SyncInv, TypeOK, ClientTypeOK, CycleOK, Cycle

(* The transitions of TranscriptState keep to it. *)
LEMMA CycleSteps ==
  ASSUME Cycle, NEW goal \in Nat
  PROVE  /\ start_cycle(goal) => Cycle'
         /\ Completed => Cycle'
         /\ GiveUp => Cycle'
         /\ Quiet => Cycle'
<1>. USE ClientAssumption
<1>1. Greater(goal, target) \in Nat
  BY DEF Cycle, Greater
<1>2. start_cycle(goal) => Cycle'
  <2>. SUFFICES ASSUME start_cycle(goal)  PROVE Cycle'
    OBVIOUS
  <2>1. attempts' \in 0..MaxAttempts
    BY DEF Cycle, start_cycle
  <2>2. state' = "requested" /\ target' \in Nat /\ backoff' = FALSE
    BY <1>1 DEF start_cycle
  <2>. QED  BY <2>1, <2>2 DEF Cycle, States
<1>3. Completed => Cycle'
  <2>. SUFFICES ASSUME Completed  PROVE Cycle'
    OBVIOUS
  <2>1. state' = "complete" /\ target' \in Nat /\ backoff' = FALSE /\ attempts' = 0
    BY DEF Cycle, Completed
  <2>2. attempts' \in 0..MaxAttempts
    BY <2>1
  <2>. QED  BY <2>1, <2>2 DEF Cycle, States
<1>4. GiveUp => Cycle'
  BY DEF Cycle, GiveUp, States
<1>5. Quiet => Cycle'
  BY DEF Cycle, Quiet
<1>. QED  BY <1>2, <1>3, <1>4, <1>5

(* A step of the phone keeps the invariant if its store only grows, its    *)
(* coverage is of what it stores, and what it sends and holds is true.     *)
LEMMA PhoneKeeps ==
  ASSUME SyncInv, UNCHANGED serverVars, faults' \in 0..MaxFaults,
         rows \subseteq rows', rows' \subseteq Seqs, have' \subseteq rows',
         NEW out, net' \subseteq net \cup out, \A m \in out : MsgOK(m)',
         \A a \in held' : Arrived(a[2])',
         known' \in Nat \cup {Unlisted}, Cycle', Listed => known' # Unlisted /\ have' = rows'
  PROVE  SyncInv'
<1>1. Grows
  BY ServerAssumption DEF SyncInv, TypeOK, ServerTypeOK, Grows, serverVars
<1>2. (\A m \in net : MsgOK(m))'
  BY <1>1, NetKeeps DEF SyncInv
<1>3. SyncOK'
  BY <1>1, RangesKeep DEF SyncInv, SyncOK, serverVars
<1>4. CycleOK'
  BY DEF CycleOK, Cycle
<1>5. ServerTypeOK'
  BY DEF SyncInv, TypeOK, ServerTypeOK, serverVars
<1>6. (\A a \in held : a[2][1] <= a[2][2])'
  BY DEF Arrived, Fits
<1>7. (rows \subseteq Nat /\ have \subseteq Nat)'
  BY ServerAssumption DEF Seqs
<1>8. ClientTypeOK'
  BY <1>6, <1>7 DEF ClientTypeOK, Cycle
<1>. QED  BY <1>2, <1>3, <1>4, <1>5, <1>8 DEF SyncInv, TypeOK

(* The same of a step in which the phone sends nothing. *)
LEMMA SilentKeeps ==
  ASSUME SyncInv, UNCHANGED serverVars, faults' \in 0..MaxFaults,
         rows \subseteq rows', rows' \subseteq Seqs, have' \subseteq rows', net' \subseteq net,
         \A a \in held' : Arrived(a[2])',
         known' \in Nat \cup {Unlisted}, Cycle', Listed => known' # Unlisted /\ have' = rows'
  PROVE  SyncInv'
<1>. DEFINE out == {}
<1>1. net' \subseteq net \cup out /\ \A m \in out : MsgOK(m)'
  OBVIOUS
<1>. HIDE DEF out
<1>. QED  BY <1>1, PhoneKeeps

(* integrate_rows: both grow by the entries. *)
LEMMA IntegrateSteps ==
  ASSUME SyncInv, NEW entries, entries \subseteq Seqs, NEW range, integrate_rows(entries, range)
  PROVE  /\ rows \subseteq rows' /\ entries \subseteq rows' /\ rows' \subseteq Seqs /\ have' \subseteq rows'
         /\ Listed => have' = rows'
BY DEF SyncInv, TypeOK, CycleOK, integrate_rows

(* get_or_create, and what keeps a state as it is. *)
LEMMA GetOrCreate ==
  ASSUME Cycle, UNCHANGED <<attempts, target, backoff>>, state' = get_or_create \/ state' = state
  PROVE  Cycle'
BY DEF Cycle, get_or_create, States

(* What the store held arrives still. *)
LEMMA HeldKeeps ==
  ASSUME SyncInv, UNCHANGED serverVars, rows \subseteq rows', NEW r, Arrived(r)
  PROVE  Arrived(r)'
<1>1. Grows
  BY ServerAssumption DEF SyncInv, TypeOK, ServerTypeOK, Grows, serverVars
<1>. QED  BY <1>1, RangesKeep

(* `output`: one entry more, or one left to the sync. *)
LEMMA OutputKeeps ==
  ASSUME SyncInv, NEW m \in net, OnOutput(m), UNCHANGED serverVars
  PROVE  SyncInv'
<1>1. Cycle /\ faults \in 0..MaxFaults /\ MsgOK(m) /\ m.kind = "output"
      /\ known \in Nat \cup {Unlisted} /\ rows \subseteq Seqs /\ have \subseteq rows
      /\ (Listed => known # Unlisted /\ have = rows) /\ (\A a \in held : Arrived(a[2]))
  BY CycleHolds DEF SyncInv, TypeOK, ClientTypeOK, CycleOK, OnOutput
<1>2. known' = known /\ held' = held /\ UNCHANGED <<attempts, target, backoff>>
  BY DEF OnOutput
<1>3. CASE Deliver(m, {}) /\ integrate_rows({m.seq}, {m.seq}) /\ state' = get_or_create
  <2>1. rows \subseteq rows' /\ rows' \subseteq Seqs /\ have' \subseteq rows' /\ (Listed => have' = rows')
    BY <1>1, <1>3, IntegrateSteps DEF MsgOK
  <2>2. Cycle'
    BY <1>1, <1>2, <1>3, GetOrCreate
  <2>3. net' \subseteq net /\ faults' \in 0..MaxFaults
    BY <1>1, <1>3, NetSteps, FaultSteps
  <2>4. \A a \in held' : Arrived(a[2])'
    BY <1>1, <1>2, <2>1, HeldKeeps
  <2>. QED  BY <1>1, <1>2, <2>1, <2>2, <2>3, <2>4, SilentKeeps
<1>4. CASE DeliverFailing(m, {}, "store") /\ UNCHANGED <<rows, have, state>>
  <2>1. Cycle'
    BY <1>1, <1>2, <1>4, GetOrCreate
  <2>2. net' \subseteq net /\ faults' \in 0..MaxFaults
    BY <1>1, <1>4, NetSteps, FaultSteps
  <2>3. \A a \in held' : Arrived(a[2])'
    BY <1>1, <1>2, <1>4, HeldKeeps
  <2>4. rows \subseteq rows' /\ rows' \subseteq Seqs /\ have' \subseteq rows' /\ (Listed => have' = rows')
    BY <1>1, <1>4
  <2>. QED  BY <1>1, <1>2, <2>1, <2>2, <2>3, <2>4, SilentKeeps
<1>. QED  BY <1>3, <1>4 DEF OnOutput

(* What the invariant says of the phone. *)
LEMMA PhoneFacts ==
  ASSUME SyncInv
  PROVE  /\ Cycle /\ faults \in 0..MaxFaults /\ known \in Nat \cup {Unlisted}
         /\ rows \subseteq Seqs /\ have \subseteq rows /\ high \in Nat
         /\ Listed => known # Unlisted /\ have = rows
         /\ \A a \in held : Arrived(a[2])
         /\ \A m \in net : MsgOK(m)
         /\ local_high \in Nat
<1>1. rows \subseteq Seqs /\ have \subseteq rows /\ high \in Nat
  BY ServerAssumption DEF SyncInv, TypeOK, ServerTypeOK
<1>2. local_high \in Nat
  BY <1>1, LocalHighIsNat
<1>. QED  BY <1>1, <1>2, CycleHolds DEF SyncInv, TypeOK, ClientTypeOK, CycleOK

(* A step that stores nothing and sends at most a request. *)
LEMMA CycleKeeps ==
  ASSUME SyncInv, UNCHANGED serverVars, UNCHANGED <<rows, have, held>>, faults' \in 0..MaxFaults,
         known' \in Nat \cup {Unlisted}, Listed => known' # Unlisted,
         net' \subseteq net \cup {Request}, Cycle'
  PROVE  SyncInv'
<1>. DEFINE out == {Request}
<1>1. \A m \in out : MsgOK(m)'
  BY SMTT(30), ZenonT(30) DEF Request, MsgOK
<1>2. \A a \in held' : Arrived(a[2])'
  BY PhoneFacts, HeldKeeps
<1>3. rows \subseteq rows' /\ rows' \subseteq Seqs /\ have' \subseteq rows' /\ (Listed => known' # Unlisted /\ have' = rows')
  BY PhoneFacts
<1>4. net' \subseteq net \cup out
  OBVIOUS
<1>. HIDE DEF out
<1>. QED  BY <1>1, <1>2, <1>3, <1>4, PhoneKeeps

(* sync-begin *)
LEMMA BeginKeeps ==
  ASSUME SyncInv, NEW m \in net, apply_sync_begin(m), UNCHANGED serverVars
  PROVE  SyncInv'
<1>1. Greater(target, m.high) \in Nat
  BY PhoneFacts DEF apply_sync_begin, MsgOK, Cycle, Greater
<1>2. state' = "syncing" /\ backoff' = FALSE /\ attempts' = attempts /\ target' \in Nat
  BY <1>1 DEF apply_sync_begin
<1>3. Cycle'
  BY <1>2, PhoneFacts DEF Cycle, States
<1>4. net' \subseteq net \cup {Request} /\ faults' \in 0..MaxFaults
  BY PhoneFacts, NetSteps, FaultSteps DEF apply_sync_begin
<1>5. UNCHANGED <<rows, have, held>> /\ known' = known
  BY DEF apply_sync_begin
<1>. QED  BY <1>3, <1>4, <1>5, CycleKeeps, PhoneFacts

(* sync-chunk: its ack is held once its entries are stored. *)
LEMMA ChunkKeeps ==
  ASSUME SyncInv, NEW m \in net, OnChunk(m), UNCHANGED serverVars
  PROVE  SyncInv'
<1>1. m.kind = "chunk" /\ Fits(m.range) /\ stored \cap Span(m.range) \subseteq m.entries /\ m.entries \subseteq Seqs
  BY PhoneFacts DEF OnChunk, MsgOK
<1>2. known' = known /\ UNCHANGED <<attempts, target, backoff>>
  BY DEF OnChunk
<1>3. CASE /\ Deliver(m, {}) /\ integrate_rows(m.entries, m.range[1]..m.range[2])
           /\ state' = (IF m.entries = {} THEN state ELSE get_or_create)
           /\ held' = held \cup {<<m.id, m.range>>}
  <2>1. rows \subseteq rows' /\ m.entries \subseteq rows' /\ rows' \subseteq Seqs /\ have' \subseteq rows' /\ (Listed => have' = rows')
    BY <1>1, <1>3, IntegrateSteps
  <2>2. Cycle'
    BY <1>2, <1>3, GetOrCreate, PhoneFacts
  <2>3. net' \subseteq net /\ faults' \in 0..MaxFaults
    BY <1>3, NetSteps, FaultSteps, PhoneFacts, SMTT(30), ZenonT(30)
  <2>4. Arrived(m.range)'
    BY <1>1, <2>1 DEF Arrived, Fits, serverVars
  <2>5. \A a \in held' : Arrived(a[2])'
    BY <1>3, <2>1, <2>4, HeldKeeps, PhoneFacts, SMTT(30), ZenonT(30)
  <2>. QED  BY <1>2, <2>1, <2>2, <2>3, <2>5, SilentKeeps, PhoneFacts
<1>4. CASE DeliverFailing(m, {}, "store") /\ UNCHANGED <<rows, have, state, held>>
  <2>1. Cycle'
    BY <1>2, <1>4, GetOrCreate, PhoneFacts
  <2>2. net' \subseteq net \cup {Request} /\ faults' \in 0..MaxFaults
    BY <1>4, NetSteps, FaultSteps, PhoneFacts
  <2>. QED  BY <1>2, <1>4, <2>1, <2>2, CycleKeeps, PhoneFacts
<1>. QED  BY <1>3, <1>4 DEF OnChunk

(* sync-end *)
LEMMA EndKeeps ==
  ASSUME SyncInv, NEW m \in net, apply_sync_end(m), UNCHANGED serverVars
  PROVE  SyncInv'
<1>. DEFINE goal == Greater(target, local_high)
<1>1. goal \in Nat
  BY PhoneFacts DEF Cycle, Greater
<1>2. /\ Quiet \/ Completed \/ start_cycle(goal) \/ GiveUp
      /\ Deliver(m, {}) \/ Deliver(m, {Request})
      /\ UNCHANGED <<rows, known, have, held>>
  BY DEF apply_sync_end
<1>. HIDE DEF goal
<1>3. Cycle'
  BY <1>1, <1>2, CycleSteps, PhoneFacts
<1>4. net' \subseteq net \cup {Request} /\ faults' \in 0..MaxFaults
  BY <1>2, NetSteps, FaultSteps, PhoneFacts
<1>. QED  BY <1>2, <1>3, <1>4, CycleKeeps, PhoneFacts

(* A session list: ensure_synced. *)
LEMMA SessionsKeeps ==
  ASSUME SyncInv, NEW seqHigh \in 0..high, OnSessions(seqHigh), UNCHANGED serverVars
  PROVE  SyncInv'
<1>1. seqHigh \in Nat /\ seqHigh # Unlisted /\ known' = seqHigh
  BY PhoneFacts DEF OnSessions, Unlisted
<1>2. /\ \/ start_cycle(seqHigh) \/ Quiet \/ Completed
         \/ target' = Greater(target, seqHigh) /\ UNCHANGED <<state, attempts, backoff>>
      /\ Send({Request}) \/ Send({})
      /\ NoFault /\ UNCHANGED <<rows, have, held>>
  BY DEF OnSessions
<1>3. Greater(target, seqHigh) \in Nat
  BY <1>1, PhoneFacts DEF Greater, Cycle
<1>4. target' = Greater(target, seqHigh) /\ UNCHANGED <<state, attempts, backoff>> => Cycle'
  BY <1>3, PhoneFacts DEF Cycle
<1>5. Cycle'
  BY <1>1, <1>2, <1>4, CycleSteps, PhoneFacts
<1>6. net' \subseteq net \cup {Request} /\ faults' \in 0..MaxFaults
  BY <1>2, NetSteps, FaultSteps, PhoneFacts
<1>. QED  BY <1>1, <1>2, <1>5, <1>6, CycleKeeps

(* A batch of acks names the ranges that were held. *)
LEMMA FlushKeeps ==
  ASSUME SyncInv, FlushAcks, UNCHANGED serverVars
  PROVE  SyncInv'
<1>. DEFINE out == {[kind |-> "ack", id |-> i, ranges |-> {a[2] : a \in {b \in held : b[1] = i}}] :
                      i \in {a[1] : a \in held}}
<1>1. Send(out) /\ held' = {} /\ NoFault /\ UNCHANGED <<rows, known, have, state, attempts, target, backoff>>
  BY DEF FlushAcks
<1>2. ASSUME NEW m \in out  PROVE MsgOK(m)'
  <2>1. PICK i \in {a[1] : a \in held} : m = [kind |-> "ack", id |-> i, ranges |-> {a[2] : a \in {b \in held : b[1] = i}}]
    BY <1>2
  <2>2. m.kind = "ack" /\ m.ranges = {a[2] : a \in {b \in held : b[1] = i}}
    BY <2>1
  <2>3. \A r \in m.ranges : Arrived(r)'
    BY <1>1, <2>2, HeldKeeps, PhoneFacts
  <2>. QED  BY <2>2, <2>3 DEF MsgOK
<1>. HIDE DEF out
<1>3. net' \subseteq net \cup out /\ faults' \in 0..MaxFaults
  BY <1>1, NetSteps, FaultSteps, PhoneFacts
<1>4. Cycle'
  BY <1>1, GetOrCreate, PhoneFacts
<1>5. rows \subseteq rows' /\ rows' \subseteq Seqs /\ have' \subseteq rows' /\ (Listed => known' # Unlisted /\ have' = rows')
      /\ known' \in Nat \cup {Unlisted} /\ (\A a \in held' : Arrived(a[2])')
  BY <1>1, PhoneFacts
<1>. QED  BY <1>2, <1>3, <1>4, <1>5, PhoneKeeps

(* on_refresh_reconcile: a cycle is idle only with no attempt spent. *)
LEMMA ReconnectKeeps ==
  ASSUME SyncInv, Reconnect, UNCHANGED serverVars
  PROVE  SyncInv'
<1>. DEFINE idle == IF state \in {"none", "complete"} THEN state ELSE "idle"
            spent == IF state \in {"idle", "complete"} THEN attempts ELSE 0
<1>1. spent = 0 /\ idle \in {"none", "idle", "complete"} /\ (idle = "complete" => attempts = 0)
  BY PhoneFacts DEF Cycle
<1>2. /\ \/ /\ Asks(known, idle, FALSE) /\ Send({Request})
            /\ state' = "requested" /\ attempts' = spent + 1 /\ target' = Greater(known, target)
         \/ /\ Send({}) /\ state' = "complete" /\ target' = target
            /\ attempts' = IF idle = "complete" THEN attempts ELSE 0
         \/ Send({}) /\ state' = idle /\ attempts' = spent /\ target' = target
      /\ backoff' = FALSE /\ Fault("reconnect") /\ UNCHANGED <<rows, known, have, held>>
  BY DEF Reconnect
<1>3. Asks(known, idle, FALSE) => Greater(known, target) \in Nat
  <2>1. Asks(known, idle, FALSE) => known \in Nat
    BY PhoneFacts DEF Asks, Unlisted
  <2>. QED  BY <2>1, PhoneFacts DEF Greater, Cycle
<1>. HIDE DEF idle, spent
<1>4. target' \in Nat
  BY <1>2, <1>3, PhoneFacts DEF Cycle
<1>5. attempts' \in 0..MaxAttempts /\ state' \in States /\ (state' \in {"none", "idle", "complete"} => attempts' = 0)
  <2>1. \/ state' = "requested" /\ attempts' = spent + 1
        \/ state' = "complete" /\ attempts' = IF idle = "complete" THEN attempts ELSE 0
        \/ state' = idle /\ attempts' = spent
    BY <1>2
  <2>2. (state' = "requested" /\ attempts' = 1) \/ (state' \in {"none", "idle", "complete"} /\ attempts' = 0)
    BY <1>1, <2>1
  <2>. QED  BY <2>2, ClientAssumption DEF States
<1>6. Cycle'
  <2>1. backoff' = FALSE
    BY <1>2
  <2>. QED  BY <1>4, <1>5, <2>1 DEF Cycle
<1>7. net' \subseteq net \cup {Request} /\ faults' \in 0..MaxFaults
  <2>1. (Send({Request}) \/ Send({})) /\ Fault("reconnect")
    BY <1>2
  <2>. QED  BY <2>1, NetSteps, FaultSteps, PhoneFacts
<1>. QED  BY <1>2, <1>6, <1>7, CycleKeeps, PhoneFacts

(* The stall sweep and the end of a backoff. *)
LEMMA TimersKeep ==
  ASSUME SyncInv, StallSweep \/ BackoffElapses, UNCHANGED serverVars
  PROVE  SyncInv'
<1>1. CASE StallSweep
  <2>1. (start_cycle(target) \/ GiveUp) /\ (Send({Request}) \/ Send({})) /\ NoFault /\ UNCHANGED <<rows, known, have, held>>
    BY <1>1 DEF StallSweep
  <2>2. target \in Nat /\ Cycle
    BY PhoneFacts DEF Cycle
  <2>3. Cycle'
    BY <2>1, <2>2, CycleSteps
  <2>4. net' \subseteq net \cup {Request} /\ faults' \in 0..MaxFaults
    BY <2>1, NetSteps, FaultSteps, PhoneFacts
  <2>. QED  BY <2>1, <2>3, <2>4, CycleKeeps, PhoneFacts
<1>2. CASE BackoffElapses
  <2>1. backoff' = FALSE /\ net' = net /\ faults' = faults /\ UNCHANGED <<rows, known, have, state, attempts, target, held>>
    BY <1>2 DEF BackoffElapses, relayVars
  <2>2. Cycle'
    BY <2>1, PhoneFacts DEF Cycle
  <2>3. net' \subseteq net \cup {Request} /\ faults' \in 0..MaxFaults
    BY <2>1, PhoneFacts
  <2>. QED  BY <2>1, <2>2, <2>3, CycleKeeps, PhoneFacts
<1>. QED  BY <1>1, <1>2

(* The app starts again: a listed session's coverage is read from the store. *)
LEMMA RestartKeeps ==
  ASSUME SyncInv, RestartPhone, UNCHANGED serverVars
  PROVE  SyncInv'
<1>1. /\ have' = (IF known = Unlisted THEN {} ELSE rows) /\ held' = {} /\ attempts' = 0 /\ target' = 0 /\ backoff' = FALSE
      /\ state' \in {"none", "idle"} /\ net' = net /\ rows' = rows /\ known' = known /\ Fault("phone")
  BY DEF RestartPhone
<1>2. attempts' \in 0..MaxAttempts
  BY <1>1, ClientAssumption
<1>3. Cycle'
  BY <1>1, <1>2 DEF Cycle, States
<1>4. net' \subseteq net /\ faults' \in 0..MaxFaults
  BY <1>1, FaultSteps, PhoneFacts
<1>5. rows \subseteq rows' /\ rows' \subseteq Seqs /\ have' \subseteq rows' /\ (Listed => known' # Unlisted /\ have' = rows')
      /\ known' \in Nat \cup {Unlisted} /\ (\A a \in held' : Arrived(a[2])')
  BY <1>1, PhoneFacts
<1>. QED  BY <1>3, <1>4, <1>5, SilentKeeps

(* A message is lost. *)
LEMMA LostKeeps ==
  ASSUME SyncInv, NEW m, Lost(m)
  PROVE  SyncInv'
<1>1. net' \subseteq net \cup {Request} /\ faults' \in 0..MaxFaults /\ UNCHANGED serverVars /\ UNCHANGED clientVars
  BY FaultSteps, PhoneFacts DEF Lost, Lose
<1>2. Cycle'
  BY <1>1, PhoneFacts DEF Cycle, clientVars
<1>. QED  BY <1>1, <1>2, CycleKeeps, PhoneFacts DEF clientVars

(***************************************************************************)
(* The theorems.                                                           *)
(***************************************************************************)
(* The invariant holds at first: nothing is under way. *)
LEMMA InitTruthful == Init => SyncInv
<1>. SUFFICES ASSUME Init  PROVE SyncInv
  OBVIOUS
<1>. USE RelayAssumption, ServerAssumption, ClientAssumption
<1>1. net = {} /\ held = {} /\ sync = NoSync /\ rows = {} /\ have = {} /\ faults = 0
      /\ high = Backlog /\ stored = 1..Backlog /\ attempts = 0 /\ target = 0 /\ backoff = FALSE
      /\ known = (IF Listed THEN 0 ELSE Unlisted) /\ state = (IF Listed THEN "idle" ELSE "none")
  BY DEF Init, ServerInit, ClientInit
<1>2. SyncOK
  BY <1>1 DEF SyncOK, NoSync
<1>3. ServerTypeOK
  BY <1>1, SMTT(30), ZenonT(30) DEF ServerTypeOK, NoSync
<1>4. ClientTypeOK
  <2>1. known \in Nat \cup {Unlisted} /\ state \in States /\ attempts \in 0..MaxAttempts /\ target \in Nat
    BY <1>1 DEF States
  <2>2. backoff = FALSE /\ held = {} /\ rows = {} /\ have = {}
    BY <1>1
  <2>. QED  BY <2>1, <2>2 DEF ClientTypeOK
<1>5. CycleOK
  BY <1>1 DEF CycleOK, Unlisted
<1>. QED  BY <1>1, <1>2, <1>3, <1>4, <1>5 DEF SyncInv, TypeOK

(* Every step of the bridge, the phone and the relays keeps it. *)
LEMMA NextTruthful == SyncInv /\ [Next]_vars => SyncInv'
<1>. SUFFICES ASSUME SyncInv, [Next]_vars  PROVE SyncInv'
  OBVIOUS
<1>1. ASSUME NEW m \in net, BridgeGets(m)  PROVE SyncInv'
  BY <1>1, RequestKeeps, AckKeeps DEF BridgeGets
<1>2. ASSUME NEW m \in net, PhoneGets(m)  PROVE SyncInv'
  BY <1>2, OutputKeeps, BeginKeeps, ChunkKeeps, EndKeeps DEF PhoneGets
<1>3. ASSUME NEW m \in net, Lost(m)  PROVE SyncInv'
  BY <1>3, LostKeeps
<1>4. CASE BridgeActs
  BY <1>4, TimeoutKeeps, AppendKeeps, RestKeeps DEF BridgeActs
<1>5. CASE PhoneActs
  BY <1>5, SessionsKeeps, FlushKeeps, ReconnectKeeps, TimersKeep, RestartKeeps DEF PhoneActs
<1>6. CASE UNCHANGED vars
  <2>1. net' \subseteq net \cup {Request} /\ faults' \in 0..MaxFaults /\ UNCHANGED serverVars /\ UNCHANGED clientVars
    BY <1>6, PhoneFacts DEF vars, relayVars
  <2>2. Cycle'
    BY <2>1, PhoneFacts DEF Cycle, clientVars
  <2>. QED  BY <2>1, <2>2, CycleKeeps, PhoneFacts DEF clientVars
<1>. QED  BY <1>1, <1>2, <1>3, <1>4, <1>5, <1>6 DEF Next

(* The inductive invariant of the sync holds in every reachable state. *)
THEOREM SyncAlwaysInductive == Spec => []SyncInv
BY InitTruthful, NextTruthful, PTL DEF Spec

(* What the invariant says of an ack, of a sync-end and of the coverage. *)
LEMMA InvIsTruthful ==
  ASSUME SyncInv
  PROVE  TypeOK /\ AckedIsStored /\ EndIsTruthful /\ (Listed => CoverageIsStored)
<1>1. AckedIsStored
  BY DEF SyncInv, SyncOK, Arrived, AckedIsStored, SeqsIn
<1>2. EndIsTruthful
  BY DEF SyncInv, MsgOK, EndIsTruthful
<1>. QED  BY <1>1, <1>2 DEF SyncInv, CycleOK, CoverageIsStored

(* A chunk the bridge takes as acked is in the phone's store, and a        *)
(* `sync-end` names only what was delivered, whatever is lost, repeated,   *)
(* reordered, refused or restarted (SyncServer::ack and finish, dispatch   *)
(* of sync-chunk).                                                         *)
THEOREM AcksAreTruthful == Spec => [](AckedIsStored /\ EndIsTruthful)
<1>1. SyncInv => AckedIsStored /\ EndIsTruthful
  BY InvIsTruthful
<1>. QED  BY <1>1, SyncAlwaysInductive, PTL

(* And for a session of the kept machine list the coverage every request   *)
(* carries is what the store holds, across restarts of the app             *)
(* (integrate_rows, hydrate_from_seqs).                                    *)
THEOREM SyncIsTruthful == ASSUME Listed  PROVE Spec => []SyncTruthful
<1>1. SyncInv => SyncTruthful
  BY InvIsTruthful DEF SyncTruthful
<1>. QED  BY <1>1, SyncAlwaysInductive, PTL
===============================================================================
