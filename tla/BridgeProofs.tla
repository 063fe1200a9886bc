---------------------------- MODULE BridgeProofs ----------------------------
(***************************************************************************)
(* Proofs about the bridge: its transcripts keep what was published        *)
(* (BridgeTranscript), and its listeners count their connections exactly   *)
(* (Listener).                                                             *)
(***************************************************************************)
EXTENDS BridgeTranscript, Listener, FiniteSetTheorems, TLAPS

(***************************************************************************)
(* What BridgeTranscript guarantees for any number of entries, runs of any *)
(* length and any retention limit, as long as the only fault is a crash    *)
(* that leaves a part of a line behind.                                    *)
(***************************************************************************)

\* A running bridge never leaves an unfinished line, and `load` clears the one
\* a crash left.
Tidy ==
  /\ ~refused
  /\ up => file.tail = "clean"
  /\ file.tail = "clean" \/ (file.tail = "torn" /\ file.junk)

\* The file's lines L and the published entries P: consecutive seqs, nothing
\* published behind the last line, the same entry under the same seq, and no
\* published entry missing behind the first line.
LinesFit(L, P) ==
  /\ \A i \in DOMAIN L : L[i].seq = L[1].seq + i - 1
  /\ \A p \in P : L # <<>> /\ p.seq <= L[Len(L)].seq
  /\ \A i \in DOMAIN L, p \in P : L[i].seq = p.seq => L[i] = p
  /\ \A p \in P : \/ \E i \in DOMAIN L : L[i] = p
                  \/ L # <<>> /\ p.seq < L[1].seq

\* The high h continues the lines L behind the d entries of the run under way.
Continues(L, h, d) ==
  /\ d <= Len(L)
  /\ L = <<>> => h + d = 0
  /\ L # <<>> => L[Len(L)].seq = h + d

\* The lines above the high h are the run's, with the contents after f.
RunContent(L, h, f) ==
  \A i \in DOMAIN L : L[i].seq > h => L[i].c = f + (L[i].seq - h)

\* Every published entry is at or below the high.
BelowHigh(P, h) == \A p \in P : p.seq <= h

Running ==
  /\ Continues(file.lines, high, done)
  /\ RunContent(file.lines, high, fresh)
  /\ BelowHigh(published, high)

Inductive ==
  /\ TypeOK
  /\ Tidy
  /\ LinesFit(file.lines, published)
  /\ up => Running
  /\ SeqsUnique

-----------------------------------------------------------------------------
(* The lines kept by `prune` are the last ones, in the same order. *)
LEMMA KeptLines ==
  ASSUME NEW f \in File, NEW k \in Nat \ {0}, Len(f.lines) > k
  PROVE  /\ prune(f, k) \in File
         /\ prune(f, k).tail = "clean"
         /\ Len(prune(f, k).lines) = k
         /\ \A i \in 1 .. k : prune(f, k).lines[i] = f.lines[Len(f.lines) - k + i]
<1> DEFINE n == Len(f.lines)
<1>1. f.lines \in Seq(Entry) /\ n \in Nat
  BY DEF File
<1>2. SubSeq(f.lines, n - k + 1, n) \in Seq(Entry)
  BY <1>1
<1>3. Len(SubSeq(f.lines, n - k + 1, n)) = k
  BY <1>1
<1>4. \A i \in 1 .. k : SubSeq(f.lines, n - k + 1, n)[i] = f.lines[n - k + i]
  BY <1>1
<1>. QED  BY <1>1, <1>2, <1>3, <1>4 DEF prune, File

(* Consecutive lines stay consistent with what was published when only     *)
(* the last k of them are kept.                                            *)
LEMMA SuffixFits ==
  ASSUME NEW L \in Seq(Entry), NEW M \in Seq(Entry), NEW P \in SUBSET Entry,
         NEW k \in Nat \ {0}, Len(L) > k, Len(M) = k,
         \A i \in 1 .. k : M[i] = L[Len(L) - k + i],
         LinesFit(L, P)
  PROVE  /\ LinesFit(M, P)
         /\ M # <<>> /\ M[Len(M)] = L[Len(L)]
<1>. DEFINE n == Len(L)
<1>1. /\ n \in Nat /\ DOMAIN L = 1 .. n /\ DOMAIN M = 1 .. k
      /\ \A i \in 1 .. n : L[i] \in Entry
  OBVIOUS
<1>2. \A i \in 1 .. n : L[i].seq = L[1].seq + i - 1 /\ L[i].seq \in Nat
  BY <1>1 DEF LinesFit, Entry
<1>3. M # <<>> /\ M[k] = L[n] /\ M[1] = L[n - k + 1]
  BY <1>1
<1>4. \A i \in 1 .. k : n - k + i \in 1 .. n
  BY <1>1
<1>5. \A i \in 1 .. k : M[i].seq = M[1].seq + i - 1
  <2>. TAKE i \in 1 .. k
  <2>1. M[i].seq = L[1].seq + (n - k + i) - 1
    BY <1>2, <1>4
  <2>2. M[1].seq = L[1].seq + (n - k + 1) - 1
    BY <1>1, <1>2, <1>3
  <2>. QED  BY <1>1, <1>2, <2>1, <2>2
<1>6. \A p \in P : p.seq <= M[Len(M)].seq
  BY <1>3 DEF LinesFit
<1>7. \A i \in 1 .. k, p \in P : M[i].seq = p.seq => M[i] = p
  <2>. TAKE i \in 1 .. k, p \in P
  <2>1. n - k + i \in DOMAIN L /\ M[i] = L[n - k + i]
    BY <1>1, <1>4
  <2>. QED  BY <2>1 DEF LinesFit
<1>8. ASSUME NEW p \in P
      PROVE  (\E i \in 1 .. k : M[i] = p) \/ p.seq < M[1].seq
  <2>1. p.seq \in Nat /\ M[1].seq = L[1].seq + (n - k) /\ L[1].seq \in Nat
    <3>1. n - k + 1 \in 1 .. n /\ 1 \in 1 .. n
      BY <1>1
    <3>2. M[1].seq = L[1].seq + (n - k + 1) - 1 /\ L[1].seq \in Nat
      BY <1>2, <1>3, <3>1
    <3>3. p.seq \in Nat
      BY DEF Entry
    <3>. QED  BY <1>1, <3>2, <3>3
  <2>2. CASE p.seq < L[1].seq
    BY <1>1, <2>1, <2>2
  <2>3. ASSUME NEW j \in 1 .. n, L[j] = p
        PROVE  (\E i \in 1 .. k : M[i] = p) \/ p.seq < M[1].seq
    <3>1. CASE j > n - k
      <4>. DEFINE i == j - (n - k)
      <4>1. i \in 1 .. k /\ n - k + i = j
        BY <1>1, <3>1
      <4>. QED  BY <2>3, <4>1
    <3>2. CASE j <= n - k
      <4>1. p.seq = L[1].seq + j - 1
        BY <1>2, <2>3
      <4>. QED  BY <1>1, <2>1, <3>2, <4>1
    <3>. QED  BY <1>1, <3>1, <3>2
  <2>. QED  BY <1>1, <2>2, <2>3 DEF LinesFit
<1>. QED  BY <1>1, <1>3, <1>5, <1>6, <1>7, <1>8 DEF LinesFit

(* Appending the next seq keeps the lines consistent. *)
LEMMA AppendFits ==
  ASSUME NEW L \in Seq(Entry), NEW P \in SUBSET Entry, NEW e \in Entry,
         L # <<>> => e.seq = L[Len(L)].seq + 1,
         LinesFit(L, P)
  PROVE  LinesFit(Append(L, e), P)
<1>. DEFINE n == Len(L)
            M == Append(L, e)
<1>1. /\ n \in Nat /\ DOMAIN L = 1 .. n /\ DOMAIN M = 1 .. n + 1 /\ Len(M) = n + 1
      /\ \A i \in 1 .. n : M[i] = L[i] /\ L[i] \in Entry
      /\ M[n + 1] = e /\ M # <<>>
  <2>1. n \in Nat /\ DOMAIN L = 1 .. n /\ \A i \in 1 .. n : L[i] \in Entry
    OBVIOUS
  <2>2. M \in Seq(Entry) /\ Len(M) = n + 1 /\ DOMAIN M = 1 .. n + 1
    OBVIOUS
  <2>3. M[n + 1] = e /\ \A i \in 1 .. n : M[i] = L[i]
    OBVIOUS
  <2>4. M # <<>>
    BY <2>1, <2>2
  <2>. QED  BY <2>1, <2>2, <2>3, <2>4
<1>2. CASE L = <<>>
  <2>1. P = {} /\ n = 0
    BY <1>2 DEF LinesFit
  <2>. QED  BY <1>1, <2>1 DEF LinesFit, Entry
<1>3. CASE L # <<>>
  <2>0. n >= 1
    BY <1>1, <1>3
  <2>1. \A i \in 1 .. n : L[i].seq \in Nat /\ L[i].seq = L[1].seq + i - 1
    BY <1>1 DEF LinesFit, Entry
  <2>2. e.seq = L[1].seq + n
    <3>1. n \in 1 .. n /\ 1 \in 1 .. n
      BY <1>1, <2>0
    <3>2. L[n].seq = L[1].seq + n - 1 /\ L[1].seq \in Nat
      BY <2>1, <3>1
    <3>. QED  BY <1>1, <1>3, <3>2
  <2>3. \A i \in 1 .. n + 1 : M[i].seq = M[1].seq + i - 1
    <3>. TAKE i \in 1 .. n + 1
    <3>1. CASE i = n + 1
      BY <1>1, <2>0, <2>1, <2>2, <3>1
    <3>2. CASE i \in 1 .. n
      BY <1>1, <2>0, <2>1, <3>2
    <3>. QED  BY <1>1, <3>1, <3>2
  <2>4. \A p \in P : p.seq \in Nat /\ p.seq < e.seq
    <3>. TAKE p \in P
    <3>1. p.seq \in Nat /\ p.seq <= L[n].seq
      BY DEF LinesFit, Entry
    <3>2. L[n].seq \in Nat
      BY <1>1, <2>0, <2>1
    <3>. QED  BY <1>3, <3>1, <3>2
  <2>5. \A p \in P : p.seq <= M[n + 1].seq
    BY <1>1, <2>4 DEF Entry
  <2>6. \A i \in 1 .. n + 1, p \in P : M[i].seq = p.seq => M[i] = p
    <3>. TAKE i \in 1 .. n + 1, p \in P
    <3>1. CASE i = n + 1
      BY <1>1, <2>4, <3>1 DEF Entry
    <3>2. CASE i \in 1 .. n
      BY <1>1, <3>2 DEF LinesFit
    <3>. QED  BY <1>1, <3>1, <3>2
  <2>7. \A p \in P : (\E i \in 1 .. n + 1 : M[i] = p) \/ p.seq < M[1].seq
    <3>. TAKE p \in P
    <3>1. CASE p.seq < L[1].seq
      BY <1>1, <2>0, <3>1
    <3>2. ASSUME NEW i \in 1 .. n, L[i] = p
          PROVE  \E j \in 1 .. n + 1 : M[j] = p
      BY <1>1, <3>2
    <3>. QED  BY <1>1, <3>1, <3>2 DEF LinesFit
  <2>. QED  BY <1>1, <2>3, <2>5, <2>6, <2>7 DEF LinesFit
<1>. QED  BY <1>2, <1>3

(* Publishing the run that ends the lines keeps them consistent. *)
LEMMA RunFits ==
  ASSUME NEW L \in Seq(Entry), NEW P \in SUBSET Entry,
         NEW h \in Nat, NEW f \in Nat, NEW d \in Nat \ {0},
         LinesFit(L, P), Continues(L, h, d), RunContent(L, h, f)
  PROVE  LinesFit(L, P \cup {[seq |-> h + i, c |-> f + i] : i \in 1 .. d})
<1>. DEFINE n == Len(L)
            R == {[seq |-> h + i, c |-> f + i] : i \in 1 .. d}
<1>1. /\ n \in Nat /\ DOMAIN L = 1 .. n /\ n >= d
      /\ \A i \in 1 .. n : L[i] \in Entry
      /\ L # <<>> /\ L[n].seq = h + d
  BY DEF Continues
<1>2. \A i \in 1 .. n : L[i].seq \in Nat /\ L[i].seq = L[1].seq + i - 1
  BY <1>1 DEF LinesFit, Entry
<1>3. L[1].seq = h + d - n + 1 /\ L[1].seq \in Nat
  <2>1. n \in 1 .. n /\ 1 \in 1 .. n
    BY <1>1
  <2>2. L[n].seq = L[1].seq + n - 1 /\ L[1].seq \in Nat
    BY <1>2, <2>1
  <2>. QED  BY <1>1, <2>2
<1>4. ASSUME NEW i \in 1 .. d
      PROVE  /\ h + i <= L[n].seq
             /\ n - d + i \in 1 .. n /\ L[n - d + i] = [seq |-> h + i, c |-> f + i]
             /\ \A j \in 1 .. n : L[j].seq = h + i => j = n - d + i
  <2>1. n - d + i \in 1 .. n
    BY <1>1
  <2>2. L[n - d + i].seq = h + i
    <3>1. L[n - d + i].seq = (h + d - n + 1) + (n - d + i) - 1
      BY <1>2, <1>3, <2>1
    <3>. QED  BY <1>1, <3>1
  <2>3. L[n - d + i].c = f + i
    <3>1. h + i > h /\ h + i - h = i
      OBVIOUS
    <3>2. n - d + i \in DOMAIN L
      BY <1>1, <2>1
    <3>3. L[n - d + i].seq > h
      BY <2>2, <3>1
    <3>4. L[n - d + i].c = f + (L[n - d + i].seq - h)
      BY <3>2, <3>3 DEF RunContent
    <3>. QED  BY <2>2, <3>1, <3>4
  <2>4. L[n - d + i] = [seq |-> h + i, c |-> f + i]
    BY <1>1, <2>1, <2>2, <2>3 DEF Entry
  <2>5. \A j \in 1 .. n : L[j].seq = h + i => j = n - d + i
    <3>. TAKE j \in 1 .. n
    <3>1. L[j].seq = (h + d - n + 1) + j - 1
      BY <1>2, <1>3
    <3>2. n \in Nat /\ n >= d
      BY <1>1
    <3>3. ASSUME (h + d - n + 1) + j - 1 = h + i  PROVE j = n - d + i
      BY <3>2, <3>3
    <3>. QED  BY <3>1, <3>3
  <2>. QED  BY <1>1, <2>1, <2>4, <2>5
<1>5. ASSUME NEW p \in R
      PROVE  /\ p.seq <= L[n].seq
             /\ \A j \in 1 .. n : L[j].seq = p.seq => L[j] = p
             /\ \E j \in 1 .. n : L[j] = p
  <2>1. PICK i \in 1 .. d : p = [seq |-> h + i, c |-> f + i]
    OBVIOUS
  <2>2. p.seq = h + i
    BY <2>1
  <2>. QED  BY <1>4, <2>1, <2>2
<1>. QED  BY <1>1, <1>5 DEF LinesFit

-----------------------------------------------------------------------------
(* A retention sweep of tidy lines keeps them tidy and consistent, and     *)
(* keeps the last line.                                                    *)
LEMMA SweepFits ==
  ASSUME NEW f \in File, NEW P \in SUBSET Entry, f.tail = "clean", LinesFit(f.lines, P)
  PROVE  /\ run_retention(f) \in File
         /\ run_retention(f).tail = "clean"
         /\ LinesFit(run_retention(f).lines, P)
         /\ f.lines = <<>> <=> run_retention(f).lines = <<>>
         /\ f.lines # <<>> => run_retention(f).lines[Len(run_retention(f).lines)]
                                = f.lines[Len(f.lines)]
<1>. DEFINE g == run_retention(f)
<1>1. KeepLast \in Nat /\ f.lines \in Seq(Entry) /\ Len(f.lines) \in Nat
  BY TranscriptAssumption DEF File
<1>2. CASE KeepLast = 0 \/ ~(Len(f.lines) > KeepLast)
  <2>1. g = f
    BY <1>2 DEF run_retention, prune
  <2>. QED  BY <2>1
<1>3. CASE KeepLast # 0 /\ Len(f.lines) > KeepLast
  <2>1. g = prune(f, KeepLast) /\ KeepLast \in Nat \ {0}
    BY <1>1, <1>3 DEF run_retention
  <2>2. /\ g \in File /\ g.tail = "clean" /\ Len(g.lines) = KeepLast
        /\ \A i \in 1 .. KeepLast : g.lines[i] = f.lines[Len(f.lines) - KeepLast + i]
    BY <1>3, <2>1, KeptLines
  <2>3. g.lines \in Seq(Entry)
    BY <2>2 DEF File
  <2>4. /\ LinesFit(g.lines, P)
        /\ g.lines # <<>> /\ g.lines[Len(g.lines)] = f.lines[Len(f.lines)]
    BY <1>1, <1>3, <2>1, <2>2, <2>3, SuffixFits
  <2>5. f.lines # <<>>
    BY <1>1, <1>3
  <2>. QED  BY <2>2, <2>4, <2>5
<1>. QED  BY <1>2, <1>3

(* `load` finds the seq of the last of consecutive lines. *)
LEMMA HighOfLast ==
  ASSUME NEW L \in Seq(Entry), \A i \in DOMAIN L : L[i].seq = L[1].seq + i - 1
  PROVE  /\ L = <<>> => HighOf(L) = 0
         /\ L # <<>> => HighOf(L) = L[Len(L)].seq
<1>. DEFINE n == Len(L)
            S == {0} \cup {L[i].seq : i \in DOMAIN L}
<1>1. /\ n \in Nat /\ DOMAIN L = 1 .. n
      /\ \A i \in 1 .. n : L[i].seq \in Nat
  <2>1. n \in Nat /\ DOMAIN L = 1 .. n /\ \A i \in 1 .. n : L[i] \in Entry
    OBVIOUS
  <2>. QED  BY <2>1 DEF Entry
<1>2. CASE L = <<>>
  <2>1. \A h : h \in S <=> h = 0
    BY <1>1, <1>2
  <2>. QED  BY <1>1, <1>2, <2>1 DEF HighOf
<1>3. CASE L # <<>>
  <2>1. n \in 1 .. n /\ 1 \in 1 .. n
    BY <1>1, <1>3
  <2>2. L[n].seq = L[1].seq + n - 1 /\ L[1].seq \in Nat
    BY <1>1, <2>1
  <2>3. \A i \in DOMAIN L : L[i].seq <= L[n].seq
    <3>. TAKE i \in DOMAIN L
    <3>1. L[i].seq = L[1].seq + i - 1 /\ i \in 1 .. n
      BY <1>1
    <3>. QED  BY <1>1, <2>2, <3>1
  <2>4. L[n].seq \in S
    BY <1>1, <2>1
  <2>5. \E h \in S : \A i \in DOMAIN L : L[i].seq <= h
    BY <2>3, <2>4 DEF Entry
  <2>6. HighOf(L) \in S /\ \A i \in DOMAIN L : L[i].seq <= HighOf(L)
    BY <2>5 DEF HighOf
  <2>7. L[n].seq <= HighOf(L)
    BY <1>1, <2>1, <2>6
  <2>8. HighOf(L) <= L[n].seq
    BY <1>1, <2>1, <2>3, <2>6
  <2>9. HighOf(L) \in Nat /\ L[n].seq \in Nat
    BY <1>1, <2>1, <2>6
  <2>. QED  BY <1>3, <2>7, <2>8, <2>9
<1>. QED  BY <1>2, <1>3

-----------------------------------------------------------------------------
(* The store as the first start finds it. *)
LEMMA InitInductive == Init => Inductive
<1>. SUFFICES ASSUME Init  PROVE Inductive
  OBVIOUS
<1>1. file \in File /\ file.lines = <<>> /\ file.tail = "clean"
  BY DEF Init, File
<1>2. TypeOK
  <2>1. high \in Nat /\ batch \in Nat /\ done \in 0 .. batch /\ fresh \in Nat
    BY DEF Init
  <2>2. up \in BOOLEAN /\ refused \in BOOLEAN /\ published \subseteq Entry
    BY DEF Init
  <2>. QED  BY <1>1, <2>1, <2>2 DEF TypeOK
<1>3. LinesFit(file.lines, published) /\ Running
  BY <1>1 DEF Init, LinesFit, Running, Continues, RunContent, BelowHigh
<1>4. SeqsUnique
  BY DEF Init, SeqsUnique
<1>5. Tidy
  <2>1. ~refused
    BY DEF Init
  <2>. QED  BY <1>1, <2>1 DEF Tidy
<1>. QED  BY <1>2, <1>3, <1>4, <1>5 DEF Inductive

(* A step that leaves the file and what was published alone. *)
LEMMA Untouched ==
  ASSUME Inductive, file' = file, published' = published
  PROVE  /\ LinesFit(file.lines, published)' /\ SeqsUnique'
         /\ file' \in File /\ published' \in SUBSET Entry
BY DEF Inductive, TypeOK, LinesFit, SeqsUnique

(* An append takes its turn at the session. *)
LEMMA BeginAppendInductive ==
  ASSUME Inductive, NEW n \in 1 .. MaxRun, BeginAppend(n)
  PROVE  Inductive'
<1>1. MaxRun \in Nat /\ n \in Nat
  BY TranscriptAssumption
<1>2. done = 0 /\ done' = 0
  BY DEF Inductive, TypeOK, BeginAppend
<1>3. TypeOK'
  BY <1>1, <1>2 DEF Inductive, TypeOK, BeginAppend
<1>4. Tidy' /\ (up => Running)'
  BY DEF Inductive, Tidy, BeginAppend, Running
<1>. QED  BY <1>3, <1>4, Untouched DEF BeginAppend, Inductive

(* An entry is stored, or its write fails. *)
LEMMA StoreEntryInductive ==
  ASSUME Inductive, StoreEntry
  PROVE  Inductive'
<1>. DEFINE L == file.lines
<1>0. up /\ ~refused /\ file.tail = "clean" /\ file \in File
  BY DEF Inductive, TypeOK, Tidy, StoreEntry
<1>1. /\ L \in Seq(Entry) /\ published \in SUBSET Entry
      /\ high \in Nat /\ done \in Nat /\ batch \in Nat /\ fresh \in Nat /\ done < batch
  <2>1. done \in 0 .. batch /\ batch \in Nat
    BY DEF Inductive, TypeOK
  <2>. QED  BY <1>0, <2>1 DEF Inductive, TypeOK, File, StoreEntry
<1>2. Current \in Entry /\ Current.seq = high + done + 1 /\ Current.c = fresh + done + 1
  BY <1>1 DEF Current, Entry
<1>3. file' = [file EXCEPT !.lines = Append(L, Current)]
  BY <1>0 DEF StoreEntry, WriteLine
<1>4. file'.lines = Append(L, Current) /\ file'.tail = "clean" /\ file' \in File
  <2>1. Append(L, Current) \in Seq(Entry)
    BY <1>1, <1>2
  <2>2. \A S \in Seq(Entry) : LET g == [file EXCEPT !.lines = S]
                             IN  g \in File /\ g.lines = S /\ g.tail = file.tail
    BY <1>0 DEF File
  <2>. QED  BY <1>0, <1>3, <2>1, <2>2
<1>5. Running
  BY <1>0 DEF Inductive
<1>6. LinesFit(file'.lines, published')
  <2>1. L # <<>> => Current.seq = L[Len(L)].seq + 1
    BY <1>1, <1>2, <1>5 DEF Running, Continues
  <2>2. LinesFit(Append(L, Current), published)
    BY <1>1, <1>2, <2>1, AppendFits DEF Inductive
  <2>. QED  BY <1>4, <2>2 DEF StoreEntry
<1>7. /\ Len(file'.lines) = Len(L) + 1 /\ Len(L) \in Nat /\ file'.lines # <<>>
      /\ file'.lines[Len(L) + 1] = Current
      /\ DOMAIN file'.lines = 1 .. Len(L) + 1
      /\ \A i \in 1 .. Len(L) : file'.lines[i] = L[i]
  BY <1>1, <1>2, <1>4
<1>8. Continues(file'.lines, high', done')
  <2>1. high' = high /\ done' = done + 1 /\ done <= Len(L)
    BY <1>5 DEF StoreEntry, Running, Continues
  <2>2. PICK M : M = file'.lines
    OBVIOUS
  <2>3. Len(M) = Len(L) + 1 /\ M # <<>> /\ M[Len(M)].seq = high + done + 1
    BY <1>2, <1>7, <2>2
  <2>. QED  BY <1>1, <1>7, <2>1, <2>2, <2>3 DEF Continues
<1>9. RunContent(file'.lines, high', fresh')
  <2>. SUFFICES ASSUME NEW i \in 1 .. Len(L) + 1, file'.lines[i].seq > high
                PROVE  file'.lines[i].c = fresh + (file'.lines[i].seq - high)
    BY <1>7 DEF RunContent, StoreEntry
  <2>1. CASE i = Len(L) + 1
    BY <1>1, <1>2, <1>7, <2>1
  <2>2. CASE i \in 1 .. Len(L)
    BY <1>1, <1>5, <1>7, <2>2 DEF Running, RunContent
  <2>. QED  BY <1>7, <2>1, <2>2
<1>10. BelowHigh(published', high')
  BY <1>5 DEF Running, BelowHigh, StoreEntry
<1>11. TypeOK'
  <2>1. done' \in 0 .. batch'
    BY <1>1 DEF StoreEntry
  <2>. QED  BY <1>4, <2>1 DEF Inductive, TypeOK, StoreEntry
<1>12. Tidy'
  <2>1. ~refused'
    BY <1>0 DEF StoreEntry
  <2>. QED  BY <1>4, <2>1 DEF Tidy
<1>13. SeqsUnique'
  BY DEF Inductive, SeqsUnique, StoreEntry
<1>14. Running'
  BY <1>8, <1>9, <1>10 DEF Running
<1>. QED  BY <1>6, <1>11, <1>12, <1>13, <1>14 DEF Inductive

(* A stored entry is published. *)
LEMMA PublishInductive ==
  ASSUME Inductive, Publish
  PROVE  Inductive'
<1>. DEFINE L == file.lines
<1>0. up /\ ~refused /\ file.tail = "clean" /\ file \in File /\ Running
  BY DEF Inductive, TypeOK, Tidy, Publish
<1>1. /\ L \in Seq(Entry) /\ published \in SUBSET Entry
      /\ high \in Nat /\ batch \in Nat \ {0} /\ fresh \in Nat /\ done = batch
  BY <1>0 DEF Inductive, TypeOK, File, Publish
<1>2. /\ file' = file /\ up' /\ ~refused'
      /\ high' = high + batch /\ fresh' = fresh + batch /\ done' = 0 /\ batch' = 0
      /\ published' = published \cup Run
  BY <1>0 DEF Publish
<1>3. Run \in SUBSET Entry /\ \A p \in Run : p.seq > high /\ p.seq <= high + batch
  BY <1>1 DEF Run, Entry
<1>4. TypeOK'
  <2>1. high' \in Nat /\ batch' \in Nat /\ done' \in 0 .. batch' /\ fresh' \in Nat
    BY <1>1, <1>2
  <2>2. published' \subseteq Entry /\ file' \in File
    BY <1>0, <1>1, <1>2, <1>3
  <2>3. up' \in BOOLEAN /\ refused' \in BOOLEAN
    BY DEF Inductive, TypeOK, Publish
  <2>. QED  BY <2>1, <2>2, <2>3 DEF TypeOK
<1>5. Tidy'
  BY <1>0, <1>2 DEF Tidy
<1>6. LinesFit(file.lines, published)'
  <2>1. LinesFit(L, published \cup Run)
    BY <1>0, <1>1, RunFits DEF Inductive, Running, Run
  <2>. QED  BY <1>2, <2>1
<1>7. Running'
  <2>1. Len(L) \in Nat /\ DOMAIN L = 1 .. Len(L) /\ \A i \in DOMAIN L : L[i] \in Entry
    BY <1>1
  <2>2. Continues(L, high + batch, 0)
    BY <1>0, <1>1, <2>1 DEF Running, Continues
  <2>3. \A i \in DOMAIN L : L[i].seq <= high + batch
    <3>. TAKE i \in DOMAIN L
    <3>2. L # <<>> /\ 1 \in DOMAIN L /\ Len(L) \in DOMAIN L
      BY <2>1
    <3>1. L[i].seq = L[1].seq + i - 1 /\ L[Len(L)].seq = L[1].seq + Len(L) - 1
      BY <3>2 DEF Inductive, LinesFit
    <3>3. L[Len(L)].seq = high + batch
      BY <1>0, <1>1, <3>2 DEF Running, Continues
    <3>4. L[1].seq \in Nat
      BY <2>1, <3>2 DEF Entry
    <3>. QED  BY <1>1, <2>1, <3>1, <3>3, <3>4
  <2>4. RunContent(L, high + batch, fresh + batch)
    <3>. SUFFICES ASSUME NEW i \in DOMAIN L  PROVE ~(L[i].seq > high + batch)
      BY DEF RunContent
    <3>1. L[i].seq \in Nat /\ L[i].seq <= high + batch
      BY <2>1, <2>3 DEF Entry
    <3>. QED  BY <1>1, <3>1
  <2>5. BelowHigh(published \cup Run, high + batch)
    <3>. SUFFICES ASSUME NEW p \in published  PROVE p.seq <= high + batch
      BY <1>3 DEF BelowHigh
    <3>1. p.seq \in Nat /\ p.seq <= high
      BY <1>0, <1>1 DEF Running, BelowHigh, Entry
    <3>. QED  BY <1>1, <3>1
  <2>. QED  BY <1>2, <2>2, <2>4, <2>5 DEF Running
<1>8. SeqsUnique'
  <2>1. \A p, q \in Run : p.seq = q.seq => p.c = q.c
    BY <1>1 DEF Run
  <2>2. \A p \in published : p.seq \in Nat /\ p.seq <= high
    BY <1>0, <1>1 DEF Running, BelowHigh, Entry
  <2>3. \A p \in published, q \in Run : p.seq # q.seq
    <3>. TAKE p \in published, q \in Run
    <3>1. q.seq \in Nat /\ q.seq > high
      BY <1>3 DEF Entry
    <3>. QED  BY <1>1, <2>2, <3>1
  <2>4. \A p, q \in published : p.seq = q.seq => p.c = q.c
    BY DEF Inductive, SeqsUnique
  <2>. QED  BY <1>2, <2>1, <2>3, <2>4 DEF SeqsUnique
<1>. QED  BY <1>4, <1>5, <1>6, <1>7, <1>8 DEF Inductive

(* Once the high is the seq of the last line, the next run continues there. *)
LEMMA LastContinues ==
  ASSUME NEW M \in Seq(Entry), NEW P \in SUBSET Entry, NEW h \in Nat, NEW c \in Nat,
         LinesFit(M, P), M = <<>> => h = 0, M # <<>> => M[Len(M)].seq = h
  PROVE  Continues(M, h, 0) /\ RunContent(M, h, c) /\ BelowHigh(P, h)
<1>1. Len(M) \in Nat /\ DOMAIN M = 1 .. Len(M) /\ \A i \in DOMAIN M : M[i] \in Entry
  OBVIOUS
<1>2. Continues(M, h, 0)
  BY <1>1 DEF Continues
<1>3. ASSUME NEW i \in DOMAIN M  PROVE ~(M[i].seq > h)
  <2>1. M # <<>> /\ 1 \in DOMAIN M /\ Len(M) \in DOMAIN M
    BY <1>1
  <2>2. M[i].seq = M[1].seq + i - 1 /\ M[Len(M)].seq = M[1].seq + Len(M) - 1
    BY <2>1 DEF LinesFit
  <2>3. M[1].seq \in Nat
    BY <1>1, <2>1 DEF Entry
  <2>. QED  BY <1>1, <2>1, <2>2, <2>3
<1>. QED  BY <1>2, <1>3 DEF RunContent, BelowHigh, LinesFit

(* A retention sweep when no run is being stored. *)
LEMMA SweepInductive ==
  ASSUME Inductive, NEW STATE f, f \in File, f.lines = file.lines, f.tail = "clean",
         file' = run_retention(f), up', ~refused', up' \in BOOLEAN, refused' \in BOOLEAN,
         done' = 0, batch' = 0, fresh' = fresh, published' = published, high' \in Nat,
         file.lines = <<>> => high' = 0,
         file.lines # <<>> => high' = file.lines[Len(file.lines)].seq
  PROVE  Inductive'
<1>. DEFINE L == file.lines
            M == file'.lines
<1>1. published \in SUBSET Entry /\ LinesFit(L, published) /\ fresh \in Nat
  BY DEF Inductive, TypeOK
<1>2. /\ file' \in File /\ file'.tail = "clean" /\ LinesFit(M, published)
      /\ L = <<>> <=> M = <<>>
      /\ L # <<>> => M[Len(M)] = L[Len(L)]
  BY <1>1, SweepFits
<1>3. M \in Seq(Entry) /\ Len(M) \in Nat /\ DOMAIN M = 1 .. Len(M)
  BY <1>2 DEF File
<1>4. TypeOK'
  <2>1. high' \in Nat /\ batch' \in Nat /\ done' \in 0 .. batch' /\ fresh' \in Nat
    BY <1>1
  <2>2. published' \subseteq Entry
    BY <1>1
  <2>. QED  BY <1>2, <2>1, <2>2 DEF TypeOK
<1>5. Tidy'
  BY <1>2 DEF Tidy
<1>6. LinesFit(file.lines, published)'
  BY <1>2
<1>7. (M = <<>> => high' = 0) /\ (M # <<>> => M[Len(M)].seq = high')
  BY <1>2
<1>8. /\ Continues(M, high', 0) /\ RunContent(M, high', fresh)
      /\ BelowHigh(published, high')
  BY <1>1, <1>2, <1>3, <1>7, LastContinues
<1>11. SeqsUnique'
  BY DEF Inductive, SeqsUnique
<1>12. Running'
  BY <1>8 DEF Running
<1>. QED  BY <1>4, <1>5, <1>6, <1>11, <1>12 DEF Inductive

(* Retention removes the oldest entries. *)
LEMMA RetentionInductive ==
  ASSUME Inductive, Retention
  PROVE  Inductive'
<1>1. /\ up /\ ~refused /\ file \in File /\ file.tail = "clean" /\ Running
      /\ batch = 0 /\ done = 0 /\ high \in Nat
  <2>1. batch = 0 /\ done \in 0 .. batch
    BY DEF Inductive, TypeOK, Retention
  <2>. QED  BY <2>1 DEF Inductive, TypeOK, Tidy, Retention
<1>2. /\ file.lines = <<>> => high = 0
      /\ file.lines # <<>> => high = file.lines[Len(file.lines)].seq
  BY <1>1 DEF Running, Continues
<1>3. up' /\ ~refused' /\ up' \in BOOLEAN /\ refused' \in BOOLEAN
  BY <1>1 DEF Inductive, TypeOK, Retention
<1>. QED  BY <1>1, <1>2, <1>3, SweepInductive DEF Retention

(* The bridge stops between two steps. *)
LEMMA CrashInductive ==
  ASSUME intact', Inductive, Crash
  PROVE  Inductive'
<1>2. /\ up /\ file \in File /\ file.tail = "clean"
      /\ fresh \in Nat /\ batch \in Nat /\ published \in SUBSET Entry
  BY DEF Inductive, TypeOK, Tidy, Crash
<1>3. file' = file \/ file' = WritePart(file)
  BY DEF Crash
<1>4. /\ WritePart(file) = [lines |-> file.lines, tail |-> "torn", junk |-> TRUE]
      /\ file.lines \in Seq(Entry)
  BY <1>2 DEF WritePart, LinesBelow, File
<1>5. /\ file' \in File /\ file'.lines = file.lines
      /\ file'.tail = "clean" \/ (file'.tail = "torn" /\ file'.junk)
  <2>. DEFINE g == [lines |-> file.lines, tail |-> "torn", junk |-> TRUE]
  <2>1. g \in File /\ g.lines = file.lines /\ g.tail = "torn"
    BY <1>4 DEF File
  <2>2. g.junk
    OBVIOUS
  <2>3. CASE file' = g
    BY <2>1, <2>2, <2>3
  <2>4. CASE file' = file
    BY <1>2, <2>4
  <2>. QED  BY <1>3, <1>4, <2>3, <2>4
<1>6. ~up' /\ up' \in BOOLEAN
  BY DEF Crash
<1>7. ~refused' /\ refused' \in BOOLEAN
  BY DEF Crash, Inductive, TypeOK, Tidy
<1>8. TypeOK'
  <2>1. high' \in Nat /\ batch' \in Nat /\ done' \in 0 .. batch' /\ fresh' \in Nat
    BY <1>2 DEF Crash
  <2>2. published' \subseteq Entry
    BY <1>2 DEF Crash
  <2>. QED  BY <1>5, <1>6, <1>7, <2>1, <2>2 DEF TypeOK
<1>9. Tidy'
  BY <1>5, <1>6, <1>7 DEF Tidy
<1>10. LinesFit(file.lines, published)' /\ SeqsUnique'
  <2>1. published' = published
    BY DEF Crash
  <2>. QED  BY <1>5, <2>1 DEF Inductive, SeqsUnique
<1>. QED  BY <1>6, <1>8, <1>9, <1>10 DEF Inductive

(* The bridge starts and reads its store. *)
LEMMA StartInductive ==
  ASSUME intact', Inductive, Start
  PROVE  Inductive'
<1>. DEFINE f == Rewritten(file)
<1>2. /\ ~up /\ file \in File /\ published \in SUBSET Entry
      /\ LinesFit(file.lines, published)
  BY DEF Inductive, TypeOK, Start
<1>3. up' /\ ~refused' /\ up' \in BOOLEAN /\ refused' \in BOOLEAN
  BY DEF Start
<1>4. file' = run_retention(f) /\ high' = HighOf(file.lines)
  BY DEF Start
<1>5. f \in File /\ f.lines = file.lines /\ f.tail = "clean"
  <2>1. CASE file.junk
    <3>1. f = [file EXCEPT !.tail = "clean", !.junk = FALSE]
      BY <2>1 DEF Rewritten
    <3>. QED  BY <1>2, <3>1 DEF File
  <2>2. CASE ~file.junk
    BY <1>2, <2>2 DEF Rewritten, Inductive, Tidy
  <2>. QED  BY <2>1, <2>2
<1>6. /\ file.lines = <<>> => high' = 0
      /\ file.lines # <<>> => high' = file.lines[Len(file.lines)].seq
  BY <1>2, <1>4, HighOfLast DEF File, LinesFit
<1>7. high' \in Nat
  <2>1. file.lines \in Seq(Entry)
    BY <1>2 DEF File
  <2>2. file.lines # <<>> => file.lines[Len(file.lines)] \in Entry
    BY <2>1
  <2>. QED  BY <1>6, <2>2 DEF Entry
<1>8. batch' = 0 /\ done' = 0 /\ fresh' = fresh /\ published' = published
  BY DEF Start
<1>. QED  BY <1>3, <1>4, <1>5, <1>6, <1>7, <1>8, SweepInductive

(* Every step keeps the invariant, one lemma per action; the failing store *)
(* cannot happen without write faults or a refused file.                   *)
LEMMA NextInductive ==
  ASSUME intact', Inductive, [Next]_vars
  PROVE  Inductive'
<1>1. CASE UNCHANGED vars
  BY <1>1 DEF vars, Inductive, TypeOK, Tidy, Running, SeqsUnique
<1>2. CASE \E n \in 1 .. MaxRun : BeginAppend(n)
  BY <1>2, BeginAppendInductive
<1>3. CASE StoreEntry
  BY <1>3, StoreEntryInductive
<1>4. CASE StoreFails
  BY <1>4 DEF StoreFails, Inductive, Tidy
<1>5. CASE Publish
  BY <1>5, PublishInductive
<1>6. CASE Retention
  BY <1>6, RetentionInductive
<1>7. CASE Crash
  BY <1>7, CrashInductive
<1>8. CASE Start
  BY <1>8, StartInductive
<1>. QED  BY <1>1, <1>2, <1>3, <1>4, <1>5, <1>6, <1>7, <1>8 DEF Next

(* A state that a fault other than a torn line has harmed stays harmed. *)
LEMMA HarmStays == ASSUME [Next]_vars, intact'  PROVE intact
BY DEF Next, vars, BeginAppend, StoreEntry, StoreFails, Publish, Retention, Crash, Start

(* The invariant holds in every reachable state, as long as no fault       *)
(* happened but crashes that tear a line.                                  *)
THEOREM AlwaysInductive == Spec => [](intact => Inductive)
<1>1. Init => (intact => Inductive)
  BY InitInductive
<1>2. (intact => Inductive) /\ [Next]_vars => (intact => Inductive)'
  BY NextInductive, HarmStays
<1>. QED  BY <1>1, <1>2, PTL DEF Spec

(* Engine::append never gives a published seq to another entry, across any *)
(* number of crashes and restarts, for any run length and retention limit. *)
THEOREM SeqsNeverRenumbered == Spec => []NeverRenumbered
<1>1. (intact => Inductive) => NeverRenumbered
  BY DEF Inductive, NeverRenumbered
<1>. QED  BY <1>1, AlwaysInductive, PTL

(* What sync reads under a seq is what was sent live under it, and every   *)
(* entry sent live is still there unless retention dropped it.             *)
THEOREM TranscriptSurvives == Spec => [](StoredAgreesWithPublished /\ PublishedSurvives)
<1>1. (intact => Inductive) => StoredAgreesWithPublished /\ PublishedSurvives
  BY DEF Inductive, LinesFit, StoredAgreesWithPublished, PublishedSurvives
<1>. QED  BY <1>1, AlwaysInductive, PTL

(* The lines of the file stay in the order of their seqs, so the binary    *)
(* search of FileTranscripts::read finds the range it is asked for.        *)
THEOREM LinesStaySorted == Spec => []FileSeqsIncrease
<1>1. ASSUME Inductive  PROVE \A i, j \in DOMAIN file.lines : i < j => file.lines[i].seq < file.lines[j].seq
  <2>1. file.lines \in Seq(Entry)
    BY <1>1 DEF Inductive, TypeOK, File
  <2>2. \A i \in DOMAIN file.lines : file.lines[i].seq = file.lines[1].seq + i - 1
    BY <1>1 DEF Inductive, LinesFit
  <2>3. \A i \in DOMAIN file.lines : i \in Nat /\ file.lines[i] \in Entry
    BY <2>1
  <2>. SUFFICES ASSUME NEW i \in DOMAIN file.lines, NEW j \in DOMAIN file.lines, i < j
                PROVE  file.lines[i].seq < file.lines[j].seq
    OBVIOUS
  <2>4. DOMAIN file.lines = 1 .. Len(file.lines) /\ Len(file.lines) \in Nat
    BY <2>1
  <2>5. i \in Nat /\ j \in Nat /\ file.lines[1].seq \in Nat
    BY <2>3, <2>4 DEF Entry
  <2>6. file.lines[i].seq = file.lines[1].seq + i - 1 /\ file.lines[j].seq = file.lines[1].seq + j - 1
    BY <2>2
  <2>. QED  BY <2>5, <2>6
<1>2. (intact => Inductive) => FileSeqsIncrease
  BY <1>1 DEF FileSeqsIncrease
<1>. QED  BY <1>2, AlwaysInductive, PTL

(* The file keeps what was published: it agrees with it, holds all of it   *)
(* that retention kept, and stays sorted.                                  *)
THEOREM TranscriptIsKept == Spec => []TranscriptKept
<1>1. StoredAgreesWithPublished /\ PublishedSurvives /\ FileSeqsIncrease => TranscriptKept
  BY DEF TranscriptKept
<1>. QED  BY <1>1, TranscriptSurvives, LinesStaySorted, PTL

(***************************************************************************)
(* The connections a listener counts.                                      *)
(***************************************************************************)

Steps == {"secure", "head", "hello", "link", "body", "write", "answer"}
Served == DOMAIN socks
Of(h) == {n \in Served : socks[n].host = h}
Busy == {n \in Served : socks[n].step \in {"body", "write"}}

\* A connection has a number of its own, a host and a step.
SocksFit ==
  /\ arrived \in Nat /\ Served \subseteq 1 .. arrived
  /\ \A n \in Served : /\ DOMAIN socks[n] = {"host", "step", "request"}
                       /\ socks[n].host \in Hosts /\ socks[n].step \in Steps
  /\ open \in Nat /\ openByHost \in [Hosts -> Nat] /\ serving \in Nat

ListenInv == SocksFit /\ CountsExact /\ ChangesAreSignedIn

LEMMA ServedFinite ==
  ASSUME SocksFit
  PROVE  IsFiniteSet(Served) /\ IsFiniteSet(Busy) /\ \A h : IsFiniteSet(Of(h))
<1>1. IsFiniteSet(1 .. arrived)
  BY FS_Interval DEF SocksFit
<1>2. IsFiniteSet(Served)
  BY <1>1, FS_Subset DEF SocksFit
<1> QED
  BY <1>2, FS_Subset DEF Busy, Of

LEMMA ListenStarts == ListenInit => ListenInv
<1> SUFFICES ASSUME ListenInit PROVE ListenInv
  OBVIOUS
<1>1. Served = {} /\ Busy = {} /\ \A h : Of(h) = {}
  BY DEF ListenInit, Served, Busy, Of
<1>2. SocksFit
  BY <1>1 DEF ListenInit, SocksFit
<1>3. Cardinality({}) = 0
  BY FS_EmptySet
<1>4. CountsExact
  BY <1>1, <1>3, ListenAssumption DEF ListenInit, CountsExact, Served, Busy, Of
<1>5. ChangesAreSignedIn
  BY DEF ListenInit, ChangesAreSignedIn
<1> QED
  BY <1>2, <1>4, <1>5 DEF ListenInv

\* The counts, said of the sets they count.
LEMMA CountsAre ==
  CountsExact <=> /\ open = Cardinality(Served) /\ open <= MaxPageConnections
                  /\ \A h \in Hosts : openByHost[h] = Cardinality(Of(h)) /\ openByHost[h] <= MaxPerHost
                  /\ serving = Cardinality(Busy) /\ serving <= MaxPageRequests
BY DEF CountsExact, Served, Of, Busy

LEMMA CountsBecome ==
  CountsExact' <=> /\ open' = Cardinality(Served') /\ open' <= MaxPageConnections
                   /\ \A h \in Hosts : openByHost'[h] = Cardinality(Of(h)') /\ openByHost'[h] <= MaxPerHost
                   /\ serving' = Cardinality(Busy') /\ serving' <= MaxPageRequests
BY DEF CountsExact, Served, Of, Busy

\* A connection is over: it is counted no more.
LEMMA TaskEnds ==
  ASSUME ListenInv, NEW n \in Served, n \notin Busy, TaskOver(n), UNCHANGED <<arrived, serving>>
  PROVE  SocksFit' /\ CountsExact'
<1>0. SocksFit /\ CountsExact
  BY DEF ListenInv
<1>1. /\ socks' = [m \in Served \ {n} |-> socks[m]] /\ open' = open - 1
      /\ openByHost' = [openByHost EXCEPT ![socks[n].host] = @ - 1]
  BY DEF TaskOver, Served
<1>2. Served' = Served \ {n} /\ \A m \in Served' : socks'[m] = socks[m]
  BY <1>1 DEF Served
<1>3. PICK host \in Hosts : host = socks[n].host
  BY <1>0 DEF SocksFit
<1>4. Busy' = Busy
  BY <1>2 DEF Busy
<1>5. Of(host)' = Of(host) \ {n} /\ n \in Of(host) /\ \A h : h # host => Of(h)' = Of(h)
  BY <1>2, <1>3 DEF Of
<1>6. /\ IsFiniteSet(Served) /\ IsFiniteSet(Busy) /\ \A h : IsFiniteSet(Of(h))
  BY <1>0, ServedFinite
<1>7. Cardinality(Served') = Cardinality(Served) - 1 /\ Cardinality(Of(host)') = Cardinality(Of(host)) - 1
  BY <1>2, <1>5, <1>6, FS_RemoveElement
<1>8. Cardinality(Served') \in Nat /\ Cardinality(Of(host)') \in Nat
  <2>1. IsFiniteSet(Served') /\ IsFiniteSet(Of(host)')
    BY <1>2, <1>5, <1>6, FS_RemoveElement
  <2> QED
    BY <2>1, FS_CardinalityType
<1>9. /\ open = Cardinality(Served) /\ open <= MaxPageConnections /\ open \in Nat
      /\ \A h \in Hosts : openByHost[h] = Cardinality(Of(h)) /\ openByHost[h] <= MaxPerHost /\ openByHost[h] \in Nat
      /\ serving = Cardinality(Busy) /\ serving <= MaxPageRequests
  BY <1>0, CountsAre DEF SocksFit
<1>10. open' = Cardinality(Served') /\ open' \in Nat /\ open' <= MaxPageConnections
  BY <1>1, <1>7, <1>8, <1>9, ListenAssumption
<1>11. /\ openByHost'[host] = Cardinality(Of(host)') /\ openByHost'[host] \in Nat /\ openByHost'[host] <= MaxPerHost
       /\ \A h \in Hosts : h # host => openByHost'[h] = openByHost[h]
       /\ DOMAIN openByHost' = Hosts /\ openByHost' = [h \in Hosts |-> openByHost'[h]]
  <2>1. openByHost \in [Hosts -> Nat] /\ openByHost' = [openByHost EXCEPT ![host] = @ - 1]
    BY <1>0, <1>1, <1>3 DEF SocksFit
  <2>2. /\ openByHost'[host] = openByHost[host] - 1 /\ DOMAIN openByHost' = Hosts
        /\ openByHost' = [h \in Hosts |-> openByHost'[h]] /\ \A h \in Hosts : h # host => openByHost'[h] = openByHost[h]
    BY <2>1
  <2>3. openByHost'[host] = Cardinality(Of(host)') /\ openByHost'[host] <= MaxPerHost
    BY <2>2, <1>7, <1>9, ListenAssumption
  <2> QED
    BY <2>2, <2>3, <1>8
<1>12. SocksFit'
  <2>1. openByHost' \in [Hosts -> Nat]
    BY <1>9, <1>11
  <2> QED
    BY <2>1, <1>0, <1>2, <1>10 DEF SocksFit
<1>13. CountsExact'
  BY <1>4, <1>5, <1>9, <1>10, <1>11, CountsBecome
<1> QED
  BY <1>12, <1>13

\* A connection goes on: it is counted as before, and as a request while its
\* body is read or its write is under way.
LEMMA TaskGoesOn ==
  ASSUME ListenInv, NEW n \in Served, NEW step \in Steps, UNCHANGED <<arrived, open, openByHost>>,
         \/ socks' = [socks EXCEPT ![n].step = step]
         \/ \E q : socks' = [socks EXCEPT ![n].step = step, ![n].request = q],
         serving' \in Nat, serving' <= MaxPageRequests,
         \/ (n \in Busy <=> step \in {"body", "write"}) /\ serving' = serving
         \/ n \in Busy /\ step \notin {"body", "write"} /\ serving' = serving - 1
         \/ n \notin Busy /\ step \in {"body", "write"} /\ serving' = serving + 1
  PROVE  SocksFit' /\ CountsExact'
<1>0. SocksFit /\ CountsExact
  BY DEF ListenInv
<1>1. DOMAIN socks[n] = {"host", "step", "request"}
  BY <1>0 DEF SocksFit
<1>2. /\ Served' = Served /\ \A m \in Served : m # n => socks'[m] = socks[m]
      /\ socks'[n].host = socks[n].host /\ socks'[n].step = step /\ DOMAIN socks'[n] = {"host", "step", "request"}
  <2>1. CASE socks' = [socks EXCEPT ![n].step = step]
    BY <2>1, <1>1 DEF Served
  <2>2. CASE \E q : socks' = [socks EXCEPT ![n].step = step, ![n].request = q]
    <3>1. PICK q : socks' = [socks EXCEPT ![n].step = step, ![n].request = q]
      BY <2>2
    <3>2. PICK s : s = [socks[n] EXCEPT !.step = step, !.request = q]
      OBVIOUS
    <3>3. socks' = [socks EXCEPT ![n] = s]
      BY <3>1, <3>2
    <3>4. s.host = socks[n].host /\ s.step = step /\ DOMAIN s = {"host", "step", "request"}
      BY <1>1, <3>2
    <3>. QED  BY <3>3, <3>4 DEF Served
  <2> QED
    BY <2>1, <2>2
<1>3. \A h : Of(h)' = Of(h)
  BY <1>2 DEF Of
<1>4. Busy' = IF step \in {"body", "write"} THEN Busy \cup {n} ELSE Busy \ {n}
  BY <1>2 DEF Busy
<1>5. IsFiniteSet(Busy)
  BY <1>0, ServedFinite
<1>6. /\ open = Cardinality(Served) /\ open <= MaxPageConnections
      /\ \A h \in Hosts : openByHost[h] = Cardinality(Of(h)) /\ openByHost[h] <= MaxPerHost
      /\ serving = Cardinality(Busy)
  BY <1>0, CountsAre
<1>7. serving' = Cardinality(Busy')
  <2>1. CASE (n \in Busy <=> step \in {"body", "write"}) /\ serving' = serving
    <3>1. Busy' = Busy
      BY <2>1, <1>4
    <3> QED
      BY <2>1, <3>1, <1>6
  <2>2. CASE n \in Busy /\ step \notin {"body", "write"} /\ serving' = serving - 1
    <3>1. Busy' = Busy \ {n}
      BY <2>2, <1>4
    <3>2. Cardinality(Busy \ {n}) = Cardinality(Busy) - 1
      BY <2>2, <1>5, FS_RemoveElement
    <3> QED
      BY <2>2, <3>1, <3>2, <1>6
  <2>3. CASE n \notin Busy /\ step \in {"body", "write"} /\ serving' = serving + 1
    <3>1. Busy' = Busy \cup {n}
      BY <2>3, <1>4
    <3>2. Cardinality(Busy \cup {n}) = Cardinality(Busy) + 1
      BY <2>3, <1>5, FS_AddElement
    <3> QED
      BY <2>3, <3>1, <3>2, <1>6
  <2> QED
    BY <2>1, <2>2, <2>3
<1>8. SocksFit'
  BY <1>0, <1>2 DEF SocksFit
<1>9. CountsExact'
  BY <1>2, <1>3, <1>6, <1>7, CountsBecome
<1> QED
  BY <1>8, <1>9

LEMMA Arrives ==
  ASSUME ListenInv, NEW host \in Hosts, Accept(host)
  PROVE  SocksFit' /\ CountsExact'
<1>0. SocksFit /\ CountsExact
  BY DEF ListenInv
<1>1. PICK n : n = arrived + 1
  OBVIOUS
<1>2. arrived' = n /\ n \in Nat /\ n > 0 /\ n \notin Served /\ UNCHANGED serving /\ Served \subseteq 1 .. n
  BY <1>0, <1>1 DEF SocksFit, Accept
<1>3. /\ open = Cardinality(Served) /\ open <= MaxPageConnections /\ open \in Nat
      /\ \A h \in Hosts : openByHost[h] = Cardinality(Of(h)) /\ openByHost[h] <= MaxPerHost /\ openByHost[h] \in Nat
      /\ serving = Cardinality(Busy) /\ serving <= MaxPageRequests
  BY <1>0, CountsAre DEF SocksFit
<1>4. CASE UNCHANGED <<socks, open, openByHost>>
  <2>1. SocksFit'
    BY <1>0, <1>2, <1>4 DEF SocksFit, Served
  <2>2. CountsExact'
    BY <1>0, <1>2, <1>4 DEF CountsExact
  <2> QED
    BY <2>1, <2>2
<1>5. CASE ~ UNCHANGED <<socks, open, openByHost>>
  <2>1. /\ open < MaxPageConnections /\ openByHost[host] < MaxPerHost
        /\ socks' = [m \in Served \cup {n} |-> IF m = n THEN Sock(host) ELSE socks[m]]
        /\ open' = open + 1 /\ openByHost' = [openByHost EXCEPT ![host] = @ + 1]
    BY <1>2, <1>3, <1>5, ListenAssumption DEF Accept, Served
  <2>2. Served' = Served \cup {n} /\ socks'[n] = Sock(host) /\ \A m \in Served : socks'[m] = socks[m]
    BY <2>1, <1>2 DEF Served
  <2>3. Sock(host).host = host /\ Sock(host).step = "secure" /\ DOMAIN Sock(host) = {"host", "step", "request"}
    BY DEF Sock
  <2>4. Busy' = Busy
    BY <2>2, <2>3 DEF Busy
  <2>5. Of(host)' = Of(host) \cup {n} /\ n \notin Of(host) /\ \A h : h # host => Of(h)' = Of(h)
    BY <2>2, <2>3, <1>2 DEF Of
  <2>6. IsFiniteSet(Served) /\ IsFiniteSet(Of(host))
    BY <1>0, ServedFinite
  <2>7. Cardinality(Served') = Cardinality(Served) + 1 /\ Cardinality(Of(host)') = Cardinality(Of(host)) + 1
    BY <2>2, <2>5, <2>6, <1>2, FS_AddElement
  <2>8. open' = Cardinality(Served') /\ open' \in Nat /\ open' <= MaxPageConnections
    BY <2>1, <2>7, <1>3, ListenAssumption
  <2>9. /\ openByHost'[host] = Cardinality(Of(host)') /\ openByHost'[host] \in Nat /\ openByHost'[host] <= MaxPerHost
        /\ \A h \in Hosts : h # host => openByHost'[h] = openByHost[h]
        /\ openByHost' = [h \in Hosts |-> openByHost'[h]]
    <3>1. openByHost \in [Hosts -> Nat]
      BY <1>0 DEF SocksFit
    <3>2. /\ openByHost'[host] = openByHost[host] + 1
          /\ openByHost' = [h \in Hosts |-> openByHost'[h]] /\ \A h \in Hosts : h # host => openByHost'[h] = openByHost[h]
      BY <2>1, <3>1
    <3>3. openByHost[host] \in Nat /\ openByHost[host] = Cardinality(Of(host))
      BY <1>3
    <3>4. openByHost'[host] = Cardinality(Of(host)') /\ openByHost'[host] \in Nat /\ openByHost'[host] <= MaxPerHost
      BY <2>1, <2>7, <3>2, <3>3, ListenAssumption
    <3> QED
      BY <3>2, <3>4
  <2>10. SocksFit'
    <3>1. openByHost' \in [Hosts -> Nat]
      BY <2>9, <1>3
    <3>2. \A m \in Served' : DOMAIN socks'[m] = {"host", "step", "request"} /\ socks'[m].host \in Hosts /\ socks'[m].step \in Steps
      <4>1. "secure" \in Steps
        BY DEF Steps
      <4>2. \A m \in Served : DOMAIN socks[m] = {"host", "step", "request"} /\ socks[m].host \in Hosts /\ socks[m].step \in Steps
        BY <1>0 DEF SocksFit
      <4> QED
        BY <4>1, <4>2, <2>2, <2>3
    <3>3. Served' \subseteq 1 .. arrived'
      BY <2>2, <1>2
    <3> QED
      BY <3>1, <3>2, <3>3, <2>8, <1>0, <1>2 DEF SocksFit
  <2>11. CountsExact'
    BY <2>4, <2>5, <2>8, <2>9, <1>2, <1>3, CountsBecome
  <2> QED
    BY <2>10, <2>11
<1> QED
  BY <1>4, <1>5

\* An answer that changes something goes to a signed-in page of the right origin.
LEMMA RouteIsStrict ==
  ASSUME NEW request, NEW signed, route(request, signed) = 200, Alters(request)
  PROVE  signed /\ request.cookie /\ request.host /\ request.origin
BY DEF route, Alters, Posts, Gets, ForSignedIn

LEMMA RequestIsRead ==
  ASSUME ListenInv, NEW n \in Served, ReadRequest(n)
  PROVE  ListenInv'
<1>0. SocksFit /\ CountsExact /\ ChangesAreSignedIn
  BY DEF ListenInv
<1>1. n \in Busy /\ UNCHANGED <<arrived, pairedNow>>
  BY DEF ReadRequest, At, Busy, Served
<1>2. PICK step \in Steps : /\ socks' = [socks EXCEPT ![n].step = step] /\ UNCHANGED <<open, openByHost>>
                             /\ \/ step = "write" /\ serving' = serving
                                \/ step = "answer" /\ serving' = serving - 1
  <2>1. "write" \in Steps /\ "answer" \in Steps
    BY DEF Steps
  <2>2. CASE GoesTo(n, "write") /\ UNCHANGED serving
    BY <2>1, <2>2 DEF GoesTo
  <2>3. CASE GoesTo(n, "answer") /\ serving' = serving - 1
    BY <2>1, <2>3 DEF GoesTo
  <2> QED
    BY <2>2, <2>3 DEF ReadRequest, Answered
<1>3. serving \in Nat /\ serving > 0 /\ serving <= MaxPageRequests
  <2>1. IsFiniteSet(Busy) /\ Cardinality(Busy) # 0
    BY <1>0, <1>1, ServedFinite, FS_EmptySet
  <2> QED
    BY <2>1, <1>0, CountsAre DEF SocksFit
<1>4. SocksFit' /\ CountsExact'
  <2>1. serving' \in Nat /\ serving' <= MaxPageRequests
    <3>1. CASE serving' = serving
      BY <3>1, <1>3
    <3>2. CASE serving' = serving - 1
      BY <3>2, <1>3, ListenAssumption
    <3> QED
      BY <3>1, <3>2, <1>2
  <2>2. socks' = [socks EXCEPT ![n].step = step] /\ UNCHANGED <<open, openByHost>>
    BY <1>2
  <2> QED
    BY <2>1, <2>2, <1>1, <1>2, TaskGoesOn
<1>5. ChangesAreSignedIn'
  <2>1. CASE UNCHANGED pageChanges
    BY <2>1, <1>0 DEF ChangesAreSignedIn
  <2>2. CASE ~ UNCHANGED pageChanges
    <3>1. PICK request : request = socks[n].request
      OBVIOUS
    <3>2. /\ pageChanges' = pageChanges \cup {[by |-> request, signed |-> signedIn]}
          /\ route(request, signedIn) = 200 /\ Alters(request)
      BY <2>2, <3>1 DEF ReadRequest, Answered
    <3>3. signedIn /\ request.cookie /\ request.host /\ request.origin
      BY <3>2, RouteIsStrict
    <3> QED
      BY <3>2, <3>3, <1>0 DEF ChangesAreSignedIn
  <2> QED
    BY <2>1, <2>2
<1> QED
  BY <1>4, <1>5 DEF ListenInv

LEMMA Proceed ==
  ASSUME ListenInv, NEW n \in Served,
         Secure(n) \/ ReadHead(n) \/ ConfigWritten(n) \/ WriteResponse(n) \/ Hello(n) \/ LinkOver(n)
           \/ \E request \in Requests : ServePage(n, request)
  PROVE  ListenInv'
<1>0. SocksFit /\ CountsExact /\ ChangesAreSignedIn
  BY DEF ListenInv
<1>1. UNCHANGED <<arrived, pageChanges>>
  BY DEF Secure, ReadHead, ConfigWritten, WriteResponse, Hello, LinkOver, ServePage
<1>2. serving \in Nat /\ serving <= MaxPageRequests
  BY <1>0, CountsAre DEF SocksFit
<1>3. n \in Busy <=> socks[n].step \in {"body", "write"}
  BY DEF Busy
<1>4. \/ n \notin Busy /\ TaskOver(n) /\ UNCHANGED serving
      \/ n \notin Busy /\ UNCHANGED serving /\ \E step \in {"head", "hello", "link", "answer"} : GoesTo(n, step)
      \/ n \in Busy /\ serving' = serving - 1 /\ GoesTo(n, "answer")
      \/ /\ n \notin Busy /\ serving < MaxPageRequests /\ serving' = serving + 1 /\ UNCHANGED <<open, openByHost>>
         /\ \E q : socks' = [socks EXCEPT ![n].step = "body", ![n].request = q]
  <2>1. CASE Secure(n) \/ ReadHead(n) \/ Hello(n)
    BY <2>1, <1>3 DEF Secure, ReadHead, Hello, At
  <2>2. CASE ConfigWritten(n)
    BY <2>2, <1>3 DEF ConfigWritten, At
  <2>3. CASE WriteResponse(n) \/ LinkOver(n)
    BY <2>3, <1>3 DEF WriteResponse, LinkOver, At
  <2>4. CASE \E request \in Requests : ServePage(n, request)
    <3>1. PICK request \in Requests : ServePage(n, request)
      BY <2>4
    <3>2. n \notin Busy
      BY <3>1, <1>3 DEF ServePage, At
    <3>3. CASE serving >= MaxPageRequests
      BY <3>1, <3>2, <3>3 DEF ServePage
    <3>4. CASE ~ serving >= MaxPageRequests
      <4>1. serving < MaxPageRequests
        BY <3>4, <1>2, ListenAssumption
      <4>2. /\ serving' = serving + 1 /\ UNCHANGED <<open, openByHost>>
            /\ socks' = [socks EXCEPT ![n].step = "body", ![n].request = request]
        BY <3>1, <3>4 DEF ServePage
      <4> QED
        BY <3>2, <4>1, <4>2
    <3> QED
      BY <3>3, <3>4
  <2> QED
    BY <2>1, <2>2, <2>3, <2>4
<1>5. SocksFit' /\ CountsExact'
  <2>1. CASE n \notin Busy /\ TaskOver(n) /\ UNCHANGED serving
    BY <2>1, <1>1, TaskEnds
  <2>2. CASE n \notin Busy /\ UNCHANGED serving /\ \E step \in {"head", "hello", "link", "answer"} : GoesTo(n, step)
    <3>1. PICK step \in {"head", "hello", "link", "answer"} : GoesTo(n, step)
      BY <2>2
    <3>2. socks' = [socks EXCEPT ![n].step = step] /\ UNCHANGED <<open, openByHost>> /\ step \in Steps /\ step \notin {"body", "write"}
      BY <3>1 DEF GoesTo, Steps
    <3> QED
      BY <2>2, <3>2, <1>1, <1>2, TaskGoesOn
  <2>3. CASE n \in Busy /\ serving' = serving - 1 /\ GoesTo(n, "answer")
    <3>1. PICK step \in Steps : step = "answer" /\ step \notin {"body", "write"}
      BY DEF Steps
    <3>2. socks' = [socks EXCEPT ![n].step = step] /\ UNCHANGED <<open, openByHost>>
      BY <2>3, <3>1 DEF GoesTo
    <3>3. serving > 0
      <4>1. IsFiniteSet(Busy) /\ Cardinality(Busy) # 0
        BY <2>3, <1>0, ServedFinite, FS_EmptySet
      <4> QED
        BY <4>1, <1>0, <1>2, CountsAre
    <3>4. serving' \in Nat /\ serving' <= MaxPageRequests
      BY <2>3, <3>3, <1>2, ListenAssumption
    <3> QED
      BY <2>3, <3>1, <3>2, <3>4, <1>1, TaskGoesOn
  <2>4. CASE /\ n \notin Busy /\ serving < MaxPageRequests /\ serving' = serving + 1 /\ UNCHANGED <<open, openByHost>>
             /\ \E q : socks' = [socks EXCEPT ![n].step = "body", ![n].request = q]
    <3>1. PICK step \in Steps : step = "body" /\ step \in {"body", "write"}
      BY DEF Steps
    <3>2. serving' \in Nat /\ serving' <= MaxPageRequests
      BY <2>4, <1>2, ListenAssumption
    <3>3. \E q : socks' = [socks EXCEPT ![n].step = step, ![n].request = q]
      BY <2>4, <3>1
    <3> QED
      BY <2>4, <3>1, <3>2, <3>3, <1>1, TaskGoesOn
  <2> QED
    BY <2>1, <2>2, <2>3, <2>4, <1>4
<1>6. ChangesAreSignedIn'
  BY <1>0, <1>1 DEF ChangesAreSignedIn
<1> QED
  BY <1>5, <1>6 DEF ListenInv

LEMMA ListenSteps ==
  ASSUME ListenInv, [ListenNext]_listenVars
  PROVE  ListenInv'
<1>1. CASE \E h \in Hosts : Accept(h)
  <2>1. SocksFit' /\ CountsExact'
    BY <1>1, Arrives
  <2>2. UNCHANGED pageChanges
    BY <1>1 DEF Accept
  <2> QED
    BY <2>1, <2>2 DEF ListenInv, ChangesAreSignedIn
<1>2. CASE \E n \in DOMAIN socks : Proceeds(n) \/ LinkOver(n)
  BY <1>2, RequestIsRead, Proceed DEF Proceeds, Served
<1>3. CASE SessionOver \/ Unpaired \/ UNCHANGED listenVars
  <2>1. UNCHANGED <<arrived, socks, open, openByHost, serving, pageChanges>>
    BY <1>3 DEF SessionOver, Unpaired, listenVars
  <2>2. SocksFit' /\ CountsExact' /\ ChangesAreSignedIn'
    BY <2>1 DEF ListenInv, SocksFit, Served, CountsExact, ChangesAreSignedIn
  <2> QED
    BY <2>2 DEF ListenInv
<1> QED
  BY <1>1, <1>2, <1>3 DEF ListenNext

\* Whichever way a connection ends (refused, timed out, cut, answered, or the
\* listener stopped), the counts of connections, in all and of each host, and
\* of requests under way are exact and within their limits, and only a request
\* of a signed-in page changes anything (the guards' Drop, admit, serve).
THEOREM ListenersAreSound == ListenSpec => []ListenSound
<1>1. ListenInit => ListenInv
  BY ListenStarts
<1>2. ListenInv /\ [ListenNext]_listenVars => ListenInv'
  BY ListenSteps
<1>3. ListenInv => ListenSound
  BY DEF ListenInv, ListenSound
<1> QED
  BY <1>1, <1>2, <1>3, PTL DEF ListenSpec
=============================================================================
