------------------------------ MODULE ListProofs ------------------------------
(***************************************************************************)
(* The invariant on which deleting a session rests, for any sessions, any  *)
(* length of the window of lists in flight and any ages.                   *)
(*                                                                         *)
(* What has to be carried along is why a dismissal is never pruned while   *)
(* the bridge has the session: each list that lacks the session is older   *)
(* than the session's first one, so none of them outlives the first tick   *)
(* after the delete, and the dismissal's `quiet` stays 0.                  *)
(***************************************************************************)
EXTENDS SessionList, TLAPS

(* A sequence, of whatever. *)
IsSeq(q) == q \in Seq({q[i] : i \in DOMAIN q})

Presence == ListingPresence \cup {"none"}

(* The bridge has or had it. *)
Created(s) == s \in bLive \/ goneBy[s] # "no"

ListTypeOK ==
  /\ listScene \in ListScenes
  /\ bLive \in SUBSET Sessions /\ readies \in SUBSET Sessions
  /\ goneBy \in [Sessions -> {"no", "closed", "removed"}]
  /\ view \in [Sessions -> Presence]
  /\ dismissed \in [Sessions -> Dismissal]
  /\ saved \in [view : [Sessions -> Presence], dismissed : [Sessions -> Dismissal], applied : Nat]
  /\ applied \in Nat
  /\ pend \in Sessions \cup {NoSession}
  /\ crashed \in BOOLEAN
  /\ IsSeq(lists)

(* A list in flight names sessions the bridge has or had; the newest names *)
(* all it has.                                                             *)
ListsFit ==
  /\ \A i \in DOMAIN lists : lists[i].listed \subseteq {s \in Sessions : Created(s)}
  /\ Len(lists) > 0 => bLive \subseteq lists[Len(lists)].listed

(* What a dismissal of a session the bridge has rests on. *)
Lasts(ds) ==
  \A s \in Sessions : ds[s].on /\ goneBy[s] = "no" =>
    /\ s \in bLive /\ ds[s].quiet = 0
    /\ ds[s].age > 0 => \A i \in DOMAIN lists : s \in lists[i].listed

Hides(ds, v) == \A s \in Sessions : (ds[s].on => v[s] = "none") /\ (v[s] # "none" => Created(s))

(* A close-session on its way is for a committed delete. *)
ClosesFit == \A s \in closes : goneBy[s] = "no" /\ ~ crashed => dismissed[s].on /\ pend # s

ListInv ==
  /\ ListTypeOK
  /\ \A s \in bLive : goneBy[s] = "no"
  /\ \A s \in readies : Created(s)
  /\ ListsFit
  /\ Lasts(dismissed) /\ Lasts(saved.dismissed)
  /\ Hides(dismissed, view) /\ Hides(saved.dismissed, saved.view)
  /\ pend # NoSession /\ goneBy[pend] = "no" => dismissed[pend].on
  /\ closes \in SUBSET Sessions /\ ClosesFit

(***************************************************************************)
(* Sequences: the window of lists.                                         *)
(***************************************************************************)
(* A sequence is one over its own elements. *)
LEMMA OwnElements == ASSUME NEW S, NEW q \in Seq(S)  PROVE IsSeq(q)
<1>. DEFINE T == {q[i] : i \in DOMAIN q}
<1>1. Len(q) \in Nat /\ DOMAIN q = 1..Len(q) /\ q \in [1..Len(q) -> S]
  OBVIOUS
<1>2. q \in [1..Len(q) -> T]
  BY <1>1
<1>. HIDE DEF T
<1>3. q \in Seq(T)
  BY <1>1, <1>2
<1>. QED  BY <1>3 DEF T, IsSeq

(* A new element at the end; a full window loses its first. *)
LEMMA WindowSteps ==
  ASSUME NEW q, IsSeq(q), NEW e, NEW r,
         r = Append(q, e) \/ (Len(q) > 0 /\ r = Append(Tail(q), e))
  PROVE  /\ IsSeq(r)
         /\ Len(r) > 0 /\ r[Len(r)] = e
         /\ \A i \in DOMAIN r : r[i] = e \/ \E j \in DOMAIN q : r[i] = q[j]
<1>. DEFINE S == {q[i] : i \in DOMAIN q}
            T == S \cup {e}
<1>1. q \in Seq(S)
  BY DEF IsSeq
<1>2. \A x \in S : \E j \in DOMAIN q : x = q[j]
  OBVIOUS
<1>. HIDE DEF S
<1>3. q \in Seq(T)
  BY <1>1
<1>4. PICK b \in Seq(S) : r = Append(b, e)
  <2>1. Len(q) > 0 => Tail(q) \in Seq(S)
    BY <1>1
  <2>. QED  BY <1>1, <2>1
<1>5. b \in Seq(T) /\ e \in T
  BY <1>4
<1>6. r \in Seq(T) /\ Len(r) = Len(b) + 1 /\ r[Len(b) + 1] = e /\ Len(b) \in Nat
  BY <1>4, <1>5
<1>7. \A i \in 1..Len(b) : r[i] = b[i] /\ b[i] \in S
  BY <1>4
<1>8. DOMAIN r = 1..Len(b) + 1
  BY <1>6
<1>9. \A i \in DOMAIN r : r[i] = e \/ r[i] \in S
  BY <1>6, <1>7, <1>8
<1>10. IsSeq(r)
  BY <1>6, OwnElements
<1>11. Len(r) > 0 /\ r[Len(r)] = e
  BY <1>6
<1>. QED  BY <1>2, <1>9, <1>10, <1>11

(* The window after a tick: the newest list alone. *)
LEMMA NewestAlone ==
  ASSUME NEW q, IsSeq(q), NEW r,
         r = IF Len(q) = 0 THEN <<>> ELSE <<q[Len(q)]>>
  PROVE  /\ IsSeq(r)
         /\ \A i \in DOMAIN r : Len(q) \in DOMAIN q /\ Len(q) > 0 /\ r[i] = q[Len(q)]
         /\ Len(r) > 0 => Len(q) > 0 /\ r[Len(r)] = q[Len(q)]
<1>1. Len(q) \in Nat /\ DOMAIN q = 1..Len(q)
  BY DEF IsSeq
<1>2. CASE Len(q) = 0
  <2>1. r = <<>>
    BY <1>2
  <2>2. r \in Seq({q}) /\ Len(r) = 0
    BY <2>1
  <2>3. DOMAIN r = {}
    BY <2>2
  <2>4. IsSeq(r)
    BY <2>2, OwnElements
  <2>. QED  BY <2>2, <2>3, <2>4
<1>3. CASE Len(q) # 0
  <2>1. r = <<q[Len(q)]>>
    BY <1>3
  <2>2. r \in Seq({q[Len(q)]}) /\ Len(r) = 1 /\ DOMAIN r = {1} /\ r[1] = q[Len(q)]
    <3>1. \A x : <<x>> \in Seq({x}) /\ Len(<<x>>) = 1 /\ <<x>>[1] = x
      OBVIOUS
    <3>2. r \in Seq({q[Len(q)]}) /\ Len(r) = 1 /\ r[1] = q[Len(q)]
      BY <2>1, <3>1
    <3>3. DOMAIN r = 1..1
      BY <3>2
    <3>. QED  BY <3>2, <3>3
  <2>3. IsSeq(r)
    BY <2>2, OwnElements
  <2>. QED  BY <1>1, <1>3, <2>2, <2>3
<1>. QED  BY <1>2, <1>3

(***************************************************************************)
(* The bridge's steps.                                                     *)
(***************************************************************************)
(* publish_list: the new list is the newest, the others were there before. *)
LEMMA Published ==
  ASSUME ListInv, NEW live, NEW stones, NEW own, NEW offline, PublishList(live, stones, own, offline)
  PROVE  /\ IsSeq(lists')
         /\ Len(lists') > 0 /\ lists'[Len(lists')].listed = live
         /\ \A i \in DOMAIN lists' : lists'[i].listed = live \/ \E j \in DOMAIN lists : lists'[i] = lists[j]
         /\ applied' \in Nat
         /\ saved' \in [view : [Sessions -> Presence], dismissed : [Sessions -> Dismissal], applied : Nat]
         /\ saved'.view = saved.view /\ saved'.dismissed = saved.dismissed
<1>. DEFINE list == [listed |-> live, offline |-> offline,
                     removed |-> IF own THEN AllIds(stones) ELSE RecentIds(stones)]
            full == Len(lists) = MaxLists
            shift(n) == IF full /\ n > 0 THEN n - 1 ELSE n
<1>1. /\ lists' = Append(IF full THEN Tail(lists) ELSE lists, list)
      /\ applied' = shift(applied) /\ saved' = [saved EXCEPT !.applied = shift(@)]
  BY DEF PublishList
<1>2. MaxLists \in Nat \ {0}
  BY ListAssumption DEF ListInv, ListTypeOK, MaxLists
<1>3. lists' = Append(lists, list) \/ (Len(lists) > 0 /\ lists' = Append(Tail(lists), list))
  BY <1>1, <1>2
<1>4. list.listed = live
  OBVIOUS
<1>5. IsSeq(lists) /\ applied \in Nat
      /\ saved \in [view : [Sessions -> Presence], dismissed : [Sessions -> Dismissal], applied : Nat]
  BY DEF ListInv, ListTypeOK
<1>6. applied' \in Nat
  BY <1>1, <1>5
<1>7. shift(saved.applied) \in Nat
  BY <1>5
<1>. HIDE DEF list, shift, full
<1>8. /\ saved' \in [view : [Sessions -> Presence], dismissed : [Sessions -> Dismissal], applied : Nat]
      /\ saved'.view = saved.view /\ saved'.dismissed = saved.dismissed
  BY <1>1, <1>5, <1>7
<1>9. /\ IsSeq(lists')
      /\ Len(lists') > 0 /\ lists'[Len(lists')] = list
      /\ \A i \in DOMAIN lists' : lists'[i] = list \/ \E j \in DOMAIN lists : lists'[i] = lists[j]
  BY <1>3, <1>5, WindowSteps
<1>. QED  BY <1>4, <1>6, <1>8, <1>9

(* A step of the bridge that publishes what it has then. *)
LEMMA PublishKeeps ==
  ASSUME ListInv, NEW stones, NEW own, NEW offline, PublishList(bLive', stones, own, offline),
         UNCHANGED <<listScene, view, dismissed, pend, crashed>>,
         bLive' \in SUBSET Sessions, goneBy' \in [Sessions -> {"no", "closed", "removed"}],
         \A s \in Sessions : Created(s) => Created(s)',
         \A s \in bLive' : goneBy'[s] = "no",
         \A s \in Sessions : goneBy'[s] = "no" => goneBy[s] = "no" /\ (s \in bLive => s \in bLive'),
         readies' \in SUBSET Sessions, \A s \in readies' : Created(s)', closes' \subseteq closes
  PROVE  ListInv'
<1>. DEFINE live == bLive'
<1>1. /\ IsSeq(lists')
      /\ Len(lists') > 0 /\ lists'[Len(lists')].listed = live
      /\ \A i \in DOMAIN lists' : lists'[i].listed = live \/ \E j \in DOMAIN lists : lists'[i] = lists[j]
      /\ applied' \in Nat
      /\ saved' \in [view : [Sessions -> Presence], dismissed : [Sessions -> Dismissal], applied : Nat]
      /\ saved'.view = saved.view /\ saved'.dismissed = saved.dismissed
  BY Published
<1>2. ListTypeOK'
  BY <1>1 DEF ListInv, ListTypeOK
<1>3. ListsFit'
  <2>1. \A i \in DOMAIN lists : lists[i].listed \subseteq {s \in Sessions : Created(s)}
    BY DEF ListInv, ListsFit
  <2>2. \A s \in live : Created(s)'
    BY DEF Created
  <2>3. ASSUME NEW i \in DOMAIN lists', NEW s \in lists'[i].listed  PROVE s \in Sessions /\ Created(s)'
    BY <1>1, <2>1, <2>2, <2>3
  <2>4. lists'[Len(lists')].listed = bLive'
    BY <1>1
  <2>. QED  BY <2>3, <2>4 DEF ListsFit
<1>4. ASSUME NEW ds, Lasts(ds), ds' = ds  PROVE Lasts(ds)'
  <2>. SUFFICES ASSUME NEW s \in Sessions, ds[s].on, goneBy'[s] = "no"
                PROVE  /\ s \in bLive' /\ ds[s].quiet = 0
                       /\ ds[s].age > 0 => \A i \in DOMAIN lists' : s \in lists'[i].listed
    BY <1>4 DEF Lasts
  <2>1. s \in bLive /\ ds[s].quiet = 0 /\ (ds[s].age > 0 => \A i \in DOMAIN lists : s \in lists[i].listed)
    BY <1>4 DEF Lasts
  <2>2. s \in live
    BY <2>1
  <2>. QED  BY <1>1, <2>1, <2>2
<1>5. Lasts(dismissed)' /\ Lasts(saved.dismissed)'
  BY <1>1, <1>4 DEF ListInv, Lasts
<1>6. Hides(dismissed, view)' /\ Hides(saved.dismissed, saved.view)'
  BY <1>1 DEF ListInv, Hides
<1>7. (pend # NoSession /\ goneBy[pend] = "no" => dismissed[pend].on)'
  BY DEF ListInv, ListTypeOK
<1>8. (closes \in SUBSET Sessions)' /\ ClosesFit'
  BY DEF ListInv, ClosesFit
<1>. QED  BY <1>2, <1>3, <1>5, <1>6, <1>7, <1>8 DEF ListInv

(* A step of the phone, or of what travels to it. *)
LEMMA PhoneKeeps ==
  ASSUME ListInv, UNCHANGED <<listScene, bLive, goneBy, lists>>, readies' \subseteq readies,
         dismissed' \in [Sessions -> Dismissal], view' \in [Sessions -> Presence],
         saved' \in [view : [Sessions -> Presence], dismissed : [Sessions -> Dismissal], applied : Nat],
         applied' \in Nat, pend' \in Sessions \cup {NoSession}, crashed' \in BOOLEAN,
         Lasts(dismissed'), Lasts(saved'.dismissed),
         Hides(dismissed', view'), Hides(saved'.dismissed, saved'.view),
         pend' # NoSession /\ goneBy[pend'] = "no" => dismissed'[pend'].on,
         closes' \in SUBSET Sessions, ClosesFit'
  PROVE  ListInv'
<1>1. ListTypeOK'
  BY DEF ListInv, ListTypeOK
<1>2. ListsFit'
  BY DEF ListInv, ListsFit, Created
<1>3. Lasts(dismissed)' /\ Lasts(saved.dismissed)'
  BY DEF Lasts
<1>4. Hides(dismissed, view)' /\ Hides(saved.dismissed, saved.view)'
  BY DEF Hides, Created
<1>5. (\A s \in readies : Created(s))' /\ (\A s \in bLive : goneBy[s] = "no")'
  BY DEF ListInv, Created
<1>. QED  BY <1>1, <1>2, <1>3, <1>4, <1>5 DEF ListInv

(* The heartbeat and the answer to refresh-sessions publish; a session is  *)
(* created, or closed for good.                                            *)
LEMMA BridgeKeeps ==
  ASSUME ListInv, UNCHANGED listScene,
         \/ \E offline \in BOOLEAN : Heartbeat(offline)
         \/ Refresh
         \/ \E s \in Sessions : Create(s) \/ CloseArrives(s) \/ DeletedElsewhere(s)
  PROVE  ListInv'
<1>1. /\ bLive \in SUBSET Sessions /\ readies \in SUBSET Sessions /\ goneBy \in [Sessions -> {"no", "closed", "removed"}]
      /\ (\A s \in bLive : goneBy[s] = "no") /\ (\A s \in readies : Created(s))
  BY DEF ListInv, ListTypeOK
<1>2. ASSUME NEW own, NEW offline, PublishList(bLive, tombs, own, offline), UNCHANGED bridgeVars,
             UNCHANGED <<readies, closes, acks, view, dismissed, closeSent, undoVars, crashed>>
      PROVE  ListInv'
  <2>1. bLive' = bLive /\ goneBy' = goneBy /\ UNCHANGED <<listScene, view, dismissed, pend, crashed>> /\ readies' = readies /\ closes' = closes
    BY <1>2 DEF bridgeVars, undoVars
  <2>2. PublishList(bLive', tombs, own, offline)
    BY <1>2, <2>1
  <2>3. \A s \in Sessions : Created(s)' <=> Created(s)
    BY <2>1 DEF Created
  <2>. QED  BY <1>1, <2>1, <2>2, <2>3, PublishKeeps
<1>3. ASSUME NEW s \in Sessions, Create(s)  PROVE ListInv'
  <2>1. /\ bLive' = bLive \cup {s} /\ readies' = readies \cup {s} /\ goneBy' = goneBy /\ goneBy[s] = "no"
        /\ UNCHANGED <<listScene, view, dismissed, pend, crashed>> /\ closes' = closes
        /\ PublishList(bLive', tombs, FALSE, FALSE)
    BY <1>3 DEF Create, undoVars
  <2>2. \A t \in Sessions : (Created(t) => Created(t)') /\ (t \in bLive' => Created(t)')
    BY <2>1 DEF Created
  <2>3. bLive' \in SUBSET Sessions /\ readies' \in SUBSET Sessions /\ (\A t \in readies' : Created(t)')
        /\ (\A t \in bLive' : goneBy'[t] = "no")
    BY <1>1, <2>1, <2>2
  <2>. QED  BY <1>1, <2>1, <2>2, <2>3, PublishKeeps
<1>4. ASSUME NEW s \in Sessions, NEW by \in {"closed", "removed"}, CloseAt(s, by), closes' \subseteq closes
      PROVE  ListInv'
  <2>1. goneBy' = (IF s \in bLive THEN [goneBy EXCEPT ![s] = by] ELSE goneBy)
    BY <1>4 DEF CloseAt
  <2>5. /\ bLive' = bLive \ {s}
        /\ UNCHANGED <<listScene, view, dismissed, pend, crashed>> /\ readies' = readies
    BY <1>4 DEF CloseAt, undoVars
  <2>6. PICK stones : PublishList(bLive', stones, FALSE, FALSE)
    BY <1>4 DEF CloseAt
  <2>2. goneBy' \in [Sessions -> {"no", "closed", "removed"}]
    BY <1>1, <2>1
  <2>3. \A t \in Sessions : /\ goneBy'[t] = "no" => goneBy[t] = "no" /\ (t \in bLive => t \in bLive')
                            /\ t \in bLive' => goneBy'[t] = "no"
                            /\ Created(t) => Created(t)'
    BY <1>1, <2>1, <2>5 DEF Created
  <2>4. bLive' \in SUBSET Sessions /\ (\A t \in readies' : Created(t)') /\ (\A t \in bLive' : goneBy'[t] = "no")
    <3>1. bLive' \in SUBSET Sessions
      BY <1>1, <2>5
    <3>2. \A t \in readies' : Created(t)'
      BY <1>1, <2>3, <2>5
    <3>3. \A t \in bLive' : goneBy'[t] = "no"
      BY <2>3, <3>1
    <3>. QED  BY <3>1, <3>2, <3>3
  <2>. QED  BY <1>1, <1>4, <2>5, <2>6, <2>2, <2>3, <2>4, PublishKeeps
<1>5. ASSUME NEW offline \in BOOLEAN, Heartbeat(offline)  PROVE ListInv'
  BY <1>2, <1>5 DEF Heartbeat
<1>6. CASE Refresh
  BY <1>2, <1>6 DEF Refresh
<1>7. ASSUME NEW s \in Sessions, CloseArrives(s)  PROVE ListInv'
  BY <1>4, <1>7 DEF CloseArrives
<1>8. ASSUME NEW s \in Sessions, DeletedElsewhere(s)  PROVE ListInv'
  BY <1>4, <1>8 DEF DeletedElsewhere
<1>. QED  BY <1>3, <1>5, <1>6, <1>7, <1>8

(***************************************************************************)
(* Dismissals.                                                             *)
(***************************************************************************)
(* prune_dismissed lets no dismissal go whose session the bridge has. *)
LEMMA PrunedLasts ==
  ASSUME NEW ds \in [Sessions -> Dismissal], Lasts(ds)
  PROVE  /\ Pruned(ds) \in [Sessions -> Dismissal] /\ Lasts(Pruned(ds))
         /\ \A s \in Sessions : /\ Pruned(ds)[s].on => ds[s].on
                                /\ ds[s].on /\ goneBy[s] = "no" => Pruned(ds)[s] = ds[s]
<1>. DEFINE P == Pruned(ds)
<1>1. NotDismissed \in Dismissal /\ ~ NotDismissed.on
  BY ListAssumption DEF NotDismissed, Dismissal
<1>2. \A s \in Sessions : P[s] = (IF ds[s].quiet < DismissedTtl \/ ds[s].age < DismissedTtl THEN ds[s] ELSE NotDismissed)
  BY DEF Pruned
<1>3. P \in [Sessions -> Dismissal]
  BY <1>1 DEF Pruned
<1>4. ASSUME NEW s \in Sessions, ds[s].on, goneBy[s] = "no"  PROVE P[s] = ds[s]
  <2>1. ds[s].quiet = 0
    BY <1>4 DEF Lasts
  <2>. QED  BY <1>2, <2>1, ListAssumption
<1>5. \A s \in Sessions : P[s].on => ds[s].on
  BY <1>1, <1>2
<1>. HIDE DEF P
<1>6. Lasts(P)
  BY <1>4, <1>5 DEF Lasts
<1>. QED  BY <1>3, <1>4, <1>5, <1>6 DEF P

(* apply_session_list: a list that lacks a session the bridge has is from  *)
(* before the first tick after its delete.                                 *)
LEMMA RelistedLasts ==
  ASSUME ListInv, NEW i \in DOMAIN lists
  PROVE  /\ Relisted(lists[i]) \in [Sessions -> Dismissal] /\ Lasts(Relisted(lists[i]))
         /\ \A s \in Sessions : Relisted(lists[i])[s].on = dismissed[s].on
<1>. DEFINE list == lists[i]
            R == Relisted(list)
            age(s) == IF s \in list.listed THEN 0 ELSE dismissed[s].age
<1>1. dismissed \in [Sessions -> Dismissal] /\ Lasts(dismissed)
  BY DEF ListInv, ListTypeOK
<1>2. \A s \in Sessions : R[s] = (IF dismissed[s].on THEN [dismissed[s] EXCEPT !.age = age(s), !.quiet = age(s)] ELSE dismissed[s])
  BY DEF Relisted
<1>3. \A s \in Sessions : age(s) \in 0..DismissedTtl
  BY <1>1, ListAssumption DEF Dismissal
<1>4. \A s \in Sessions : dismissed[s] \in Dismissal
  BY <1>1
<1>. HIDE DEF age
<1>5. \A s \in Sessions : R[s] \in Dismissal /\ R[s].on = dismissed[s].on
                      /\ (dismissed[s].on => R[s].age = age(s) /\ R[s].quiet = age(s))
  BY <1>2, <1>3, <1>4 DEF Dismissal
<1>6. R \in [Sessions -> Dismissal]
  BY <1>5 DEF Relisted
<1>7. ASSUME NEW s \in Sessions, R[s].on, goneBy[s] = "no"  PROVE s \in bLive /\ R[s].quiet = 0 /\ R[s].age = 0
  <2>1. dismissed[s].on
    BY <1>5, <1>7
  <2>2. s \in bLive /\ (dismissed[s].age > 0 => s \in list.listed) /\ dismissed[s].age \in Nat
    BY <1>1, <1>4, <1>7, <2>1, ListAssumption DEF Lasts, Dismissal
  <2>3. age(s) = 0
    BY <2>2 DEF age
  <2>. QED  BY <1>5, <2>1, <2>2, <2>3
<1>8. Lasts(R)
  BY <1>7 DEF Lasts
<1>. QED  BY <1>5, <1>6, <1>8

(***************************************************************************)
(* The phone's steps.                                                      *)
(***************************************************************************)
(* What the invariant says of the phone. *)
LEMMA PhoneFacts ==
  ASSUME ListInv
  PROVE  /\ dismissed \in [Sessions -> Dismissal] /\ view \in [Sessions -> Presence]
         /\ saved \in [view : [Sessions -> Presence], dismissed : [Sessions -> Dismissal], applied : Nat]
         /\ applied \in Nat /\ pend \in Sessions \cup {NoSession} /\ crashed \in BOOLEAN
         /\ Lasts(dismissed) /\ Lasts(saved.dismissed)
         /\ Hides(dismissed, view) /\ Hides(saved.dismissed, saved.view)
         /\ pend # NoSession /\ goneBy[pend] = "no" => dismissed[pend].on
         /\ closes \in SUBSET Sessions /\ ClosesFit
         /\ readies \in SUBSET Sessions /\ (\A s \in readies : Created(s))
         /\ NotDismissed \in Dismissal /\ ~ NotDismissed.on
BY ListAssumption DEF ListInv, ListTypeOK, NotDismissed, Dismissal

(* merge_session_list hides what is dismissed and shows what was created. *)
LEMMA MergedHides ==
  ASSUME ListInv, NEW i \in DOMAIN lists
  PROVE  Merged(lists[i]) \in [Sessions -> Presence] /\ Hides(dismissed, Merged(lists[i]))
<1>. DEFINE list == lists[i]
<1>1. \A s \in Sessions : Merged(list)[s] =
        IF s \in list.removed THEN "none"
        ELSE IF s \in list.listed /\ ~dismissed[s].on THEN IF list.offline THEN "offline" ELSE "live"
        ELSE IF view[s] = "none" THEN "none"
        ELSE IF list.offline THEN "offline" ELSE "stale"
  BY DEF Merged
<1>2. list.listed \subseteq {s \in Sessions : Created(s)}
  BY DEF ListInv, ListsFit
<1>3. Merged(list) \in [Sessions -> Presence]
  BY DEF Merged, Presence, ListingPresence
<1>4. \A s \in Sessions : (dismissed[s].on => view[s] = "none") /\ (view[s] # "none" => Created(s))
  BY PhoneFacts DEF Hides
<1>5. ASSUME NEW s \in Sessions, dismissed[s].on  PROVE Merged(list)[s] = "none"
  BY <1>1, <1>4, <1>5
<1>6. ASSUME NEW s \in Sessions, Merged(list)[s] # "none"  PROVE Created(s)
  BY <1>1, <1>2, <1>4, <1>6
<1>. QED  BY <1>3, <1>5, <1>6 DEF Hides

(* on_sessions *)
LEMMA ApplyListKeeps ==
  ASSUME ListInv, UNCHANGED listScene, NEW i \in DOMAIN lists, ApplyList(i)
  PROVE  ListInv'
<1>. DEFINE list == lists[i]
            kept == Pruned(Relisted(list))
            due == ClosesDue(list)
<1>1. /\ view' = Merged(list) /\ dismissed' = kept /\ closes' = closes \cup due /\ applied' = i
      /\ UNCHANGED <<bLive, goneBy, lists, readies, pend, saved, crashed>>
  BY DEF ApplyList, bridgeVars, undoVars
<1>2. Relisted(list) \in [Sessions -> Dismissal] /\ Lasts(Relisted(list))
      /\ (\A s \in Sessions : Relisted(list)[s].on = dismissed[s].on)
  BY RelistedLasts
<1>3. kept \in [Sessions -> Dismissal] /\ Lasts(kept)
      /\ (\A s \in Sessions : (kept[s].on => dismissed[s].on) /\ (dismissed[s].on /\ goneBy[s] = "no" => kept[s].on))
  BY <1>2, PrunedLasts, SMTT(30), ZenonT(30)
<1>4. i \in Nat
  BY DEF ListInv, ListTypeOK, IsSeq
<1>5. due \subseteq Sessions /\ (\A s \in due : dismissed[s].on /\ s # pend)
  BY DEF ListInv, ListsFit, ClosesDue
<1>6. Merged(list) \in [Sessions -> Presence] /\ Hides(dismissed, Merged(list))
  BY MergedHides
<1>. HIDE DEF list, kept, due
<1>7. Hides(dismissed', view')
  BY <1>1, <1>3, <1>6 DEF Hides
<1>8. ClosesFit' /\ closes' \in SUBSET Sessions
  BY <1>1, <1>3, <1>5, PhoneFacts DEF ClosesFit
<1>9. pend' # NoSession /\ goneBy[pend'] = "no" => dismissed'[pend'].on
  BY <1>1, <1>3, PhoneFacts
<1>. QED  BY <1>1, <1>3, <1>4, <1>6, <1>7, <1>8, <1>9, PhoneFacts, PhoneKeeps

(* No scene has a session-ready arrive after the delete of its session,    *)
(* which apply_session_upsert would take for a new one.                    *)
Orderly == \A scene \in ListScenes : "late ready" \notin scene.may

(* session-ready *)
LEMMA ApplyReadyKeeps ==
  ASSUME ListInv, Orderly, UNCHANGED listScene, NEW s \in Sessions, ApplyReady(s)
  PROVE  ListInv'
<1>1. s \in readies /\ ~ dismissed[s].on
  BY DEF ApplyReady, LateReady, Orderly, ListInv, ListTypeOK
<1>2. /\ readies' = readies \ {s} /\ view' = [view EXCEPT ![s] = "live"]
      /\ UNCHANGED <<bLive, goneBy, lists, closes, applied, dismissed, saved, pend, crashed>>
  BY DEF ApplyReady, bridgeVars, undoVars
<1>3. view' \in [Sessions -> Presence]
  BY <1>2, PhoneFacts DEF Presence, ListingPresence
<1>4. Hides(dismissed', view')
  BY <1>1, <1>2, PhoneFacts DEF Hides
<1>5. ClosesFit'
  BY <1>2, PhoneFacts DEF ClosesFit
<1>. QED  BY <1>2, <1>3, <1>4, <1>5, PhoneFacts, PhoneKeeps

(* close-session-ack *)
LEMMA ApplyAckKeeps ==
  ASSUME ListInv, UNCHANGED listScene, NEW a \in acks, ApplyAck(a)
  PROVE  ListInv'
<1>1. /\ view' = [view EXCEPT ![a.id] = "none"]
      /\ dismissed' = [dismissed EXCEPT ![a.id].closed = @ \/ (a.success /\ dismissed[a.id].on)]
      /\ UNCHANGED <<bLive, goneBy, lists, readies, closes, applied, saved, pend, crashed>>
  BY DEF ApplyAck, bridgeVars, undoVars
<1>2. view' \in [Sessions -> Presence] /\ (\A s \in Sessions : view'[s] = view[s] \/ view'[s] = "none")
  BY <1>1, PhoneFacts DEF Presence
<1>3. dismissed' \in [Sessions -> Dismissal]
      /\ (\A s \in Sessions : dismissed'[s].on = dismissed[s].on /\ dismissed'[s].age = dismissed[s].age
                             /\ dismissed'[s].quiet = dismissed[s].quiet)
  <2>1. dismissed \in [Sessions -> Dismissal]
    BY PhoneFacts
  <2>2. \A s \in Sessions : dismissed[s].on \in BOOLEAN /\ dismissed[s].closed \in BOOLEAN
    BY <2>1 DEF Dismissal
  <2>3. PICK closed \in BOOLEAN : a.id \in Sessions => closed = (dismissed[a.id].closed \/ (a.success /\ dismissed[a.id].on))
    BY <2>2
  <2>4. dismissed' = [s \in Sessions |-> IF s = a.id THEN [dismissed[s] EXCEPT !.closed = closed] ELSE dismissed[s]]
    BY <1>1, <2>1, <2>3
  <2>. QED  BY <2>1, <2>4 DEF Dismissal
<1>4. Lasts(dismissed')
  BY <1>3, PhoneFacts DEF Lasts
<1>5. Hides(dismissed', view')
  BY <1>2, <1>3, PhoneFacts DEF Hides
<1>6. ClosesFit' /\ (pend' # NoSession /\ goneBy[pend'] = "no" => dismissed'[pend'].on)
  BY <1>1, <1>3, PhoneFacts DEF ClosesFit
<1>. QED  BY <1>1, <1>2, <1>3, <1>4, <1>5, <1>6, PhoneFacts, PhoneKeeps

(* The sessions a commit closes. *)
LEMMA CommitsFit ==
  ASSUME ListInv, closes' = closes \cup CommitCloses
  PROVE  \A s \in closes' : s \in Sessions /\ (s \in closes \/ (s = pend /\ pend # NoSession))
<1>1. closes \in SUBSET Sessions /\ pend \in Sessions \cup {NoSession}
  BY PhoneFacts
<1>2. CASE pend = NoSession
  BY <1>1, <1>2 DEF CommitCloses
<1>3. CASE pend # NoSession
  BY <1>1, <1>3 DEF CommitCloses
<1>. QED  BY <1>2, <1>3

(* DeleteController::commit: what pended is closed, and pends no more. *)
LEMMA CommitFits ==
  ASSUME ListInv, closes' = closes \cup CommitCloses, pend' = NoSession,
         UNCHANGED <<goneBy, dismissed, crashed>>
  PROVE  closes' \in SUBSET Sessions /\ ClosesFit'
<1>1. \A s \in closes' : s \in Sessions /\ (s \in closes \/ (s = pend /\ pend # NoSession))
  BY CommitsFit
<1>2. \A s \in Sessions : s # NoSession
  BY ListAssumption
<1>. QED  BY <1>1, <1>2, PhoneFacts DEF ClosesFit

(* request_delete *)
LEMMA DeleteKeeps ==
  ASSUME ListInv, UNCHANGED listScene, NEW s \in Sessions, Delete(s)
  PROVE  ListInv'
<1>1. /\ closes' = closes \cup CommitCloses
      /\ UNCHANGED <<bLive, goneBy, lists, readies, applied, saved, crashed>>
  BY DEF Delete, bridgeVars
<1>2. CASE view[s] = "none"
  <2>1. pend' = NoSession /\ UNCHANGED <<view, dismissed>>
    BY <1>2 DEF Delete
  <2>2. closes' \in SUBSET Sessions /\ ClosesFit'
    BY <1>1, <2>1, CommitFits
  <2>. QED  BY <1>1, <2>1, <2>2, PhoneFacts, PhoneKeeps
<1>3. CASE view[s] # "none"
  <2>. DEFINE kept == Pruned(dismissed)
              fresh == [NotDismissed EXCEPT !.on = TRUE]
  <2>1. dismissed' = [kept EXCEPT ![s] = fresh] /\ view' = [view EXCEPT ![s] = "none"] /\ pend' = s
    BY <1>3 DEF Delete
  <2>2. kept \in [Sessions -> Dismissal] /\ Lasts(kept)
        /\ (\A t \in Sessions : (kept[t].on => dismissed[t].on) /\ (dismissed[t].on /\ goneBy[t] = "no" => kept[t].on))
    BY PrunedLasts, PhoneFacts
  <2>3. fresh \in Dismissal /\ fresh.on /\ fresh.age = 0 /\ fresh.quiet = 0
    <3>1. fresh \in Dismissal
      <4>1. NotDismissed \in Dismissal
        BY PhoneFacts
      <4>2. \A d \in Dismissal, b \in BOOLEAN : [d EXCEPT !.on = b] \in Dismissal
        BY DEF Dismissal
      <4>. QED  BY <4>1, <4>2, Zenon
    <3>2. fresh.on = TRUE
      BY DEF NotDismissed
    <3>3. fresh.age = 0 /\ fresh.quiet = 0
      BY DEF NotDismissed
    <3>. QED  BY <3>1, <3>2, <3>3
  <2>. HIDE DEF kept, fresh
  <2>4. Created(s) /\ \A t \in Sessions : dismissed[t].on => t # s
    BY <1>3, PhoneFacts DEF Hides
  <2>5. dismissed' \in [Sessions -> Dismissal] /\ view' \in [Sessions -> Presence]
    BY <2>1, <2>2, <2>3, PhoneFacts DEF Presence
  <2>6. Lasts(dismissed')
    <3>. SUFFICES ASSUME NEW t \in Sessions, dismissed'[t].on, goneBy[t] = "no"
                  PROVE  /\ t \in bLive /\ dismissed'[t].quiet = 0
                         /\ dismissed'[t].age > 0 => \A i \in DOMAIN lists : t \in lists[i].listed
      BY DEF Lasts
    <3>1. CASE t = s
      <4>1. dismissed'[t] = fresh
        BY <2>1, <2>2, <3>1
      <4>. QED  BY <4>1, <2>3, <2>4, <3>1 DEF Created
    <3>2. CASE t # s
      <4>1. dismissed'[t] = kept[t]
        BY <2>1, <2>2, <3>2
      <4>. QED  BY <4>1, <2>2 DEF Lasts
    <3>. QED  BY <3>1, <3>2
  <2>7. Hides(dismissed', view')
    BY <2>1, <2>2, PhoneFacts DEF Hides
  <2>8. closes' \in SUBSET Sessions /\ \A t \in closes' : t \in closes \/ (t = pend /\ pend # NoSession)
    BY <1>1, CommitsFit
  <2>9. ASSUME NEW t \in closes', goneBy[t] = "no", ~ crashed  PROVE dismissed'[t].on /\ pend' # t
    <3>1. t \in Sessions /\ dismissed[t].on
      BY <2>8, <2>9, PhoneFacts DEF ClosesFit
    <3>2. t # s /\ kept[t].on
      BY <2>2, <2>4, <2>9, <3>1
    <3>. QED  BY <2>1, <2>2, <3>1, <3>2
  <2>10. ClosesFit'
    BY <1>1, <2>9 DEF ClosesFit
  <2>11. dismissed'[pend'].on
    BY <2>1, <2>2, <2>3
  <2>. QED  BY <1>1, <2>1, <2>5, <2>6, <2>7, <2>8, <2>10, <2>11, PhoneFacts, PhoneKeeps
<1>. QED  BY <1>2, <1>3

(* undo *)
LEMMA UndoKeeps ==
  ASSUME ListInv, UNCHANGED listScene, UndoDelete
  PROVE  ListInv'
<1>1. /\ pend # NoSession /\ pend \in Sessions /\ pend' = NoSession
      /\ dismissed' = [dismissed EXCEPT ![pend] = NotDismissed]
      /\ view' = [view EXCEPT ![pend] = "live"]
      /\ UNCHANGED <<bLive, goneBy, lists, readies, closes, applied, saved, crashed>>
  BY PhoneFacts DEF UndoDelete, bridgeVars, wireVars
<1>2. Created(pend)
  BY <1>1, PhoneFacts DEF Lasts, Created
<1>3. dismissed' \in [Sessions -> Dismissal] /\ view' \in [Sessions -> Presence]
  BY <1>1, PhoneFacts DEF Presence, ListingPresence
<1>4. \A t \in Sessions : dismissed'[t].on => t # pend /\ dismissed'[t] = dismissed[t]
  BY <1>1, PhoneFacts
<1>5. Lasts(dismissed')
  BY <1>4, PhoneFacts DEF Lasts
<1>6. Hides(dismissed', view')
  BY <1>1, <1>2, <1>4, PhoneFacts DEF Hides
<1>7. ClosesFit'
  <2>1. \A t \in closes : t \in Sessions /\ t # NoSession
    BY PhoneFacts, ListAssumption
  <2>2. \A t \in Sessions : t # pend => dismissed'[t] = dismissed[t]
    BY <1>1, PhoneFacts
  <2>. QED  BY <1>1, <2>1, <2>2, PhoneFacts DEF ClosesFit
<1>. QED  BY <1>1, <1>3, <1>5, <1>6, <1>7, PhoneFacts, PhoneKeeps

(* What the phone writes is what it shows. *)
LEMMA SnapshotFits ==
  ASSUME ListInv, NEW what, what = Snapshot
  PROVE  /\ what \in [view : [Sessions -> Presence], dismissed : [Sessions -> Dismissal], applied : Nat]
         /\ Lasts(what.dismissed) /\ Hides(what.dismissed, what.view)
<1>1. CASE what = saved
  BY <1>1, PhoneFacts
<1>2. CASE what = [view |-> view, dismissed |-> dismissed, applied |-> applied]
  <2>1. what.view = view /\ what.dismissed = dismissed
    BY <1>2
  <2>2. what \in [view : [Sessions -> Presence], dismissed : [Sessions -> Dismissal], applied : Nat]
    BY <1>2, PhoneFacts
  <2>. QED  BY <2>1, <2>2, PhoneFacts
<1>. QED  BY <1>1, <1>2 DEF Snapshot

(* The rest of the phone's steps: a close-session lost, the timer, its     *)
(* message, the writes, and the pause that commits.                        *)
LEMMA QuietKeeps ==
  ASSUME ListInv, UNCHANGED listScene,
         \/ \E s \in Sessions : CloseLost(s)
         \/ TimerElapses \/ UndoTimerFired \/ FlushListWrites \/ Pause
  PROVE  ListInv'
<1>1. UNCHANGED <<bLive, goneBy, lists, readies, applied, view, dismissed, crashed>>
  BY DEF CloseLost, TimerElapses, UndoTimerFired, FlushListWrites, Pause,
         bridgeVars, wireVars, phoneVars
<1>2. saved' = saved \/ saved' = Snapshot
  BY DEF CloseLost, TimerElapses, UndoTimerFired, FlushListWrites, Pause, phoneVars
<1>3. \/ closes' \subseteq closes /\ pend' = pend
      \/ closes' = closes \cup CommitCloses /\ pend' = NoSession
  BY DEF CloseLost, TimerElapses, UndoTimerFired, FlushListWrites, Pause, CommitPending, undoVars, wireVars
<1>4. closes' \in SUBSET Sessions /\ ClosesFit'
  <2>1. CASE closes' \subseteq closes /\ pend' = pend
    BY <1>1, <2>1, PhoneFacts DEF ClosesFit
  <2>2. CASE closes' = closes \cup CommitCloses /\ pend' = NoSession
    BY <1>1, <2>2, CommitFits
  <2>. QED  BY <1>3, <2>1, <2>2
<1>5. /\ saved' \in [view : [Sessions -> Presence], dismissed : [Sessions -> Dismissal], applied : Nat]
      /\ Lasts(saved'.dismissed) /\ Hides(saved'.dismissed, saved'.view)
  <2>1. CASE saved' = saved
    BY <2>1, PhoneFacts
  <2>2. CASE saved' = Snapshot
    BY <2>2, SnapshotFits
  <2>. QED  BY <1>2, <2>1, <2>2
<1>6. pend' \in Sessions \cup {NoSession} /\ (pend' # NoSession => pend' = pend)
  BY <1>3, PhoneFacts
<1>. QED  BY <1>1, <1>4, <1>5, <1>6, PhoneFacts, PhoneKeeps

(* The process dies and starts from what was written. *)
LEMMA RestartKeeps ==
  ASSUME ListInv, UNCHANGED listScene, Restart
  PROVE  ListInv'
<1>1. /\ view' = [s \in Sessions |-> IF saved.view[s] = "none" THEN "none" ELSE "offline"]
      /\ dismissed' = saved.dismissed /\ applied' = saved.applied
      /\ crashed' = TRUE /\ pend' = NoSession
      /\ UNCHANGED <<bLive, goneBy, lists, readies, closes, saved>>
  BY DEF Restart, bridgeVars, wireVars
<1>2. view' \in [Sessions -> Presence] /\ \A s \in Sessions : view'[s] = "none" <=> saved.view[s] = "none"
  BY <1>1 DEF Presence, ListingPresence
<1>3. Hides(dismissed', view')
  BY <1>1, <1>2, PhoneFacts DEF Hides
<1>4. ClosesFit'
  BY <1>1 DEF ClosesFit
<1>5. dismissed' \in [Sessions -> Dismissal] /\ applied' \in Nat /\ Lasts(dismissed')
  BY <1>1, PhoneFacts
<1>. QED  BY <1>1, <1>2, <1>3, <1>4, <1>5, PhoneFacts, PhoneKeeps

(* The dismissals an hour later, when the window holds the newest list alone. *)
Older(ds) == [s \in Sessions |-> IF ds[s].on THEN [ds[s] EXCEPT !.age = CapAt(@ + 1, DismissedTtl)] ELSE ds[s]]

(* They last, each with the session in every list still in flight. *)
LEMMA OlderLasts ==
  ASSUME ListInv, NEW ds \in [Sessions -> Dismissal], Lasts(ds),
         \A i \in DOMAIN lists' : Len(lists) > 0 /\ lists'[i] = lists[Len(lists)],
         NEW es, es = Older(ds)
  PROVE  /\ es \in [Sessions -> Dismissal]
         /\ \A s \in Sessions : es[s].on = ds[s].on
         /\ \A s \in Sessions : es[s].on /\ goneBy[s] = "no" =>
              s \in bLive /\ es[s].quiet = 0 /\ \A i \in DOMAIN lists' : s \in lists'[i].listed
<1>1. \A n \in 0..DismissedTtl : CapAt(n + 1, DismissedTtl) \in 0..DismissedTtl
  BY ListAssumption DEF CapAt
<1>2. \A s \in Sessions : es[s] \in Dismissal /\ es[s].on = ds[s].on /\ es[s].quiet = ds[s].quiet
  <2>. TAKE s \in Sessions
  <2>1. CASE ds[s].on
    <3>1. es[s] = [ds[s] EXCEPT !.age = CapAt(ds[s].age + 1, DismissedTtl)]
      BY <2>1 DEF Older
    <3>2. ds[s] \in Dismissal /\ CapAt(ds[s].age + 1, DismissedTtl) \in 0..DismissedTtl
      BY <1>1 DEF Dismissal
    <3>3. \A d \in Dismissal, n \in 0..DismissedTtl : [d EXCEPT !.age = n] \in Dismissal
      BY DEF Dismissal
    <3>4. es[s] \in Dismissal
      BY <3>1, <3>2, <3>3, Zenon
    <3>5. es[s].on = ds[s].on /\ es[s].quiet = ds[s].quiet
      BY <3>1, <3>2 DEF Dismissal
    <3>. QED  BY <3>4, <3>5
  <2>2. CASE ~ ds[s].on
    <3>1. es[s] = ds[s]
      BY <2>2 DEF Older
    <3>. QED  BY <3>1
  <2>. QED  BY <2>1, <2>2
<1>3. es \in [Sessions -> Dismissal]
  <2>1. DOMAIN es = Sessions /\ es = [s \in Sessions |-> es[s]]
    BY DEF Older
  <2>. QED  BY <1>2, <2>1
<1>4. ASSUME NEW s \in Sessions, es[s].on, goneBy[s] = "no"
      PROVE  s \in bLive /\ es[s].quiet = 0 /\ \A i \in DOMAIN lists' : s \in lists'[i].listed
  <2>1. ds[s].on
    BY <1>2, <1>4
  <2>2. s \in bLive /\ es[s].quiet = 0
    BY <1>2, <1>4, <2>1 DEF Lasts
  <2>. QED  BY <2>2 DEF ListInv, ListsFit
<1>. QED  BY <1>2, <1>3, <1>4

(* An hour passes. *)
LEMMA TickKeeps ==
  ASSUME ListInv, UNCHANGED listScene, Tick
  PROVE  ListInv' /\ \A s \in Sessions : dismissed'[s].on = dismissed[s].on
<1>. DEFINE atLast(n) == IF Len(lists) > 0 /\ n = Len(lists) THEN 1 ELSE 0
<1>1. /\ dismissed' = Older(dismissed)
      /\ lists' = IF Len(lists) = 0 THEN <<>> ELSE <<lists[Len(lists)]>>
      /\ applied' = atLast(applied)
      /\ saved' = [view |-> saved.view, dismissed |-> Older(saved.dismissed), applied |-> atLast(saved.applied)]
      /\ UNCHANGED <<bLive, goneBy, readies, closes, view, pend, crashed>>
  BY DEF Tick, Older, undoVars
<1>2. saved'.view = saved.view /\ saved'.dismissed = Older(saved.dismissed)
  BY <1>1
<1>3. IsSeq(lists)
  BY DEF ListInv, ListTypeOK
<1>4. /\ IsSeq(lists')
      /\ \A i \in DOMAIN lists' : Len(lists) \in DOMAIN lists /\ Len(lists) > 0 /\ lists'[i] = lists[Len(lists)]
      /\ Len(lists') > 0 => Len(lists) > 0 /\ lists'[Len(lists')] = lists[Len(lists)]
  BY <1>1, <1>3, NewestAlone
<1>5. /\ dismissed' \in [Sessions -> Dismissal]
      /\ \A s \in Sessions : dismissed'[s].on = dismissed[s].on
      /\ Lasts(dismissed)' /\ Hides(dismissed, view)'
  <2>1. dismissed \in [Sessions -> Dismissal] /\ Lasts(dismissed) /\ Hides(dismissed, view)
    BY PhoneFacts
  <2>2. /\ dismissed' \in [Sessions -> Dismissal]
        /\ \A s \in Sessions : dismissed'[s].on = dismissed[s].on
        /\ \A s \in Sessions : dismissed'[s].on /\ goneBy[s] = "no" =>
             s \in bLive /\ dismissed'[s].quiet = 0 /\ \A i \in DOMAIN lists' : s \in lists'[i].listed
    BY <1>1, <1>4, <2>1, OlderLasts, SMTT(30), ZenonT(30)
  <2>3. Lasts(dismissed)'
    BY <1>1, <2>2 DEF Lasts
  <2>4. Hides(dismissed, view)'
    BY <1>1, <2>1, <2>2 DEF Hides, Created
  <2>. QED  BY <2>2, <2>3, <2>4
<1>6. /\ saved'.dismissed \in [Sessions -> Dismissal]
      /\ Lasts(saved.dismissed)' /\ Hides(saved.dismissed, saved.view)'
  <2>1. saved.dismissed \in [Sessions -> Dismissal] /\ Lasts(saved.dismissed) /\ Hides(saved.dismissed, saved.view)
    BY PhoneFacts
  <2>2. /\ saved'.dismissed \in [Sessions -> Dismissal]
        /\ \A s \in Sessions : saved'.dismissed[s].on = saved.dismissed[s].on
        /\ \A s \in Sessions : saved'.dismissed[s].on /\ goneBy[s] = "no" =>
             s \in bLive /\ saved'.dismissed[s].quiet = 0 /\ \A i \in DOMAIN lists' : s \in lists'[i].listed
    BY <1>2, <1>4, <2>1, OlderLasts
  <2>3. Lasts(saved.dismissed)'
    BY <1>1, <2>2 DEF Lasts
  <2>4. Hides(saved.dismissed, saved.view)'
    BY <1>1, <1>2, <2>1, <2>2 DEF Hides, Created
  <2>. QED  BY <2>2, <2>3, <2>4
<1>7. applied' \in Nat /\ saved' \in [view : [Sessions -> Presence], dismissed : [Sessions -> Dismissal], applied : Nat]
  <2>1. \A n : atLast(n) \in Nat
    OBVIOUS
  <2>2. saved.view \in [Sessions -> Presence]
    BY PhoneFacts
  <2>. HIDE DEF atLast
  <2>. QED  BY <1>1, <1>2, <1>6, <2>1, <2>2
<1>8. ListsFit'
  <2>1. \A i \in DOMAIN lists' : lists'[i].listed \subseteq {s \in Sessions : Created(s)}
    BY <1>4 DEF ListInv, ListsFit
  <2>2. Len(lists') > 0 => bLive \subseteq lists'[Len(lists')].listed
    BY <1>4 DEF ListInv, ListsFit
  <2>. QED  BY <1>1, <2>1, <2>2 DEF ListsFit, Created
<1>9. ListTypeOK'
  BY <1>1, <1>4, <1>5, <1>7 DEF ListInv, ListTypeOK
<1>10. ClosesFit'
  BY <1>1, <1>5, PhoneFacts DEF ClosesFit
<1>11. (\A s \in readies : Created(s))' /\ (\A s \in bLive : goneBy[s] = "no")'
  BY <1>1 DEF ListInv, Created
<1>12. (pend # NoSession /\ goneBy[pend] = "no" => dismissed[pend].on)'
  BY <1>1, <1>5, PhoneFacts
<1>13. (closes \in SUBSET Sessions)'
  BY <1>1, PhoneFacts
<1>14. ListInv'
  BY <1>5, <1>6, <1>8, <1>9, <1>10, <1>11, <1>12, <1>13 DEF ListInv
<1>. QED  BY <1>5, <1>14

(***************************************************************************)
(* The invariant holds.                                                    *)
(***************************************************************************)
LEMMA ListInitKeeps == ListInit => ListInv
<1>. SUFFICES ASSUME ListInit  PROVE ListInv
  OBVIOUS
<1>1. /\ listScene \in ListScenes /\ bLive \subseteq Sessions
      /\ lists = <<>> /\ readies = {} /\ closes = {} /\ applied = 0
      /\ pend = NoSession /\ crashed = FALSE
      /\ goneBy = [s \in Sessions |-> "no"]
  BY ListAssumption DEF ListInit
<1>2. view \in [Sessions -> Presence] /\ \A s \in Sessions : view[s] # "none" => s \in bLive
  BY DEF ListInit, Presence, ListingPresence
<1>3. dismissed \in [Sessions -> Dismissal] /\ \A s \in Sessions : ~ dismissed[s].on
  <2>1. NotDismissed \in Dismissal /\ ~ NotDismissed.on
    BY ListAssumption DEF NotDismissed, Dismissal
  <2>2. dismissed = [s \in Sessions |-> NotDismissed]
    BY DEF ListInit
  <2>. QED  BY <2>1, <2>2
<1>4. saved = [view |-> view, dismissed |-> dismissed, applied |-> 0]
  BY DEF ListInit
<1>5. saved.view = view /\ saved.dismissed = dismissed
      /\ saved \in [view : [Sessions -> Presence], dismissed : [Sessions -> Dismissal], applied : Nat]
  BY <1>2, <1>3, <1>4
<1>6. IsSeq(lists) /\ Len(lists) = 0 /\ DOMAIN lists = {}
  <2>1. lists \in Seq({lists}) /\ Len(lists) = 0
    BY <1>1
  <2>2. DOMAIN lists = {}
    BY <2>1
  <2>3. IsSeq(lists)
    BY <2>1, OwnElements
  <2>. QED  BY <2>1, <2>2, <2>3
<1>7. ListTypeOK
  <2>1. bLive \in SUBSET Sessions /\ readies \in SUBSET Sessions /\ applied \in Nat
    BY <1>1
  <2>2. goneBy \in [Sessions -> {"no", "closed", "removed"}] /\ pend \in Sessions \cup {NoSession}
    BY <1>1
  <2>3. listScene \in ListScenes /\ crashed \in BOOLEAN
    BY <1>1, Zenon
  <2>. QED  BY <1>2, <1>3, <1>5, <1>6, <2>1, <2>2, <2>3 DEF ListTypeOK
<1>8. ListsFit
  BY <1>6 DEF ListsFit
<1>9. Lasts(dismissed) /\ Hides(dismissed, view)
  BY <1>2, <1>3 DEF Lasts, Hides, Created
<1>10. ClosesFit
  BY <1>1 DEF ClosesFit
<1>. QED  BY <1>1, <1>5, <1>7, <1>8, <1>9, <1>10 DEF ListInv

(* Every step of SessionList keeps the invariant. *)
LEMMA ListNextKeeps ==
  ASSUME Orderly
  PROVE  ListInv /\ [ListNext]_listVars => ListInv'
<1>. SUFFICES ASSUME ListInv, [ListNext]_listVars  PROVE ListInv'
  OBVIOUS
<1>1. CASE UNCHANGED listVars
  <2>1. UNCHANGED <<listScene, bLive, goneBy, lists, readies, applied, view, dismissed, saved, pend, closes, crashed>>
    BY <1>1 DEF listVars
  <2>2. ClosesFit'
    BY <2>1, PhoneFacts DEF ClosesFit
  <2>. QED  BY <2>1, <2>2, PhoneFacts, PhoneKeeps
<1>2. CASE ListStep /\ UNCHANGED listScene
  <2>1. CASE \/ \E offline \in BOOLEAN : Heartbeat(offline)
             \/ Refresh
             \/ \E s \in Sessions : Create(s) \/ CloseArrives(s) \/ DeletedElsewhere(s)
    BY <1>2, <2>1, BridgeKeeps
  <2>2. CASE (\E s \in Sessions : CloseLost(s)) \/ TimerElapses \/ UndoTimerFired \/ FlushListWrites \/ Pause
    BY <1>2, <2>2, QuietKeeps
  <2>3. CASE \E s \in Sessions : ApplyReady(s)
    BY <1>2, <2>3, ApplyReadyKeeps
  <2>4. CASE \E s \in Sessions : Delete(s)
    BY <1>2, <2>4, DeleteKeeps
  <2>5. CASE \E i \in DOMAIN lists : ApplyList(i)
    BY <1>2, <2>5, ApplyListKeeps
  <2>6. CASE \E a \in acks : ApplyAck(a)
    BY <1>2, <2>6, ApplyAckKeeps
  <2>7. CASE UndoDelete
    BY <1>2, <2>7, UndoKeeps
  <2>8. CASE Restart
    BY <1>2, <2>8, RestartKeeps
  <2>9. CASE Tick
    BY <1>2, <2>9, TickKeeps
  <2>. QED  BY <1>2, <2>1, <2>2, <2>3, <2>4, <2>5, <2>6, <2>7, <2>8, <2>9 DEF ListStep
<1>. QED  BY <1>1, <1>2 DEF ListNext

(* ListInv always holds of the bridge, the wire and the phone, when no     *)
(* session-ready is older than a delete.                                   *)
THEOREM ListAlwaysInductive == ASSUME Orderly PROVE ListSpec => []ListInv
<1>1. ListInit => ListInv
  BY ListInitKeeps
<1>2. ListInv /\ [ListNext]_listVars => ListInv'
  BY ListNextKeeps
<1>. QED  BY <1>1, <1>2, PTL DEF ListSpec

(* A session the user deleted is not shown while its dismissal lasts,      *)
(* whatever lists arrive (apply_session_list filters them by it).          *)
THEOREM DeletedStaysHidden == ASSUME Orderly PROVE ListSpec => []StaysHidden
<1>1. ListInv => StaysHidden
  BY PhoneFacts DEF Hides, StaysHidden
<1>. QED  BY <1>1, ListAlwaysInductive, PTL

-----------------------------------------------------------------------------
(***************************************************************************)
(* Deleting a session keeps its promise: SessionList implements            *)
(* SessionDeletes.  The life of a session is read off who had the bridge   *)
(* drop it, the delete that pends and the dismissals; each step of the     *)
(* bridge, the wire and the phone moves one life, two, or none.            *)
(***************************************************************************)

(* The life of one session changes. *)
LEMMA LifeMoves ==
  ASSUME NEW s \in Sessions, NEW from, NEW to, LifeOf(s) \in from, LifeOf(s)' = to,
         \A t \in Sessions : t # s => LifeOf(t)' = LifeOf(t)
  PROVE  Promise!Move(s, from, to)
<1>. DEFINE f == [t \in Sessions |-> LifeOf(t)]
            g == [t \in Sessions |-> LifeOf(t)']
<1>1. f[s] \in from
  OBVIOUS
<1>2. g = [f EXCEPT ![s] = to]
  <2>1. \A t \in Sessions : g[t] = [f EXCEPT ![s] = to][t]
    OBVIOUS
  <2>. QED  BY <2>1
<1>. QED  BY <1>1, <1>2 DEF Promise!Move

(* No life changes. *)
LEMMA LivesStay ==
  ASSUME UNCHANGED crashed, \A t \in Sessions : LifeOf(t)' = LifeOf(t)
  PROVE  UNCHANGED Promise!specVars
BY DEF Promise!specVars

(* What a life is read off. *)
LEMMA SameLife ==
  ASSUME UNCHANGED <<goneBy, pend, crashed>>,
         \A s \in Sessions : goneBy[s] = "no" => dismissed'[s].on = dismissed[s].on
  PROVE  UNCHANGED Promise!specVars
<1>1. \A t \in Sessions : LifeOf(t)' = LifeOf(t)
  BY DEF LifeOf
<1>. QED  BY <1>1, LivesStay

(* on_close_session and the flush after it. *)
LEMMA CloseRefines ==
  ASSUME ListInv, NEW s \in Sessions, NEW by \in {"closed", "removed"}, CloseAt(s, by),
         by = "closed" => s \in closes
  PROVE  Promise!SpecNext \/ UNCHANGED Promise!specVars
<1>1. UNCHANGED <<dismissed, pend, crashed>>
      /\ goneBy' = IF s \in bLive THEN [goneBy EXCEPT ![s] = by] ELSE goneBy
  BY DEF CloseAt, undoVars
<1>2. CASE s \notin bLive
  <2>1. UNCHANGED <<goneBy, pend, crashed, dismissed>>
    BY <1>1, <1>2
  <2>. QED  BY <2>1, SameLife
<1>3. CASE s \in bLive
  <2>1. goneBy[s] = "no" /\ goneBy \in [Sessions -> {"no", "closed", "removed"}]
    BY <1>3 DEF ListInv, ListTypeOK
  <2>2. goneBy'[s] = by /\ \A t \in Sessions : t # s => goneBy'[t] = goneBy[t]
    BY <1>1, <1>3, <2>1
  <2>3. LifeOf(s)' = by /\ (\A t \in Sessions : t # s => LifeOf(t)' = LifeOf(t))
    BY <1>1, <2>2 DEF LifeOf
  <2>4. LifeOf(s) \in {"open", "hidden", "deleting"}
    BY <2>1 DEF LifeOf
  <2>5. CASE by = "removed"
    <3>1. Promise!Move(s, {"open", "hidden", "deleting"}, "removed")
      BY <2>3, <2>4, <2>5, LifeMoves
    <3>. QED  BY <1>1, <3>1 DEF Promise!SpecNext, Promise!RemoveElsewhere
  <2>6. CASE by = "closed" /\ ~ crashed
    <3>1. LifeOf(s) \in {"deleting"}
      BY <2>1, <2>6, PhoneFacts DEF ClosesFit, LifeOf
    <3>2. Promise!Move(s, {"deleting"}, "closed")
      BY <2>3, <2>6, <3>1, LifeMoves
    <3>. QED  BY <1>1, <3>2 DEF Promise!SpecNext, Promise!Close
  <2>7. CASE by = "closed" /\ crashed
    <3>1. Promise!Move(s, {"open", "hidden", "deleting"}, "closed")
      BY <2>3, <2>4, <2>7, LifeMoves
    <3>. QED  BY <1>1, <2>7, <3>1 DEF Promise!SpecNext, Promise!CloseAfterCrash
  <2>. QED  BY <2>5, <2>6, <2>7
<1>. QED  BY <1>2, <1>3

(* DeleteController::commit: the pending delete, if any, is committed. *)
LEMMA CommitRefines ==
  ASSUME ListInv, pend' = NoSession, UNCHANGED <<goneBy, dismissed, crashed>>
  PROVE  Promise!SpecNext \/ UNCHANGED Promise!specVars
<1>1. \A t \in Sessions : t # NoSession
  BY ListAssumption
<1>2. \A t \in Sessions : t # pend => LifeOf(t)' = LifeOf(t)
  BY <1>1 DEF LifeOf
<1>3. CASE pend = NoSession \/ goneBy[pend] # "no"
  <2>1. \A t \in Sessions : LifeOf(t)' = LifeOf(t)
    BY <1>1, <1>2, <1>3 DEF LifeOf
  <2>. QED  BY <2>1, LivesStay
<1>4. CASE pend # NoSession /\ goneBy[pend] = "no"
  <2>1. pend \in Sessions /\ dismissed[pend].on
    BY <1>4, PhoneFacts
  <2>2. PICK t \in Sessions : t = pend
    BY <2>1
  <2>3. LifeOf(t)' = "deleting" /\ LifeOf(t) \in {"hidden"}
    BY <1>1, <1>4, <2>1, <2>2 DEF LifeOf
  <2>4. Promise!Move(t, {"hidden"}, "deleting")
    BY <1>2, <2>2, <2>3, LifeMoves
  <2>. QED  BY <2>4 DEF Promise!SpecNext, Promise!Commit
<1>. QED  BY <1>3, <1>4

(* undo *)
LEMMA UndoRefines ==
  ASSUME ListInv, UndoDelete
  PROVE  Promise!SpecNext \/ UNCHANGED Promise!specVars
<1>1. /\ pend # NoSession /\ pend \in Sessions /\ pend' = NoSession
      /\ dismissed' = [dismissed EXCEPT ![pend] = NotDismissed]
      /\ UNCHANGED <<goneBy, crashed>>
  BY PhoneFacts DEF UndoDelete, bridgeVars
<1>2. \A t \in Sessions : t # NoSession
  BY ListAssumption
<1>3. PICK s \in Sessions : s = pend
  BY <1>1
<1>4. ~ dismissed'[s].on /\ \A t \in Sessions : t # s => dismissed'[t] = dismissed[t]
  BY <1>1, <1>3, PhoneFacts
<1>5. \A t \in Sessions : t # s => LifeOf(t)' = LifeOf(t)
  BY <1>1, <1>2, <1>3, <1>4 DEF LifeOf
<1>6. CASE goneBy[s] # "no"
  <2>1. \A t \in Sessions : LifeOf(t)' = LifeOf(t)
    BY <1>1, <1>5, <1>6 DEF LifeOf
  <2>. QED  BY <1>1, <2>1, LivesStay
<1>7. CASE goneBy[s] = "no"
  <2>1. LifeOf(s)' = "open" /\ LifeOf(s) \in {"hidden"}
    BY <1>1, <1>2, <1>3, <1>4, <1>7 DEF LifeOf
  <2>2. Promise!Move(s, {"hidden"}, "open")
    BY <1>5, <2>1, LifeMoves
  <2>. QED  BY <1>1, <2>2 DEF Promise!SpecNext, Promise!Undo
<1>. QED  BY <1>6, <1>7

(* request_delete: what pended commits, and the session is hidden. *)
LEMMA DeleteRefines ==
  ASSUME ListInv, NEW s \in Sessions, Delete(s)
  PROVE  Promise!SpecNext \/ UNCHANGED Promise!specVars
<1>1. UNCHANGED <<goneBy, crashed>>
  BY DEF Delete, bridgeVars
<1>2. CASE view[s] = "none"
  <2>1. pend' = NoSession /\ UNCHANGED dismissed
    BY <1>2 DEF Delete
  <2>. QED  BY <1>1, <2>1, CommitRefines
<1>3. CASE view[s] # "none"
  <2>. DEFINE kept == Pruned(dismissed)
              pends == pend # NoSession /\ goneBy[pend] = "no"
  <2>1. dismissed' = [kept EXCEPT ![s] = [NotDismissed EXCEPT !.on = TRUE]] /\ pend' = s
    BY <1>3 DEF Delete
  <2>2. kept \in [Sessions -> Dismissal]
        /\ (\A t \in Sessions : (kept[t].on => dismissed[t].on) /\ (dismissed[t].on /\ goneBy[t] = "no" => kept[t].on))
    BY PrunedLasts, PhoneFacts, SMTT(30), ZenonT(30)
  <2>. HIDE DEF kept
  <2>3. \A t \in Sessions : t # s /\ goneBy[t] = "no" => (dismissed'[t].on <=> dismissed[t].on)
    BY <2>1, <2>2
  <2>4. ~ dismissed[s].on /\ (pends => pend \in Sessions /\ pend # s /\ dismissed[pend].on)
    BY <1>3, PhoneFacts DEF Hides
  <2>5. \A t \in Sessions : t # s /\ (t = pend => ~ pends) => LifeOf(t)' = LifeOf(t)
    <3>1. \A t \in Sessions : t # NoSession
      BY ListAssumption
    <3>. QED  BY <1>1, <2>1, <2>3, <3>1 DEF LifeOf
  <2>6. goneBy[s] = "no" => LifeOf(s)' = "hidden" /\ LifeOf(s) = "open"
    <3>1. goneBy[s] = "no" => pend # s
      <4>1. s # NoSession
        BY ListAssumption
      <4>. QED  BY <2>4, <4>1
    <3>. QED  BY <1>1, <2>1, <2>4, <3>1 DEF LifeOf
  <2>7. goneBy[s] # "no" => LifeOf(s)' = LifeOf(s)
    BY <1>1 DEF LifeOf
  <2>8. pends => LifeOf(pend) = "hidden"
    BY DEF LifeOf
  <2>9. ASSUME NEW t \in Sessions, t = pend, pends  PROVE LifeOf(t)' = "deleting" /\ LifeOf(t) = "hidden" /\ t # s
    <3>1. t # s /\ dismissed'[t].on /\ goneBy'[t] = "no"
      BY <1>1, <2>3, <2>4, <2>9
    <3>. QED  BY <2>1, <2>9, <3>1 DEF LifeOf
  <2>10. CASE ~ pends /\ goneBy[s] # "no"
    <3>1. \A t \in Sessions : LifeOf(t)' = LifeOf(t)
      BY <2>5, <2>7, <2>10
    <3>. QED  BY <1>1, <3>1, LivesStay
  <2>11. CASE ~ pends /\ goneBy[s] = "no"
    <3>1. Promise!Move(s, {"open"}, "hidden")
      BY <2>5, <2>6, <2>11, LifeMoves
    <3>. QED  BY <1>1, <3>1 DEF Promise!SpecNext, Promise!Hide
  <2>12. CASE pends
    <3>1. PICK p \in Sessions : p = pend
      BY <2>4, <2>12
    <3>2. LifeOf(p)' = "deleting" /\ LifeOf(p) = "hidden" /\ p # s
      BY <2>9, <2>12, <3>1
    <3>3. \A t \in Sessions : t # s /\ t # p => LifeOf(t)' = LifeOf(t)
      BY <2>5, <3>1
    <3>. HIDE DEF pends
    <3>4. CASE goneBy[s] # "no"
      <4>1. Promise!Move(p, {"hidden"}, "deleting")
        BY <2>7, <3>2, <3>3, <3>4, LifeMoves
      <4>. QED  BY <1>1, <4>1 DEF Promise!SpecNext, Promise!Commit
    <3>5. CASE goneBy[s] = "no"
      <4>. DEFINE f == [t \in Sessions |-> LifeOf(t)]
                  g == [t \in Sessions |-> LifeOf(t)']
      <4>1. f[p] = "hidden" /\ f[s] = "open"
        BY <2>6, <3>2, <3>5
      <4>2. g = [f EXCEPT ![p] = "deleting", ![s] = "hidden"]
        <5>1. \A t \in Sessions : g[t] = [f EXCEPT ![p] = "deleting", ![s] = "hidden"][t]
          BY <2>6, <3>2, <3>3, <3>5
        <5>. QED  BY <5>1
      <4>3. Promise!HideNext(p, s)
        BY <1>1, <3>2, <4>1, <4>2 DEF Promise!HideNext
      <4>. QED  BY <4>3 DEF Promise!SpecNext
    <3>. QED  BY <3>4, <3>5
  <2>. QED  BY <2>10, <2>11, <2>12
<1>. QED  BY <1>2, <1>3

(* The process dies: nothing gone at the bridge comes back. *)
LEMMA RestartRefines ==
  ASSUME ListInv, Restart
  PROVE  Promise!Crash
<1>1. UNCHANGED goneBy /\ crashed' = TRUE
  BY DEF Restart, bridgeVars
<1>2. goneBy \in [Sessions -> {"no", "closed", "removed"}]
  BY DEF ListInv, ListTypeOK
<1>3. \A s \in Sessions : LifeOf(s) \in Promise!Lives /\ LifeOf(s)' \in Promise!Lives
  BY <1>1, <1>2 DEF LifeOf, Promise!Lives
<1>4. \A s \in Sessions : /\ LifeOf(s) \in {"closed", "removed"} <=> LifeOf(s)' \in {"closed", "removed"}
                          /\ LifeOf(s) \in {"closed", "removed"} => LifeOf(s)' = LifeOf(s)
  BY <1>1, <1>2 DEF LifeOf
<1>. QED  BY <1>1, <1>3, <1>4 DEF Promise!Crash

(* Steps that change no life: no dismissal of a session the bridge has     *)
(* starts or ends, and nothing pends or stops pending.                     *)
LEMMA StutterRefines ==
  ASSUME ListInv, UNCHANGED listScene,
         \/ \E offline \in BOOLEAN : Heartbeat(offline)
         \/ Refresh
         \/ \E s \in Sessions : Create(s) \/ CloseLost(s) \/ ApplyReady(s)
         \/ \E i \in DOMAIN lists : ApplyList(i)
         \/ \E a \in acks : ApplyAck(a)
         \/ TimerElapses \/ FlushListWrites \/ Tick
  PROVE  UNCHANGED Promise!specVars
<1>1. CASE \/ \E offline \in BOOLEAN : Heartbeat(offline)
           \/ Refresh
           \/ \E s \in Sessions : Create(s) \/ CloseLost(s) \/ ApplyReady(s)
           \/ TimerElapses \/ FlushListWrites
  <2>1. UNCHANGED <<goneBy, pend, crashed, dismissed>>
    BY <1>1 DEF Heartbeat, Refresh, Create, CloseLost, ApplyReady, TimerElapses, FlushListWrites,
                bridgeVars, undoVars, phoneVars
  <2>. QED  BY <2>1, SameLife
<1>2. CASE \E i \in DOMAIN lists : ApplyList(i)
  <2>1. PICK i \in DOMAIN lists : ApplyList(i)
    BY <1>2
  <2>2. dismissed' = Pruned(Relisted(lists[i])) /\ UNCHANGED <<goneBy, pend, crashed>>
    BY <2>1 DEF ApplyList, bridgeVars, undoVars
  <2>3. Relisted(lists[i]) \in [Sessions -> Dismissal] /\ Lasts(Relisted(lists[i]))
        /\ (\A s \in Sessions : Relisted(lists[i])[s].on = dismissed[s].on)
    BY RelistedLasts
  <2>4. \A s \in Sessions : goneBy[s] = "no" => dismissed'[s].on = dismissed[s].on
    <3>. DEFINE ds == Relisted(lists[i])
    <3>. HIDE DEF ds
    <3>1. dismissed' \in [Sessions -> Dismissal]
          /\ \A s \in Sessions : (dismissed'[s].on => ds[s].on)
                                 /\ (ds[s].on /\ goneBy[s] = "no" => dismissed'[s].on)
      <4>1. ds \in [Sessions -> Dismissal] /\ Lasts(ds) /\ dismissed' = Pruned(ds)
        BY <2>2, <2>3 DEF ds
      <4>. QED  BY <4>1, PrunedLasts
    <3>2. \A s \in Sessions : ds[s].on = dismissed[s].on
      BY <2>3 DEF ds
    <3>3. \A s \in Sessions : dismissed'[s].on \in BOOLEAN /\ dismissed[s].on \in BOOLEAN
      BY <3>1, PhoneFacts DEF Dismissal
    <3>. QED  BY <3>1, <3>2, <3>3
  <2>. QED  BY <2>2, <2>4, SameLife
<1>3. CASE \E a \in acks : ApplyAck(a)
  <2>1. PICK a \in acks : ApplyAck(a)
    BY <1>3
  <2>2. dismissed' = [dismissed EXCEPT ![a.id].closed = @ \/ (a.success /\ dismissed[a.id].on)]
        /\ UNCHANGED <<goneBy, pend, crashed>>
    BY <2>1 DEF ApplyAck, bridgeVars, undoVars
  <2>3. \A s \in Sessions : dismissed'[s].on = dismissed[s].on
    BY <2>2, PhoneFacts DEF Dismissal
  <2>. QED  BY <2>2, <2>3, SameLife
<1>4. CASE Tick
  <2>1. UNCHANGED <<goneBy, pend, crashed>>
    BY <1>4 DEF Tick, undoVars
  <2>2. \A s \in Sessions : dismissed'[s].on = dismissed[s].on
    BY <1>4, TickKeeps
  <2>. QED  BY <2>1, <2>2, SameLife
<1>. QED  BY <1>1, <1>2, <1>3, <1>4

(* Every step is one of SessionDeletes, or none. *)
LEMMA StepRefines ==
  ASSUME ListInv, [ListNext]_listVars
  PROVE  [Promise!SpecNext]_(Promise!specVars)
<1>1. CASE UNCHANGED listVars
  <2>1. UNCHANGED <<goneBy, pend, crashed, dismissed>>
    BY <1>1 DEF listVars
  <2>. QED  BY <2>1, SameLife
<1>2. CASE ListStep /\ UNCHANGED listScene
  <2>1. CASE \/ \E offline \in BOOLEAN : Heartbeat(offline)
             \/ Refresh
             \/ \E s \in Sessions : Create(s) \/ CloseLost(s) \/ ApplyReady(s)
             \/ \E i \in DOMAIN lists : ApplyList(i)
             \/ \E a \in acks : ApplyAck(a)
             \/ TimerElapses \/ FlushListWrites \/ Tick
    BY <1>2, <2>1, StutterRefines
  <2>2. CASE \E s \in Sessions : CloseArrives(s)
    <3>1. PICK s \in Sessions : CloseArrives(s)
      BY <2>2
    <3>2. s \in closes /\ CloseAt(s, "closed")
      BY <3>1 DEF CloseArrives
    <3>. QED  BY <3>2, CloseRefines
  <2>3. CASE \E s \in Sessions : DeletedElsewhere(s)
    <3>1. PICK s \in Sessions : CloseAt(s, "removed")
      BY <2>3 DEF DeletedElsewhere
    <3>. QED  BY <3>1, CloseRefines
  <2>4. CASE \E s \in Sessions : Delete(s)
    BY <2>4, DeleteRefines
  <2>5. CASE UndoDelete
    BY <2>5, UndoRefines
  <2>6. CASE UndoTimerFired \/ Pause
    <3>1. pend' = NoSession /\ UNCHANGED <<goneBy, dismissed, crashed>>
      BY <2>6 DEF UndoTimerFired, Pause, CommitPending, bridgeVars
    <3>. QED  BY <3>1, CommitRefines
  <2>7. CASE Restart
    BY <2>7, RestartRefines DEF Promise!SpecNext
  <2>. QED  BY <1>2, <2>1, <2>2, <2>3, <2>4, <2>5, <2>6, <2>7 DEF ListStep
<1>. QED  BY <1>1, <1>2 DEF ListNext

(* The first state of the list is the first state of what it promises. *)
LEMMA InitRefines == ListInit => Promise!SpecInit
<1>. SUFFICES ASSUME ListInit  PROVE Promise!SpecInit
  OBVIOUS
<1>1. /\ goneBy = [s \in Sessions |-> "no"] /\ pend = NoSession /\ crashed = FALSE
      /\ dismissed = [s \in Sessions |-> NotDismissed]
  BY DEF ListInit
<1>2. \A s \in Sessions : s # NoSession
  BY ListAssumption
<1>3. ~ NotDismissed.on
  BY DEF NotDismissed
<1>4. \A s \in Sessions : LifeOf(s) = "open"
  BY <1>1, <1>2, <1>3 DEF LifeOf
<1>. QED  BY <1>1, <1>4 DEF Promise!SpecInit

(* Deleting keeps its promise: every behaviour of the bridge, the wire and *)
(* the phone is one of SessionDeletes, and what was deleted stays hidden.  *)
THEOREM DeletesAreKept == ASSUME Orderly PROVE ListSpec => DeletesKept
<1>1. ListInit => Promise!SpecInit
  BY InitRefines
<1>2. ListInv /\ [ListNext]_listVars => [Promise!SpecNext]_(Promise!specVars)
  BY StepRefines
<1>3. ListSpec => KeepsPromise
  BY <1>1, <1>2, ListAlwaysInductive, PTL DEF ListSpec, KeepsPromise, Promise!Spec
<1>. QED  BY <1>3, DeletedStaysHidden, PTL DEF DeletesKept
===============================================================================
