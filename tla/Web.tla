------------------------------- MODULE Web ---------------------------------
(***************************************************************************)
(* Browsers of the bridge's web page: the page (bridge-runtime/src/web.rs) *)
(* shows a browser a code, the engine (bridge-core/src/engine/web.rs)      *)
(* matches the code a paired phone sends, and the page lets that browser   *)
(* in and keeps it over a restart; the phone's side is stores/ui.rs.       *)
(*                                                                         *)
(* A browser is the number of the sign-in that made its cookie, and its    *)
(* code the same number: both are drawn afresh for each.  What the page    *)
(* serves to a browser that is let in is left out but for the browsers.    *)
(***************************************************************************)
EXTENDS Integers, Sequences, FiniteSets, SequencesExt

CONSTANTS
  MaxPending,       \* MAX_PENDING, MAX_WEB_SIGN_IN_CODES
  MaxSessions,      \* MAX_SESSIONS
  PendingTtl,       \* PENDING_TTL_MS
  SessionTtl,       \* SESSION_TTL_MS
  StartsPerMinute,  \* STARTS_PER_MINUTE; a minute is a tick
  MaxStarts,        \* bound: sign-ins started
  MaxTime,          \* bound: ticks of the clock
  MaxSends,         \* bound: commands the phone sends
  WebMay            \* sets of what happens: "restart", "crash", "end", "list"

ASSUME WebAssumption ==
  /\ {MaxPending, MaxSessions, PendingTtl, SessionTtl, StartsPerMinute, MaxStarts, MaxTime, MaxSends} \subseteq Nat
  /\ MaxPending > 0 /\ MaxSessions > 0 /\ \A m \in WebMay : m \subseteq {"restart", "crash", "end", "list"}

VARIABLES
  webMay,   \* what happens in this behaviour
  time,
  page,     \* the page's browsers, its next order, the sign-ins it started this minute
  inputs,   \* the bridge's input queue
  codes,    \* the codes the engine knows: when each lapses
  writes,   \* sets of browsers handed to the writer thread
  file,     \* web-sessions.json
  screen,   \* the phone: the code it sent, how it stands, the browsers it lists
  sent,     \* commands the phone sent
  replies,  \* what the bridge answered
  letIn     \* history: codes that let a browser in

webVars == <<webMay, time, page, inputs, codes, writes, file, screen, sent, replies, letIn>>

NoCode == 0
Never == 0
Ids == 1 .. MaxStarts
Gone == [st |-> "gone", exp |-> 0, order |-> 0]

WebInit ==
  /\ webMay \in WebMay /\ time = 1
  /\ page = [browsers |-> [k \in Ids |-> Gone], order |-> 1, started |-> 0, window |-> 1, count |-> 0]
  /\ inputs = <<>> /\ codes = [k \in Ids |-> Never] /\ writes = <<>> /\ file = [k \in Ids |-> Gone]
  /\ screen = [code |-> NoCode, state |-> "none", list |-> {}] /\ sent = 0
  /\ replies = {} /\ letIn = {}

WebPlay(x) == x \in webMay
Are(bs, st) == {k \in Ids : bs[k].st = st}
Live(k) == page.browsers[k].exp > time

(***************************************************************************)
(* The page                                                                *)
(***************************************************************************)
EvictOldest(bs, cap, st) ==
  LET these == Are(bs, st)
      over == {k \in these : Cardinality({j \in these : bs[j].order >= bs[k].order}) > cap}
  IN  [bs |-> [k \in Ids |-> IF k \in over THEN Gone ELSE bs[k]],
       dropped |-> SetToSortSeq(over, LAMBDA j, k : bs[j].order < bs[k].order)]

\* Web::persist: the writer gets the signed-in browsers, oldest first.
Persist(bs) == Append(writes, [k \in Ids |-> IF bs[k].st = "in" THEN bs[k] ELSE Gone])

Withdraw(bs, k) == IF bs[k].st = "pending" THEN <<[kind |-> "withdrawn", k |-> k, exp |-> 0]>> ELSE <<>>

RECURSIVE WithdrawAll(_, _)
WithdrawAll(bs, ks) == IF ks = <<>> THEN <<>> ELSE Withdraw(bs, Head(ks)) \o WithdrawAll(bs, Tail(ks))

\* How many sign-ins of this minute count against the address.
Counted == IF time - page.window < 1 THEN page.count ELSE 0

StartSignIn ==
  /\ page.started < MaxStarts
  /\ Counted < StartsPerMinute
  /\ LET k == page.started + 1
         exp == time + PendingTtl
         kept == [j \in Ids |-> IF Live(j) THEN page.browsers[j] ELSE Gone]
         with == [kept EXCEPT ![k] = [st |-> "pending", exp |-> exp, order |-> page.order]]
         left == EvictOldest(with, MaxPending, "pending")
     IN  /\ page' = [browsers |-> left.bs, order |-> page.order + 1, started |-> k,
                     window |-> IF Counted = 0 THEN time ELSE page.window, count |-> Counted + 1]
         /\ inputs' = inputs \o <<[kind |-> "pending", k |-> k, exp |-> exp]>> \o WithdrawAll(with, left.dropped)
  /\ UNCHANGED <<webMay, time, codes, writes, file, screen, sent, replies, letIn>>

\* Web::signed_in
SignedIn(pg, k) ==
  IF pg.browsers[k].st # "pending" THEN pg
  ELSE LET with == [pg.browsers EXCEPT ![k] = [st |-> "in", exp |-> time + SessionTtl, order |-> pg.order]]
       IN  [pg EXCEPT !.browsers = EvictOldest(with, MaxSessions, "in").bs, !.order = @ + 1]

\* Web::sign_out, of the browser itself or of one revoked: what it leaves.
SignOut(bs, k) == [bs EXCEPT ![k] = Gone]

\* Web::browser: a request of the browser's finds it lapsed, or may have the file written.
Request(k) ==
  /\ page.browsers[k] # Gone
  /\ \/ /\ ~ Live(k)
        /\ page' = [page EXCEPT !.browsers[k] = Gone]
     \/ Live(k) /\ page.browsers[k].st = "in" /\ UNCHANGED page
  /\ writes' = Persist(page'.browsers)
  /\ writes = <<>>   \* bound
  /\ UNCHANGED <<webMay, time, inputs, codes, file, screen, sent, replies, letIn>>

\* POST /api/sign-out, and /api/browsers/sign-out of browser `k` by one let in.
SignOutRequest(k) ==
  /\ WebPlay("end") /\ page.browsers[k] # Gone /\ Live(k)
  /\ page' = [page EXCEPT !.browsers = SignOut(@, k)]
  /\ inputs' = inputs \o Withdraw(page.browsers, k)
  /\ writes' = Persist(page'.browsers)
  /\ UNCHANGED <<webMay, time, codes, file, screen, sent, replies, letIn>>

\* Web::browser_rows
BrowserRows(bs) == {k \in Ids : bs[k].st = "in" /\ bs[k].exp > time}

\* The writer thread writes the next set, and a start reads it back.
WriterWrites ==
  /\ writes # <<>>
  /\ file' = Head(writes) /\ writes' = Tail(writes)
  /\ UNCHANGED <<webMay, time, page, inputs, codes, screen, sent, replies, letIn>>

LoadSessions ==
  LET kept == {k \in Ids : file[k] # Gone /\ file[k].exp > time}
  IN  [k \in Ids |-> IF k \in kept
                       THEN [file[k] EXCEPT !.order = Cardinality({j \in kept : file[j].order <= file[k].order})]
                       ELSE Gone]

Restart ==
  /\ WebPlay("crash") \/ (WebPlay("restart") /\ writes = <<>>)
  /\ page' = [page EXCEPT !.browsers = LoadSessions, !.order = Cardinality(Are(LoadSessions, "in")) + 1, !.count = 0]
  /\ inputs' = <<>> /\ writes' = <<>> /\ codes' = [k \in Ids |-> Never]
  /\ UNCHANGED <<webMay, time, file, screen, sent, replies, letIn>>

(***************************************************************************)
(* The engine takes the next input, and its effects are carried out        *)
(***************************************************************************)
Next1 == Head(inputs)
Took(kind) == inputs # <<>> /\ Next1.kind = kind /\ inputs' = Tail(inputs)

\* The codes a full table may drop: soonest to lapse, any of equals.
Soonest(held) == {k \in held : \A j \in held : codes[k] <= codes[j]}

OnWebSignInPending ==
  /\ Took("pending")
  /\ LET held == {k \in Ids : codes[k] > time}
         full == Cardinality(held) >= MaxPending
     IN  \E drop \in IF full THEN {{k} : k \in Soonest(held)} ELSE {{}} :
           codes' = [k \in Ids |-> IF k = Next1.k THEN Next1.exp ELSE IF k \in held \ drop THEN codes[k] ELSE Never]
  /\ UNCHANGED <<webMay, time, page, writes, file, screen, sent, replies, letIn>>

OnWebSignInWithdrawn ==
  /\ Took("withdrawn")
  /\ codes' = [codes EXCEPT ![Next1.k] = Never]
  /\ UNCHANGED <<webMay, time, page, writes, file, screen, sent, replies, letIn>>

\* Mutant: a code that let a browser in stays.
UsedStays(k) == codes

\* The code is gone once it was sent, live or not.
Used(k) == [codes EXCEPT ![k] = Never]

OnWebSignIn ==
  /\ Took("sign in")
  /\ LET k == Next1.k
         live == codes[k] > time
     IN  /\ codes' = Used(k)
         /\ page' = IF live THEN SignedIn(page, k) ELSE page
         /\ writes' = IF live THEN Persist(page'.browsers) ELSE writes
         /\ replies' = replies \cup {[kind |-> "result", k |-> k, ok |-> live, list |-> {}]}
         /\ letIn' = IF live /\ page.browsers[k].st = "pending" THEN letIn \cup {k} ELSE letIn
  /\ UNCHANGED <<webMay, time, file, screen, sent>>

\* web-browsers-request and web-browser-sign-out: the answer is the list the page then has.
OnWebBrowsers ==
  /\ \/ Took("list") /\ UNCHANGED <<page, writes>>
     \/ /\ Took("end")
        /\ IF page.browsers[Next1.k].st = "in"
             THEN page' = [page EXCEPT !.browsers = SignOut(@, Next1.k)] /\ writes' = Persist(page'.browsers)
             ELSE UNCHANGED <<page, writes>>
  /\ replies' = replies \cup {[kind |-> "list", k |-> NoCode, ok |-> TRUE, list |-> BrowserRows(page'.browsers)]}
  /\ UNCHANGED <<webMay, time, codes, file, screen, sent, letIn>>

(***************************************************************************)
(* The phone                                                               *)
(***************************************************************************)
WebSends(kind, k) ==
  /\ sent < MaxSends /\ sent' = sent + 1
  /\ inputs' = Append(inputs, [kind |-> kind, k |-> k, exp |-> 0])
  /\ UNCHANGED <<webMay, time, page, codes, writes, file, replies, letIn>>

\* The user types the code of a browser, shown now or before.
WebSignIn(k) ==
  /\ k <= page.started
  /\ WebSends("sign in", k)
  /\ screen' = [screen EXCEPT !.code = k, !.state = "sending"]

ClearWebSignIn ==
  /\ screen.code # NoCode
  /\ screen' = [screen EXCEPT !.code = NoCode, !.state = "none"]
  /\ UNCHANGED <<webMay, time, page, inputs, codes, writes, file, sent, replies, letIn>>

RequestWebBrowsers == WebPlay("list") /\ WebSends("list", NoCode) /\ UNCHANGED screen

SignOutWebBrowser(k) ==
  /\ k \in screen.list
  /\ WebSends("end", k)
  /\ screen' = [screen EXCEPT !.list = @ \ {k}]

\* apply_web_sign_in_result
ResultNoted(sc, m) ==
  IF sc.code # m.k \/ (~ m.ok /\ sc.state = "signed in") THEN sc
  ELSE [sc EXCEPT !.state = IF m.ok THEN "signed in" ELSE "not matched"]

\* An answer arrives, in any order and perhaps again.
WebReply ==
  /\ \E m \in replies :
       screen' = IF m.kind = "list" THEN [screen EXCEPT !.list = m.list] ELSE ResultNoted(screen, m)
  /\ UNCHANGED <<webMay, time, page, inputs, codes, writes, file, sent, replies, letIn>>

WebTick ==
  /\ time < MaxTime /\ time' = time + 1
  /\ UNCHANGED <<webMay, page, inputs, codes, writes, file, screen, sent, replies, letIn>>

WebNext ==
  \/ StartSignIn \/ WriterWrites \/ Restart \/ WebTick
  \/ OnWebSignInPending \/ OnWebSignInWithdrawn \/ OnWebSignIn \/ OnWebBrowsers
  \/ ClearWebSignIn \/ RequestWebBrowsers \/ WebReply
  \/ \E k \in Ids : Request(k) \/ SignOutRequest(k) \/ WebSignIn(k) \/ SignOutWebBrowser(k)

WebSpec == WebInit /\ [][WebNext]_webVars

(***************************************************************************)
(* Properties                                                              *)
(***************************************************************************)
\* "A code works once": a browser is let in only by the code it shows itself and that
\* a phone sent, and the phone that is shown a sign-in sent that browser's code.
LetInByItsCode ==
  /\ \A k \in Are(page.browsers, "in") : k \in letIn
  /\ screen.state = "signed in" => \E m \in replies : m.kind = "result" /\ m.k = screen.code /\ m.ok
  /\ \A k \in letIn : codes[k] = Never

\* "No phone may use it any more": with nothing of the page's on its way to the
\* engine, each live code the engine would take is one a browser still shows.
CodesAreShown ==
  (\A n \in DOMAIN inputs : inputs[n].kind \notin {"pending", "withdrawn"}) =>
    \A k \in Ids : codes[k] > time => page.browsers[k].st = "pending"

\* "So the two sets stay the same": and each code a browser shows is one it takes.
CodesAgree ==
  (\A n \in DOMAIN inputs : inputs[n].kind \notin {"pending", "withdrawn"}) /\ ~ WebPlay("restart") /\ ~ WebPlay("crash") =>
    \A k \in Ids : page.browsers[k].st = "pending" /\ Live(k) => codes[k] > time

\* "So a phone is never told it let in a browser this page no longer knows."
ToldTheTruth == \A m \in replies : m.kind = "result" /\ m.ok => m.k \in letIn

\* "The file on disk is always the latest one handed over": with no write waiting, a
\* restart brings back the browsers that are signed in, and no other.
FileAgrees ==
  writes = <<>> => {k \in Ids : file[k] # Gone /\ file[k].exp > time} = BrowserRows(page.browsers)

\* Signing a browser in: only by its own code, only codes a phone was shown, and
\* the sessions file says who is signed in.
WebSound == LetInByItsCode /\ CodesAreShown /\ FileAgrees
=============================================================================
