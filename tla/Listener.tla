------------------------------ MODULE Listener ------------------------------
(***************************************************************************)
(* The bridge's listeners: every connection is counted, in all and by      *)
(* host, secured, and then served as a direct link or as a request of the  *)
(* web page.  Each step has its own deadline, a connection may break off   *)
(* anywhere, and a browser may be signed out while its request is read.    *)
(***************************************************************************)
EXTENDS Naturals, FiniteSets

CONSTANTS Hosts, Requests,                      \* who connects, and what a browser asks for
          MaxArrivals,                          \* bound: connections made in all
          MaxPageConnections, MaxPerHost, MaxPageRequests

ASSUME ListenAssumption == MaxPageConnections \in Nat /\ MaxPerHost \in Nat /\ MaxPageRequests \in Nat

VARIABLES
  arrived,      \* connections made so far
  socks,        \* the connections being served: number -> Sock
  open, openByHost, serving,   \* the bridge's counts
  signedIn,     \* the browser has a signed-in session
  pairedNow,    \* the phone is paired
  pageChanges       \* what requests did, with the session as it then was (history)

listenVars == <<arrived, socks, open, openByHost, serving, signedIn, pairedNow, pageChanges>>

\* A request as the page tells requests apart: its host is the page's, its
\* origin its own, its session that of the browser.
Request(method, path, host, origin, cookie) ==
  [method |-> method, path |-> path, host |-> host, origin |-> origin, cookie |-> cookie]
NoRequest == Request("none", "none", FALSE, FALSE, FALSE)
Sock(host) == [host |-> host, step |-> "secure", request |-> NoRequest]

ListenInit ==
  /\ arrived = 0 /\ socks = << >>
  /\ open = 0 /\ openByHost = [h \in Hosts |-> 0] /\ serving = 0
  /\ signedIn = TRUE /\ pairedNow = TRUE /\ pageChanges = {}

-----------------------------------------------------------------------------
(* accept_loop *)

Accept(host) ==
  /\ arrived < MaxArrivals
  /\ arrived' = arrived + 1
  /\ IF open >= MaxPageConnections \/ openByHost[host] >= MaxPerHost
     THEN UNCHANGED <<socks, open, openByHost>>
     ELSE /\ socks' = [n \in DOMAIN socks \cup {arrived'} |-> IF n = arrived' THEN Sock(host) ELSE socks[n]]
          /\ open' = open + 1
          /\ openByHost' = [openByHost EXCEPT ![host] = @ + 1]
  /\ UNCHANGED <<serving, signedIn, pairedNow, pageChanges>>

\* The task of a connection is over, however it went.
TaskOver(n) ==
  /\ socks' = [m \in DOMAIN socks \ {n} |-> socks[m]]
  /\ open' = open - 1
  /\ openByHost' = [openByHost EXCEPT ![socks[n].host] = @ - 1]

At(n, step) == n \in DOMAIN socks /\ socks[n].step = step
GoesTo(n, step) == socks' = [socks EXCEPT ![n].step = step] /\ UNCHANGED <<open, openByHost>>

\* Secured, or answered with a redirect to https, or out of time.
Secure(n) ==
  /\ At(n, "secure")
  /\ GoesTo(n, "head") \/ TaskOver(n)
  /\ UNCHANGED <<arrived, serving, signedIn, pairedNow, pageChanges>>

\* The request's head is read in time: a WebSocket goes to the direct link.
ReadHead(n) ==
  /\ At(n, "head")
  /\ GoesTo(n, "hello") \/ TaskOver(n)
  /\ UNCHANGED <<arrived, serving, signedIn, pairedNow, pageChanges>>

\* Anything else goes to the page, which turns it away while it is busy.
ServePage(n, request) ==
  /\ At(n, "head")
  /\ IF serving >= MaxPageRequests
     THEN GoesTo(n, "answer") /\ UNCHANGED serving
     ELSE /\ socks' = [socks EXCEPT ![n].step = "body", ![n].request = request]
          /\ serving' = serving + 1 /\ UNCHANGED <<open, openByHost>>
  /\ UNCHANGED <<arrived, signedIn, pairedNow, pageChanges>>

-----------------------------------------------------------------------------
(* The page. *)

Posts == {"/api/sign-in", "/api/sign-out", "/api/browsers/sign-out", "/api/config"}
Gets == {"/", "/app.js", "/app.css", "/api/me", "/api/sign-in/qr.svg", "/api/status", "/api/browsers", "/api/devices", "/api/config"}
ForSignedIn == {"/api/status", "/api/browsers", "/api/browsers/sign-out", "/api/devices", "/api/config"}

\* What the page answers, given whether the browser is signed in now.
route(request, signed) ==
  IF ~request.host \/ (request.method = "POST" /\ ~request.origin) THEN 403
  ELSE IF request.path \notin Posts \cup Gets THEN 404
  ELSE IF (request.method = "POST" /\ request.path \notin Posts) \/ (request.method = "GET" /\ request.path \notin Gets)
          \/ request.method \notin {"POST", "GET"} THEN 405
  ELSE IF request.path \in ForSignedIn /\ ~(request.cookie /\ signed) THEN 401
  ELSE 200
\* The answers that change something only a signed-in browser may change.
Alters(request) == request.method = "POST" /\ request.path \in ForSignedIn

\* What is whole is answered, after the config write if it asks for one; the
\* change is counted when route allows it, the write being a step of its own.
Answered(n, signed) ==
  LET request == socks[n].request
      answer == route(request, signed)
  IN /\ pageChanges' = IF answer = 200 /\ Alters(request) THEN pageChanges \cup {[by |-> request, signed |-> signedIn]} ELSE pageChanges
     /\ signedIn' = (signedIn /\ ~(answer = 200 /\ request.path = "/api/sign-out" /\ request.cookie))
     /\ IF answer = 200 /\ request.path = "/api/config" /\ request.method = "POST"
        THEN GoesTo(n, "write") /\ UNCHANGED serving
        ELSE GoesTo(n, "answer") /\ serving' = serving - 1

\* Mutant: the session is the one the browser had when it connected.
ReadRequestStale(n) ==
  /\ At(n, "body")
  /\ (GoesTo(n, "answer") /\ serving' = serving - 1 /\ UNCHANGED <<pageChanges, signedIn>>) \/ Answered(n, TRUE)
  /\ UNCHANGED <<arrived, pairedNow>>
\* The body is read whole, or it is too long, broken off or out of time.
ReadRequest(n) ==
  /\ At(n, "body")
  /\ (GoesTo(n, "answer") /\ serving' = serving - 1 /\ UNCHANGED <<pageChanges, signedIn>>) \/ Answered(n, signedIn)
  /\ UNCHANGED <<arrived, pairedNow>>
ConfigWritten(n) ==
  /\ At(n, "write") /\ GoesTo(n, "answer") /\ serving' = serving - 1
  /\ UNCHANGED <<arrived, signedIn, pairedNow, pageChanges>>
WriteResponse(n) ==
  /\ At(n, "answer") /\ TaskOver(n)
  /\ UNCHANGED <<arrived, serving, signedIn, pairedNow, pageChanges>>

-----------------------------------------------------------------------------
(* The direct link's connection. *)

\* The challenge is answered in time by a phone that is paired now: the link
\* is open. Anything else closes it.
Hello(n) ==
  /\ At(n, "hello")
  /\ (pairedNow /\ GoesTo(n, "link")) \/ TaskOver(n)
  /\ UNCHANGED <<arrived, serving, signedIn, pairedNow, pageChanges>>
\* The link ends: it broke, went idle or stopped reading, or was unpaired.
LinkOver(n) ==
  /\ At(n, "link") /\ TaskOver(n)
  /\ UNCHANGED <<arrived, serving, signedIn, pairedNow, pageChanges>>

\* Elsewhere: the session runs out or is ended on a phone; the phone is unpaired.
SessionOver ==
  /\ signedIn /\ signedIn' = FALSE
  /\ UNCHANGED <<arrived, socks, open, openByHost, serving, pairedNow, pageChanges>>
Unpaired ==
  /\ pairedNow /\ pairedNow' = FALSE
  /\ UNCHANGED <<arrived, socks, open, openByHost, serving, signedIn, pageChanges>>

Proceeds(n) ==
  \/ Secure(n) \/ ReadHead(n) \/ ReadRequest(n) \/ ConfigWritten(n) \/ WriteResponse(n) \/ Hello(n)
  \/ \E request \in Requests : ServePage(n, request)
ListenNext ==
  \/ \E h \in Hosts : Accept(h)
  \/ \E n \in DOMAIN socks : Proceeds(n) \/ LinkOver(n)
  \/ SessionOver \/ Unpaired
ListenSpec == ListenInit /\ [][ListenNext]_listenVars

-----------------------------------------------------------------------------
\* The counts the bridge refuses connections by are exact on every path out
\* of a connection (a refused upgrade, a body that never comes, a config write
\* that is still at work), so it neither shuts itself off nor lets more in
\* than its limits.
CountsExact ==
  /\ open = Cardinality(DOMAIN socks) /\ open <= MaxPageConnections
  /\ \A h \in Hosts : openByHost[h] = Cardinality({n \in DOMAIN socks : socks[n].host = h}) /\ openByHost[h] <= MaxPerHost
  /\ serving = Cardinality({n \in DOMAIN socks : socks[n].step \in {"body", "write"}}) /\ serving <= MaxPageRequests

\* A request changes the bridge only for the page's own origin and a browser
\* that is signed in when the request is routed, not only when it began to
\* arrive; the write of a config change it was allowed then follows even if the
\* browser signs out meanwhile (web.rs, serve).
ChangesAreSignedIn == \A c \in pageChanges : c.signed /\ c.by.cookie /\ c.by.host /\ c.by.origin

\* The listeners: exact counts, and changes by the signed-in page only.
ListenSound == CountsExact /\ ChangesAreSignedIn
=============================================================================
