-------------------------------- MODULE Edge --------------------------------
(***************************************************************************)
(* A request from the client that sends it to the answer it hears: client  *)
(* (client.py, or a browser), nginx, the stack of middlewares that         *)
(* app/main.py builds, the routes (app/api/routes), the error handlers.    *)
(* RateLimiter and Validation are composed in; a lookup in service is      *)
(* LookupService's business and just ends here.                            *)
(*                                                                         *)
(* On its way in a request passes the layers of Stack from left to right;  *)
(* the layer that answers sends the answer out through those to the left   *)
(* of it, and only they can add to it.  The limiter and the layer of ids   *)
(* start what is to the right of them in a task of its own and wait for    *)
(* it, so others may go between the limiter and the route.                 *)
(***************************************************************************)
EXTENDS RateLimiter, Validation

CONSTANTS LastRequest,   \* requests are numbered from 1 on; the number is the id
          From,          \* the client that sends a request
          Once,          \* clients that are client.py --isrc or --upc
          Menu,          \* clients that are client.py --interactive
          Proxy,         \* the host of nginx
          Patience,      \* --timeout of client.py, in ticks
          ProxyPatience, \* proxy_read_timeout of nginx, in ticks
          Confs,         \* settings the service may be started with
          Texts,         \* what the users of a client type, by kind of code
          Visits         \* the other paths a client asks for

Requests == 1..LastRequest
NoId     == 0

\* "plain" stands for /health, /openapi.json and the documentation, "docs*" for what
\* merely begins with /docs or /redoc, "ready/" for /health/ too, "unknown" for what no
\* route matches, and a preflight is that of a lookup.
Paths     == {"lookup", "ready", "plain", "docs*", "ready/", "unknown", "preflight"}
Unlimited == {"ready", "plain", "docs*"}   \* _skip_rate_limit

\* client.py knows the lookups, its menu also the routes of the service.
ASSUME EdgeAssumption ==
  /\ LastRequest \in Nat /\ From \in [Requests -> Clients]
  /\ Once \subseteq Clients /\ Menu \subseteq Clients
  /\ Patience \in Nat /\ ProxyPatience \in Nat
  /\ Confs \subseteq [limited : BOOLEAN, cors : BOOLEAN, probes : 0..2]
  /\ Visits \in [Clients -> SUBSET (Paths \ {"lookup"})]
  /\ \A c \in Once : Visits[c] = {}
  /\ \A c \in Menu : Visits[c] \subseteq {"ready", "plain"}

\* What is typed consists of characters; a digit stands for 0 to 9.
ASSUME TextsAssumption ==
  \A c \in Clients :
    \A t \in Texts[c].upc :
      NormalizeUpc(t) \in Seq({"digit", "foreign digit"} \X Digit)

VARIABLES conf,          \* the settings: is there a limit, is there CORS, how many
                         \* of the two ready_check URLs are set
          stage,         \* where the app is with a request
          want,          \* its path, and what validation made of the code in it
          sent,          \* when it was sent
          probes,        \* how the probes of /ready went
          answer,        \* what the app answered
          heard          \* the status the client was told, Nothing, or GaveUp

edge     == <<conf, stage, want, sent, probes, answer, heard>>
edgeVars == <<vars, edge>>

Stages == {"unsent", "inside", "looking", "primary", "fallback", "over"}

Nothing == 0
GaveUp  == -1

NoCode   == Refused("none")
Plain(p) == [path |-> p, code |-> NoCode]

\* What validation makes of each text, computed once.
CodesOf == [c \in Clients |->
              {Validated("isrc", t) : t \in Texts[c].isrc}
                \cup {Validated("upc", t) : t \in Texts[c].upc}]
Codes   == UNION {CodesOf[c] : c \in Clients}

\* What a client asks for.
Asks(c) == [path : {"lookup"}, code : CodesOf[c]] \cup {Plain(p) : p \in Visits[c]}

Types  == {"none", "ok", "default", "http_error", "validation_error", "internal_error",
           "rate_limited", "redirect"}
Statuses == 0..504
Answer == [status : Statuses, type : Types, header : 0..LastRequest, body : 0..LastRequest,
           cors : BOOLEAN]

NoAnswer == [status |-> 0, type |-> "none", header |-> NoId, body |-> NoId, cors |-> FALSE]

EdgeInit ==
  /\ Init
  /\ conf \in Confs
  /\ stage = [r \in Requests |-> "unsent"]
  /\ want = [r \in Requests |-> Plain("plain")]
  /\ sent = [r \in Requests |-> 0]
  /\ probes = [r \in Requests |-> <<>>]
  /\ answer = [r \in Requests |-> NoAnswer]
  /\ heard = [r \in Requests |-> Nothing]

-----------------------------------------------------------------------------
(***************************************************************************)
(* The stack.                                                              *)
(***************************************************************************)
\* Mutant of Stack: CORS is added before the limit.
StackCorsInside == <<"errors", "limit", "cors", "id", "handlers">>

\* From the outside in.  Starlette puts the handler of unexpected exceptions around
\* the middlewares and the other handlers within; of the middlewares, the one added
\* last is outermost.
Stack == <<"errors", "cors", "limit", "id", "handlers">>

\* The layers outside of each.
Outside == [layer \in Range(Stack) |->
              {Stack[i] : i \in {j \in DOMAIN Stack : \E k \in DOMAIN Stack :
                                   j < k /\ Stack[k] = layer}}]

\* The id request.state has when the request is at the layer.
IdAt(layer, r) == IF "id" \in Outside[layer] THEN r ELSE NoId

\* client.py sends no Origin; that of a page is taken to be one that is allowed.
HasOrigin(r) == From[r] \notin Once \cup Menu

\* An answer made at the layer, once it has left the app.
Made(layer, r, status, type, body) ==
  [status |-> status, type |-> type, body |-> body,
   header |-> IdAt(layer, r),
   cors   |-> conf.cors /\ HasOrigin(r) /\ "cors" \in Outside[layer]]

\* The app is through with r, and the client hears of it if it still listens.
Reply(r, x) ==
  /\ stage' = [stage EXCEPT ![r] = "over"]
  /\ answer' = [answer EXCEPT ![r] = x]
  /\ heard' = [heard EXCEPT ![r] = IF @ = Nothing THEN x.status ELSE @]

\* A route's result, an HTTPException, a RequestValidationError, and what no handler
\* of the app is registered for (404, 405: Starlette's own class, so that FastAPI
\* answers without a type and a request_id, which README.md:194 promises).
Success(r)           == Reply(r, Made("handlers", r, 200, "ok", NoId))
Error(r, status, why) == Reply(r, Made("handlers", r, status, why, IdAt("handlers", r)))
NoRoute(r)           == \E status \in {404, 405} :
                           Reply(r, Made("handlers", r, status, "default", NoId))

\* The router sends a path on to the one with or without a slash at the end that a
\* route matches.
Redirect(r) == Reply(r, Made("handlers", r, 307, "redirect", NoId))

\* An exception of a route that only the outermost layer handles: it knows the id
\* that was given further in.
Unexpected(r) == Reply(r, Made("errors", r, 500, "internal_error", r))

-----------------------------------------------------------------------------
(***************************************************************************)
(* The way in.                                                             *)
(***************************************************************************)
\* CORSMiddleware answers a preflight itself.
Preflight(r, a) ==
  /\ conf.cors /\ a.path = "preflight"
  /\ Reply(r, [Made("cors", r, 200, "ok", NoId) EXCEPT !.cors = TRUE])
  /\ UNCHANGED <<vars, probes>>

\* Mutant of Counted: the skip list lacks /ready.
CountedReady(a) == conf.limited /\ a.path # "plain"

Counted(a) == conf.limited /\ a.path \notin Unlimited

\* What the request does to the limiter, which is not there if there is no limit.
Metered(r, a) ==
  \/ ~conf.limited /\ UNCHANGED vars
  \/ conf.limited /\ ~Counted(a) /\ Exempt(From[r])
  \/ Counted(a) /\ Limited(From[r])

\* RateLimitMiddleware answers 429.
TooMany(r) == Reply(r, Made("limit", r, 429, "rate_limited", IdAt("limit", r)))

Waits(r, s) ==
  /\ stage' = [stage EXCEPT ![r] = s]
  /\ UNCHANGED <<answer, heard>>

\* lookup_isrc, lookup_upc: refuse, or ask the service.
Lookup(r, a) ==
  /\ a.path = "lookup"
  /\ \/ a.code \in Refusals /\ Error(r, 422, a.code.kind)
     \/ a.code \notin Refusals /\ Waits(r, "looking")

\* ready, up to its first probe.
Ready(r, a) ==
  /\ a.path = "ready"
  /\ \/ conf.probes = 0 /\ Success(r)
     \/ conf.probes > 0 /\ Waits(r, "primary")

Route(r, a) ==
  \/ a.path = "plain" /\ Success(r)
  \/ a.path \in {"unknown", "preflight", "docs*"} /\ NoRoute(r)
  \/ a.path \in {"ready/", "docs*"} /\ Redirect(r)
  \/ Lookup(r, a)
  \/ Ready(r, a)

\* Up to the limiter, and past it.
Arrive(r, a) ==
  \/ Preflight(r, a)
  \/ /\ ~(conf.cors /\ a.path = "preflight")
     /\ Metered(r, a)
     /\ IF Counted(a) /\ ~verdict'.ok THEN TooMany(r) ELSE Waits(r, "inside")
     /\ UNCHANGED probes

\* In the task that call_next starts: the id is given, the route begins.
Enter(r) ==
  /\ stage[r] = "inside"
  /\ Route(r, want[r])
  /\ UNCHANGED <<vars, conf, want, sent, probes>>

(***************************************************************************)
(* What goes on after that.                                                *)
(***************************************************************************)
LookupDone(r) ==
  /\ stage[r] = "looking"
  /\ Success(r)
  /\ UNCHANGED <<vars, conf, want, sent, probes>>

\* How the GET of a probe ends: an answer below 500, another answer, an
\* httpx.RequestError, another exception (httpx.InvalidURL of a mistyped setting).
ProbeEnds == {"fine", "bad", "dead", "raised"}

\* Mutants of Fails: the fallback is asked only if there was no answer at all; it is
\* asked until it is fine.
FailsBadAtOnce(r, o) ==
  \/ o = "dead" /\ stage[r] = "primary" /\ conf.probes = 2 /\ Waits(r, "fallback")
  \/ o \in {"bad", "dead"} /\ (o = "bad" \/ stage[r] = "fallback" \/ conf.probes < 2)
       /\ Error(r, 503, "http_error")

FailsAgain(r, o) ==
  \/ o \in {"bad", "dead"} /\ conf.probes = 2 /\ Waits(r, "fallback")
  \/ o \in {"bad", "dead"} /\ conf.probes < 2 /\ Error(r, 503, "http_error")

\* After the primary URL its fallback is asked, if there is one; after both, 503.
Fails(r, o) ==
  \/ o \in {"bad", "dead"} /\ stage[r] = "primary" /\ conf.probes = 2 /\ Waits(r, "fallback")
  \/ o \in {"bad", "dead"} /\ (stage[r] = "fallback" \/ conf.probes < 2)
       /\ Error(r, 503, "http_error")

\* _ready_probe_chain, from the end of a probe on.
Probed(r, o) ==
  /\ stage[r] \in {"primary", "fallback"}
  /\ probes' = [probes EXCEPT ![r] = Append(@, o)]
  /\ \/ o = "fine" /\ Success(r)
     \/ o = "raised" /\ Unexpected(r)
     \/ Fails(r, o)
  /\ UNCHANGED <<vars, conf, want, sent>>

\* Mutant of Serve: the app drops a request as soon as its client has gone.
ServeListening(r) ==
  heard[r] = Nothing /\ (Enter(r) \/ LookupDone(r) \/ \E o \in ProbeEnds : Probed(r, o))

Serve(r) == Enter(r) \/ LookupDone(r) \/ \E o \in ProbeEnds : Probed(r, o)

-----------------------------------------------------------------------------
(***************************************************************************)
(* Outside of the app.                                                     *)
(***************************************************************************)
Listening(r) == stage[r] # "unsent" /\ heard[r] = Nothing

\* Requests are sent in the order of their numbers, by client.py one at a time.
Send(r) ==
  /\ stage[r] = "unsent"
  /\ \A q \in 1..(r - 1) : From[q] = From[r] => stage[q] # "unsent"
  /\ From[r] \in Once \cup Menu => \A q \in Requests : From[q] = From[r] => ~Listening(q)
  /\ \E a \in Asks(From[r]) :
       /\ want' = [want EXCEPT ![r] = a]
       /\ Arrive(r, a)
  /\ sent' = [sent EXCEPT ![r] = clock]
  /\ UNCHANGED conf

Abandon(r, status) ==
  /\ heard' = [heard EXCEPT ![r] = status]
  /\ UNCHANGED <<vars, conf, stage, want, sent, probes, answer>>

\* client.py with --isrc or --upc has a timeout and exits with 2.  The menu passes
\* timeout=None to client.get, and that is no timeout at all.
GiveUp(r) ==
  /\ Listening(r) /\ From[r] \in Once
  /\ clock - sent[r] >= Patience
  /\ Abandon(r, GaveUp)

\* nginx answers 504; the app is not told, and works on.
ProxyGivesUp(r) ==
  /\ Listening(r) /\ HostOf[From[r]] = Proxy
  /\ clock - sent[r] >= ProxyPatience
  /\ Abandon(r, 504)

TimePasses == Tick /\ UNCHANGED edge

EdgeNext ==
  \/ TimePasses
  \/ \E r \in Requests : Send(r) \/ Serve(r) \/ GiveUp(r) \/ ProxyGivesUp(r)

(***************************************************************************)
(* The event loop comes to every task that can run; a lookup ends          *)
(* (LookupService), and so does a probe: its GET has a timeout of 3 s.     *)
(***************************************************************************)
EdgeSpec == EdgeInit /\ [][EdgeNext]_edgeVars /\ \A r \in Requests : WF_edgeVars(Serve(r))

-----------------------------------------------------------------------------
EdgeTypeOK ==
  /\ TypeOK
  /\ conf \in Confs
  /\ stage \in [Requests -> Stages]
  /\ want \in [Requests -> [path : Paths, code : Codes \cup {NoCode}]]
  /\ sent \in [Requests -> 0..MaxTime]
  /\ probes \in [Requests -> Seq(ProbeEnds)]
  /\ \A r \in Requests : Len(probes[r]) <= 2
  /\ answer \in [Requests -> Answer]
  /\ heard \in [Requests -> Statuses \cup {GaveUp}]

\* Requests that went past the limiter to a route that is limited.
LetPast == {r \in Requests :
              /\ stage[r] # "unsent" /\ Counted(want[r]) /\ answer[r].status # 429
              /\ ~(conf.cors /\ want[r].path = "preflight")}

\* What the limit means for the service behind it: of the requests of one host that
\* reach a limited route, refused by validation or not, never more than Limit lie
\* within a window; and readiness and the documentation are never refused for it
\* (rate_limit.py:45-60, main.py:97-105).
LimitWhereDue ==
  /\ \A r \in Requests : answer[r].status = 429 => want[r].path \notin Unlimited
  /\ \A S \in SUBSET LetPast :
       Cardinality(S) = Limit + 1 /\ Cardinality({HostOf[From[r]] : r \in S}) = 1 =>
         \E q, r \in S : sent[r] - sent[q] > Window

\* A barcode of twelve or thirteen digits that providers are asked for is genuine, and
\* no slip of a finger: none that differs from it in one digit is served too
\* (lookup.py:101-104, validation.py:34-50).
BarcodesGenuine ==
  \A r \in Requests :
    LET d == Values(want[r].code.upc)
    IN  stage[r] = "looking" /\ want[r].code.kind = "upc" /\ Len(d) # 8 =>
          Genuine(d) /\ \A e \in Mistyped(d) : ~ValidUpc(e)

\* The README's words: "UPC-A / EAN-8 / EAN-13 with check digit validation"
\* (README.md:18).  An EAN-8 that providers are asked for has the right check digit.
Ean8Checked ==
  \A r \in Requests :
    LET d == Values(want[r].code.upc)
    IN  stage[r] = "looking" /\ want[r].code.kind = "upc" /\ Len(d) = 8 => Genuine(d)

\* /ready is honest: it says ready only if nothing is to be probed or the latest
\* probe was answered, and not ready only after every configured URL has failed
\* (health.py:31-57).
ReadyHonest ==
  \A r \in Requests :
    stage[r] = "over" /\ want[r].path = "ready" =>
      LET n == Len(probes[r])
      IN  /\ answer[r].status \in {200, 500, 503}
          /\ answer[r].status = 200 => IF n = 0 THEN conf.probes = 0 ELSE probes[r][n] = "fine"
          /\ answer[r].status = 503 =>
               n = conf.probes /\ \A i \in 1..n : probes[r][i] \in {"bad", "dead"}
          /\ answer[r].status = 500 => n > 0 /\ probes[r][n] = "raised"

\* The README's words: "Every response should include header X-Request-ID (from
\* middleware)" (README.md:184).
EveryAnswerHasId == \A r \in Requests : stage[r] = "over" => answer[r].header = r

\* What a page of another origin is told it can read, a 429 too: it is the app's
\* answer with the headers of CORS.  Two statuses are no part of this: the 500 of an
\* unexpected error and the 504 of nginx, both made outside of the layer of CORS
\* (main.py:106-114, nginx/http-only.conf:25-29).
ReadableInBrowser ==
  \A r \in Requests :
    conf.cors /\ HasOrigin(r) /\ heard[r] \notin {Nothing, 500, 504} =>
      stage[r] = "over" /\ heard[r] = answer[r].status /\ answer[r].cors

\* Every request comes to an end in the app, also when nobody listens any more, and
\* its client hears something: all that ends the wait of a menu that has no timeout.
EveryRequestAnswered ==
  \A r \in Requests : stage[r] # "unsent" ~> stage[r] = "over" /\ heard[r] # Nothing

=============================================================================
