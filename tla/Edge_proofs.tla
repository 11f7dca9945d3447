----------------------------- MODULE Edge_proofs -----------------------------
(***************************************************************************)
(* Proofs about Edge, for any clients, texts, settings and number of       *)
(* requests.  First, the app's limiter is RateLimiter, so what is proved   *)
(* there holds here.  Then, what a request's stage says of its probes and  *)
(* its answer (Fine): every action changes one request only, and that one  *)
(* stays fine.  Then the limit, told of requests instead of log entries,   *)
(* and last how far a request is from its end.                             *)
(***************************************************************************)
EXTENDS Edge, RateLimiter_proofs, Validation_proofs, FiniteSetTheorems, WellFoundedInduction

-----------------------------------------------------------------------------
(***************************************************************************)
(* The limiter.                                                            *)
(***************************************************************************)
\* The host part of a request's way in is a step of the limiter, or none.
LEMMA MeteredIsStep ==
  ASSUME NEW r \in Requests, NEW a, Metered(r, a)
  PROVE  [Next]_vars
<1>1. From[r] \in Clients
  BY EdgeAssumption
<1>2. CASE ~conf.limited /\ UNCHANGED vars
  BY <1>2
<1>3. CASE Exempt(From[r])
  BY <1>1, <1>3 DEF Next
<1>4. CASE Limited(From[r])
  BY <1>1, <1>4 DEF Next
<1>5. QED
  BY <1>2, <1>3, <1>4 DEF Metered

\* Every step of the edge is a step of the limiter, or leaves it alone.
LEMMA EdgeStepIsStep == [EdgeNext]_edgeVars => [Next]_vars
<1> SUFFICES ASSUME [EdgeNext]_edgeVars PROVE [Next]_vars
  OBVIOUS
<1>1. CASE UNCHANGED edgeVars
  BY <1>1 DEF edgeVars
<1>2. CASE TimePasses
  BY <1>2 DEF TimePasses, Next
<1>3. ASSUME NEW r \in Requests, Send(r)
      PROVE  [Next]_vars
  <2>1. PICK a : Arrive(r, a)
    BY <1>3 DEF Send
  <2>2. CASE Preflight(r, a)
    BY <2>2 DEF Preflight
  <2>3. CASE Metered(r, a)
    BY <2>3, MeteredIsStep
  <2>4. QED
    BY <2>1, <2>2, <2>3 DEF Arrive
<1>4. ASSUME NEW r \in Requests, Serve(r)
      PROVE  [Next]_vars
  BY <1>4 DEF Serve, Enter, LookupDone, Probed
<1>5. ASSUME NEW r \in Requests, GiveUp(r) \/ ProxyGivesUp(r)
      PROVE  [Next]_vars
  BY <1>5 DEF GiveUp, ProxyGivesUp, Abandon
<1>6. QED
  BY <1>1, <1>2, <1>3, <1>4, <1>5 DEF EdgeNext

\* So what is proved of RateLimiter holds of the app's limiter (main.py:98-105).
LEMMA LimiterInEdge == EdgeSpec => Spec
<1>1. EdgeInit => Init
  BY DEF EdgeInit
<1>2. QED
  BY <1>1, EdgeStepIsStep, PTL DEF EdgeSpec, Spec

\* So the window promise holds in the app (rate_limit.py:19-28).
THEOREM WindowInEdge == EdgeSpec => []WindowRespected
BY LimiterInEdge, WindowAlwaysRespected, PTL

\* And no request is answered 429 without need (rate_limit.py:25-26).
THEOREM RefusalsInEdge == EdgeSpec => []RefusedOnlyWhenFull
BY LimiterInEdge, RefusalsJustified, PTL

\* And the limit is exact in the app too (rate_limit.py:19-28).
THEOREM LimitExactInEdge == EdgeSpec => ImplementsContract
BY LimiterInEdge, LimitExact, PTL

-----------------------------------------------------------------------------
(***************************************************************************)
(* Codes and layers.                                                       *)
(***************************************************************************)
\* What a UPC is made into: a refusal, or digits whose values are those of an accepted
\* code, trimmed.
LEMMA UpcCodes ==
  ASSUME NEW c \in Clients, NEW t \in Texts[c].upc, NEW x, x = Validated("upc", t),
         x \notin Refusals
  PROVE  \E d \in Seq(Digit) : ValidUpc(d) /\ Values(x.upc) = Trimmed(d)
<1> DEFINE s == NormalizeUpc(t)
           d == Values(s)
           u == IF Indicated(d) THEN Tail(s) ELSE s
<1>1. s \in Seq({"digit", "foreign digit"} \X Digit)
  BY TextsAssumption
<1>2. Validated("upc", t) = IF Len(t) > MaxLength["upc"] THEN Refused("validation_error")
                            ELSE IF ~ValidUpc(d) THEN Refused("http_error")
                            ELSE UpcCode(u)
  BY Zenon DEF Validated
<1> HIDE DEF s
<1>3. d \in Seq(Digit) /\ Values(u) = Trimmed(d)
  BY <1>1, ValuesOfCode
<1> HIDE DEF d, u
<1>4. ValidUpc(d) /\ x = UpcCode(u)
  BY <1>2 DEF Refusals
<1>5. x.upc = u
  BY <1>4 DEF UpcCode
<1>6. QED
  BY <1>3, <1>4, <1>5

\* An ISRC is refused or made into an ISRC.
LEMMA IsrcCodes ==
  ASSUME NEW t, Validated("isrc", t) \notin Refusals
  PROVE  \E s : Validated("isrc", t) = IsrcCode(s)
<1> DEFINE s == NormalizeIsrc(t)
<1>1. Validated("isrc", t) = IF Len(t) > MaxLength["isrc"] THEN Refused("validation_error")
                             ELSE IF ValidIsrc(s) THEN IsrcCode(s)
                             ELSE Refused("http_error")
  BY Zenon DEF Validated
<1> HIDE DEF s
<1>2. QED
  BY <1>1 DEF Refusals

\* A barcode that is not refused and has not eight digits is genuine, and none beside it
\* is accepted.
LEMMA AcceptedCodes ==
  ASSUME NEW x \in Codes \ Refusals, x.kind = "upc", Len(Values(x.upc)) # 8
  PROVE  /\ Genuine(Values(x.upc))
         /\ \A e \in Mistyped(Values(x.upc)) : ~ValidUpc(e)
<1>1. PICK c \in Clients : x \in {Validated("isrc", t) : t \in Texts[c].isrc}
                                   \cup {Validated("upc", t) : t \in Texts[c].upc}
  BY DEF Codes, CodesOf
<1>2. \A t \in Texts[c].isrc : x # Validated("isrc", t)
  BY IsrcCodes DEF IsrcCode
<1>3. PICK t \in Texts[c].upc : x = Validated("upc", t)
  BY <1>1, <1>2
<1>4. PICK d \in Seq(Digit) : ValidUpc(d) /\ Values(x.upc) = Trimmed(d)
  BY <1>3, UpcCodes
<1>5. /\ Trimmed(d) \in Seq(Digit) /\ Len(Trimmed(d)) \in {8, 12, 13}
      /\ ValidUpc(Trimmed(d))
  BY <1>4, TrimmedCode, ValidationIdempotent
<1>6. Len(Trimmed(d)) \in {12, 13}
  BY <1>4, <1>5
<1>7. Genuine(Trimmed(d)) /\ \A e \in Mistyped(Trimmed(d)) : ~ValidUpc(e)
  BY <1>5, <1>6, AcceptedIsGenuine, TypoRefused
<1>8. QED
  BY <1>4, <1>7

\* What lies outside of the layers that answer (main.py:97-114).
LEMMA Layers ==
  "cors" \in Outside["handlers"] /\ "cors" \in Outside["limit"]
<1>1. /\ DOMAIN Stack = 1..5
      /\ Stack[1] = "errors" /\ Stack[2] = "cors" /\ Stack[3] = "limit"
      /\ Stack[4] = "id" /\ Stack[5] = "handlers"
  BY DEF Stack
<1>2. "handlers" \in Range(Stack) /\ "limit" \in Range(Stack)
  BY <1>1 DEF Range
<1>3. ASSUME NEW l \in Range(Stack), NEW x
      PROVE  x \in Outside[l] <=> \E i \in 1..5 : /\ Stack[i] = x
                                                  /\ \E k \in 1..5 : i < k /\ Stack[k] = l
  <2>1. Outside[l] = {Stack[i] : i \in {j \in 1..5 : \E k \in 1..5 : j < k /\ Stack[k] = l}}
    BY <1>1 DEF Outside
  <2>2. QED
    BY <2>1
<1>4. QED
  BY <1>1, <1>2, <1>3

-----------------------------------------------------------------------------
(***************************************************************************)
(* One request.                                                            *)
(***************************************************************************)
Heard == Statuses \cup {GaveUp}
Wants == [path : Paths, code : Codes \cup {NoCode}]

\* Under settings k, the answer x to request r for w, after the probes p, was earned:
\* what ReadyHonest and ReadableInBrowser ask for.
Honest(k, w, p, x) ==
  w.path = "ready" =>
    /\ x.status \in {200, 500, 503}
    /\ x.status = 200 => IF Len(p) = 0 THEN k.probes = 0 ELSE p[Len(p)] = "fine"
    /\ x.status = 503 => Len(p) = k.probes /\ \A i \in 1..Len(p) : p[i] \in {"bad", "dead"}
    /\ x.status = 500 => Len(p) > 0 /\ p[Len(p)] = "raised"

Answered(k, r, w, p, x) ==
  /\ Honest(k, w, p, x)
  /\ k.cors /\ HasOrigin(r) => x.cors \/ x.status = 500

\* What stage st of request r for w says of its probes p and its answer x.
Fine(k, r, st, w, p, x) ==
  /\ Len(p) <= 2
  /\ st \in {"unsent", "inside", "looking", "primary"} => p = <<>>
  /\ st = "inside" /\ w.path = "lookup" => w.code \in Codes
  /\ st = "looking" => w.path = "lookup" /\ w.code \in Codes \ Refusals
  /\ st \in {"primary", "fallback"} => w.path = "ready"
  /\ st = "primary" => k.probes \in {1, 2}
  /\ st = "fallback" => k.probes = 2 /\ Len(p) = 1 /\ p[1] \in {"bad", "dead"}
  /\ st = "over" => Answered(k, r, w, p, x)

EdgeTyped ==
  /\ conf \in Confs
  /\ stage \in [Requests -> Stages]
  /\ want \in [Requests -> Wants]
  /\ sent \in [Requests -> 0..MaxTime]
  /\ probes \in [Requests -> Seq(ProbeEnds)]
  /\ answer \in [Requests -> Answer]
  /\ heard \in [Requests -> Heard]

AllFine ==
  /\ EdgeTyped
  /\ \A r \in Requests : Fine(conf, r, stage[r], want[r], probes[r], answer[r])

\* A step that changes request r only, and leaves it fine.
LEMMA OneChanges ==
  ASSUME AllFine, conf' = conf,
         NEW r \in Requests, NEW st \in Stages, NEW w \in Wants, NEW n \in 0..MaxTime,
         NEW p \in Seq(ProbeEnds), NEW x \in Answer, NEW h \in Heard,
         stage' = [stage EXCEPT ![r] = st], want' = [want EXCEPT ![r] = w],
         sent' = [sent EXCEPT ![r] = n], probes' = [probes EXCEPT ![r] = p],
         answer' = [answer EXCEPT ![r] = x], heard' = [heard EXCEPT ![r] = h],
         Fine(conf, r, st, w, p, x)
  PROVE  AllFine'
<1>1. EdgeTyped'
  BY DEF AllFine, EdgeTyped
<1>2. ASSUME NEW q \in Requests
      PROVE  Fine(conf', q, stage'[q], want'[q], probes'[q], answer'[q])
  <2>1. CASE q = r
    <3>1. /\ stage'[q] = st /\ want'[q] = w /\ probes'[q] = p /\ answer'[q] = x
      BY <2>1 DEF AllFine, EdgeTyped
    <3>2. QED
      BY <2>1, <3>1
  <2>2. CASE q # r
    <3>1. /\ stage'[q] = stage[q] /\ want'[q] = want[q]
          /\ probes'[q] = probes[q] /\ answer'[q] = answer[q]
      BY <2>2 DEF AllFine, EdgeTyped
    <3>2. Fine(conf, q, stage[q], want[q], probes[q], answer[q])
      BY DEF AllFine
    <3>3. QED
      BY <3>1, <3>2
  <2>3. QED
    BY <2>1, <2>2
<1>3. QED
  BY <1>1, <1>2 DEF AllFine

\* Answers the layers make have their type.
LEMMA MadeAnswer ==
  ASSUME EdgeTyped, NEW r \in Requests, NEW layer, NEW status \in Statuses, NEW type \in Types,
         NEW body \in {NoId, r}
  PROVE  LET x == Made(layer, r, status, type, body)
         IN  x \in Answer /\ x.status = status
<1> DEFINE c == conf.cors /\ HasOrigin(r) /\ "cors" \in Outside[layer]
<1>1. r \in 0..LastRequest /\ NoId \in 0..LastRequest /\ body \in 0..LastRequest
  BY EdgeAssumption DEF Requests, NoId
<1>2. IdAt(layer, r) \in 0..LastRequest
  BY <1>1 DEF IdAt
<1>3. conf.cors \in BOOLEAN
  BY EdgeAssumption DEF EdgeTyped
<1>4. c \in BOOLEAN
  BY <1>3, Zenon
<1>5. Made(layer, r, status, type, body) =
        [status |-> status, type |-> type, body |-> body, header |-> IdAt(layer, r), cors |-> c]
  BY Zenon DEF Made
<1> HIDE DEF c
<1>6. QED
  BY <1>1, <1>2, <1>4, <1>5 DEF Answer

\* Who may read an answer.
LEMMA MadeReadable ==
  ASSUME NEW r, NEW layer, NEW status, NEW type, NEW body,
         conf.cors, HasOrigin(r), "cors" \in Outside[layer]
  PROVE  Made(layer, r, status, type, body).cors
BY DEF Made

\* A request that ends in an answer that was earned.
LEMMA ReplyKeeps ==
  ASSUME AllFine, conf' = conf,
         NEW r \in Requests, NEW w \in Wants, NEW n \in 0..MaxTime,
         NEW p \in Seq(ProbeEnds), NEW x \in Answer,
         want' = [want EXCEPT ![r] = w], sent' = [sent EXCEPT ![r] = n],
         probes' = [probes EXCEPT ![r] = p],
         Reply(r, x), Len(p) <= 2, Answered(conf, r, w, p, x)
  PROVE  AllFine'
<1> DEFINE h == IF heard[r] = Nothing THEN x.status ELSE heard[r]
<1>1. x.status \in Heard
  BY DEF Answer, Heard
<1>2. h \in Heard
  BY <1>1 DEF AllFine, EdgeTyped
<1>3. /\ stage' = [stage EXCEPT ![r] = "over"]
      /\ answer' = [answer EXCEPT ![r] = x]
      /\ heard' = [heard EXCEPT ![r] = h]
  BY DEF Reply
<1>4. Fine(conf, r, "over", w, p, x) /\ "over" \in Stages
  BY DEF Fine, Stages
<1> HIDE DEF h
<1>5. QED
  BY <1>2, <1>3, <1>4, OneChanges

-----------------------------------------------------------------------------
(***************************************************************************)
(* The actions.                                                            *)
(***************************************************************************)
\* What is asked for has its type; only lookups have a code.
LEMMA AsksTyped ==
  ASSUME NEW c \in Clients, NEW a \in Asks(c)
  PROVE  a \in Wants /\ (a.path = "lookup" => a.code \in Codes)
<1>1. CASE a \in [path : {"lookup"}, code : CodesOf[c]]
  <2>1. a.code \in Codes
    BY <1>1 DEF Codes
  <2>2. QED
    BY <1>1, <2>1 DEF Wants, Paths
<1>2. CASE a \in {Plain(p) : p \in Visits[c]}
  <2>1. PICK p \in Visits[c] : a = Plain(p)
    BY <1>2
  <2>2. p \in Paths \ {"lookup"}
    BY EdgeAssumption
  <2>3. QED
    BY <2>1, <2>2 DEF Plain, Wants
<1>3. QED
  BY <1>1, <1>2 DEF Asks

\* The id at a layer is that of the request or none.
LEMMA IdOfRequest ==
  ASSUME NEW r, NEW layer
  PROVE  IdAt(layer, r) \in {NoId, r}
BY DEF IdAt

\* An answer of the routes and their handlers.
LEMMA RouteAnswer ==
  ASSUME EdgeTyped, NEW r \in Requests, NEW status \in Statuses, NEW type \in Types,
         NEW body \in {NoId, r}
  PROVE  LET x == Made("handlers", r, status, type, body)
         IN  /\ x \in Answer /\ x.status = status
             /\ conf.cors /\ HasOrigin(r) => x.cors
BY MadeAnswer, Layers, MadeReadable

\* Request r for a is on its way in.
Arriving(r, a) ==
  /\ AllFine /\ clock \in 0..MaxTime /\ conf' = conf
  /\ r \in Requests /\ stage[r] = "unsent"
  /\ a \in Wants /\ (a.path = "lookup" => a.code \in Codes)
  /\ want' = [want EXCEPT ![r] = a] /\ sent' = [sent EXCEPT ![r] = clock]

\* It is let in, or is answered.
LEMMA ArrivesWaiting ==
  ASSUME NEW r, NEW a, Arriving(r, a), probes' = probes, Waits(r, "inside")
  PROVE  AllFine'
<1> DEFINE p == probes[r]
           x == answer[r]
           h == heard[r]
           n == clock
<1>0. /\ AllFine /\ conf' = conf /\ r \in Requests /\ stage[r] = "unsent"
      /\ a \in Wants /\ n \in 0..MaxTime /\ (a.path = "lookup" => a.code \in Codes)
      /\ want' = [want EXCEPT ![r] = a] /\ sent' = [sent EXCEPT ![r] = n]
  BY DEF Arriving
<1>1. p = <<>> /\ p \in Seq(ProbeEnds) /\ x \in Answer /\ h \in Heard
  BY <1>0 DEF AllFine, EdgeTyped, Fine
<1>2. /\ probes' = [probes EXCEPT ![r] = p]
      /\ stage' = [stage EXCEPT ![r] = "inside"]
      /\ answer' = [answer EXCEPT ![r] = x]
      /\ heard' = [heard EXCEPT ![r] = h]
  BY <1>0 DEF AllFine, EdgeTyped, Waits
<1> HIDE DEF p, x, h, n
<1>3. "inside" \in Stages
  BY DEF Stages
<1>4. Len(p) <= 2
  BY <1>1, EmptySeq
<1>5. Fine(conf, r, "inside", a, p, x)
  BY <1>0, <1>1, <1>4 DEF Fine
<1>6. QED
  BY <1>0, <1>1, <1>2, <1>3, <1>5, OneChanges

LEMMA ArrivesAnswered ==
  ASSUME NEW r, NEW a, Arriving(r, a), probes' = probes, NEW x \in Answer, Reply(r, x),
         Answered(conf, r, a, <<>>, x)
  PROVE  AllFine'
<1> DEFINE n == clock
<1>0. /\ AllFine /\ conf' = conf /\ r \in Requests /\ stage[r] = "unsent"
      /\ a \in Wants /\ n \in 0..MaxTime
      /\ want' = [want EXCEPT ![r] = a] /\ sent' = [sent EXCEPT ![r] = n]
  BY DEF Arriving
<1> HIDE DEF n
<1>1. /\ probes' = [probes EXCEPT ![r] = <<>>]
      /\ <<>> \in Seq(ProbeEnds)
  BY <1>0, EmptySeq DEF AllFine, EdgeTyped, Fine
<1>2. Len(<<>>) <= 2
  BY EmptySeq
<1>3. QED
  BY <1>0, <1>1, <1>2, ReplyKeeps

\* An answer to a request for anything but readiness, and one that is ready at once.
LEMMA AnsweredAtOnce ==
  ASSUME NEW k, NEW r, NEW a, NEW x,
         a.path = "ready" => x.status = 200 /\ k.probes = 0,
         k.cors /\ HasOrigin(r) => x.cors
  PROVE  Answered(k, r, a, <<>>, x)
<1>1. Len(<<>>) = 0
  BY EmptySeq
<1>2. Honest(k, a, <<>>, x)
  BY <1>1 DEF Honest
<1>3. QED
  BY <1>2, Zenon DEF Answered

\* The statuses the app answers with are statuses.
LEMMA StatusesKnown ==
  /\ 200 \in Statuses /\ 307 \in Statuses /\ 404 \in Statuses /\ 405 \in Statuses /\ 422 \in Statuses
  /\ 429 \in Statuses /\ 500 \in Statuses /\ 503 \in Statuses
BY SMT DEF Statuses

\* CORS answers a preflight.
LEMMA PreflightKeeps ==
  ASSUME NEW r, NEW a, Arriving(r, a), Preflight(r, a)
  PROVE  AllFine'
<1> DEFINE y == Made("cors", r, 200, "ok", NoId)
           x == [y EXCEPT !.cors = TRUE]
<1>1. /\ EdgeTyped /\ r \in Requests /\ 200 \in Statuses /\ "ok" \in Types /\ NoId \in {NoId, r}
  BY StatusesKnown DEF AllFine, Types, Arriving
<1>2. y \in Answer /\ y.status = 200
  BY <1>1, MadeAnswer
<1> HIDE DEF y
<1>3. x \in Answer /\ x.status = 200 /\ x.cors
  BY <1>2 DEF Answer
<1>4. a.path = "preflight" /\ probes' = probes /\ Reply(r, x)
  BY DEF Preflight, y
<1> HIDE DEF x
<1>5. Answered(conf, r, a, <<>>, x)
  BY <1>3, <1>4, AnsweredAtOnce
<1>6. QED
  BY <1>3, <1>4, <1>5, ArrivesAnswered

\* The limiter refuses.
LEMMA TooManyKeeps ==
  ASSUME NEW r, NEW a, Arriving(r, a), Counted(a), TooMany(r), probes' = probes
  PROVE  AllFine'
<1> DEFINE x == Made("limit", r, 429, "rate_limited", IdAt("limit", r))
<1>1. /\ EdgeTyped /\ r \in Requests /\ 429 \in Statuses /\ "rate_limited" \in Types
      /\ IdAt("limit", r) \in {NoId, r}
  BY StatusesKnown, IdOfRequest DEF AllFine, Types, Arriving
<1>2. x \in Answer /\ x.status = 429
  BY <1>1, MadeAnswer
<1>3. conf.cors /\ HasOrigin(r) => x.cors
  BY Layers, MadeReadable
<1>4. Reply(r, x)
  BY DEF TooMany
<1> HIDE DEF x
<1>5. a.path # "ready"
  BY DEF Counted, Unlimited
<1>6. Answered(conf, r, a, <<>>, x)
  BY <1>3, <1>5, AnsweredAtOnce
<1>7. QED
  BY <1>2, <1>4, <1>6, ArrivesAnswered

LEMMA SendKeeps ==
  ASSUME AllFine, TypeOK, NEW r \in Requests, Send(r)
  PROVE  AllFine'
<1>1. conf' = conf /\ stage[r] = "unsent" /\ sent' = [sent EXCEPT ![r] = clock]
  BY DEF Send
<1>2. PICK a \in Asks(From[r]) : want' = [want EXCEPT ![r] = a] /\ Arrive(r, a)
  BY DEF Send
<1>3. a \in Wants /\ (a.path = "lookup" => a.code \in Codes)
  BY AsksTyped, EdgeAssumption
<1>4. Arriving(r, a)
  BY <1>1, <1>2, <1>3 DEF TypeOK, Arriving
<1>5. CASE Preflight(r, a)
  BY <1>4, <1>5, PreflightKeeps
<1>6. CASE Counted(a) /\ TooMany(r) /\ probes' = probes
  BY <1>4, <1>6, TooManyKeeps
<1>7. CASE Waits(r, "inside") /\ probes' = probes
  BY <1>4, <1>7, ArrivesWaiting
<1>8. QED
  BY <1>2, <1>5, <1>6, <1>7 DEF Arrive

\* Request r is served on, and has had the probes p.
Served(r, p) ==
  /\ AllFine /\ conf' = conf /\ r \in Requests
  /\ want' = want /\ sent' = sent
  /\ p \in Seq(ProbeEnds) /\ Len(p) <= 2 /\ probes' = [probes EXCEPT ![r] = p]

LEMMA ServedAnswered ==
  ASSUME NEW r, NEW p, Served(r, p), NEW x \in Answer, Reply(r, x),
         Answered(conf, r, want[r], p, x)
  PROVE  AllFine'
<1> DEFINE w == want[r]
           n == sent[r]
<1>1. /\ AllFine /\ conf' = conf /\ r \in Requests
      /\ p \in Seq(ProbeEnds) /\ Len(p) <= 2 /\ probes' = [probes EXCEPT ![r] = p]
  BY DEF Served
<1>2. /\ w \in Wants /\ n \in 0..MaxTime
      /\ want' = [want EXCEPT ![r] = w] /\ sent' = [sent EXCEPT ![r] = n]
  BY DEF Served, AllFine, EdgeTyped
<1>3. Answered(conf, r, w, p, x)
  OBVIOUS
<1> HIDE DEF w, n
<1>4. QED
  BY <1>1, <1>2, <1>3, ReplyKeeps

LEMMA ServedWaiting ==
  ASSUME NEW r, NEW p, Served(r, p), NEW st \in Stages, Waits(r, st),
         Fine(conf, r, st, want[r], p, answer[r])
  PROVE  AllFine'
<1> DEFINE w == want[r]
           n == sent[r]
           x == answer[r]
           h == heard[r]
<1>1. /\ AllFine /\ conf' = conf /\ r \in Requests
      /\ p \in Seq(ProbeEnds) /\ probes' = [probes EXCEPT ![r] = p]
  BY DEF Served
<1>2. w \in Wants /\ n \in 0..MaxTime /\ x \in Answer /\ h \in Heard
  BY <1>1 DEF AllFine, EdgeTyped
<1>3. /\ stage' = [stage EXCEPT ![r] = st]
      /\ want' = [want EXCEPT ![r] = w] /\ sent' = [sent EXCEPT ![r] = n]
      /\ answer' = [answer EXCEPT ![r] = x] /\ heard' = [heard EXCEPT ![r] = h]
  BY <1>1 DEF AllFine, EdgeTyped, Waits, Served
<1>4. Fine(conf, r, st, w, p, x)
  OBVIOUS
<1> HIDE DEF w, n, x, h
<1>5. QED
  BY <1>1, <1>2, <1>3, <1>4, OneChanges

\* Request r has come to its route, unprobed.
Entered(r) ==
  /\ Served(r, <<>>) /\ stage[r] = "inside"
  /\ want[r].path = "lookup" => want[r].code \in Codes

\* The result of a route that is not probed, or not yet.
LEMMA RouteSucceeds ==
  ASSUME NEW r, Entered(r), NEW status \in Statuses, NEW type \in Types, NEW body \in {NoId, r},
         want[r].path = "ready" => status = 200 /\ conf.probes = 0,
         Reply(r, Made("handlers", r, status, type, body))
  PROVE  AllFine'
<1> DEFINE x == Made("handlers", r, status, type, body)
<1>1. EdgeTyped /\ r \in Requests
  BY DEF AllFine, Entered, Served
<1>2. /\ x \in Answer /\ x.status = status
      /\ conf.cors /\ HasOrigin(r) => x.cors
  BY <1>1, RouteAnswer
<1> HIDE DEF x
<1>3. Answered(conf, r, want[r], <<>>, x)
  BY <1>2, AnsweredAtOnce
<1>4. Reply(r, x)
  BY DEF x
<1>5. QED
  BY <1>2, <1>3, <1>4, ServedAnswered DEF Entered

\* The route answers, or waits for the service or its first probe.
LEMMA RouteKeeps ==
  ASSUME NEW r, Entered(r), Route(r, want[r])
  PROVE  AllFine'
<1> DEFINE a == want[r]
<1>1. "looking" \in Stages /\ "primary" \in Stages
  BY DEF Stages
<1>2. /\ "ok" \in Types /\ "default" \in Types /\ "redirect" \in Types
      /\ "http_error" \in Types /\ "validation_error" \in Types
  BY DEF Types
<1>3. NoId \in {NoId, r} /\ IdAt("handlers", r) \in {NoId, r} /\ Len(<<>>) <= 2
  BY IdOfRequest, EmptySeq
<1>4. CASE a.path = "plain" /\ Success(r)
  BY <1>2, <1>3, <1>4, StatusesKnown, RouteSucceeds DEF Success
<1>5. CASE a.path \in {"unknown", "preflight", "docs*"} /\ NoRoute(r)
  <2>1. PICK status \in {404, 405} : Reply(r, Made("handlers", r, status, "default", NoId))
    BY <1>5 DEF NoRoute
  <2>2. a.path # "ready" /\ status \in Statuses
    BY <1>5, StatusesKnown
  <2>3. QED
    BY <1>2, <1>3, <2>1, <2>2, RouteSucceeds
<1>6. CASE a.path \in {"ready/", "docs*"} /\ Redirect(r)
  <2>1. a.path # "ready"
    BY <1>6
  <2>2. QED
    BY <1>2, <1>3, <1>6, <2>1, StatusesKnown, RouteSucceeds DEF Redirect
<1>7. CASE Lookup(r, a)
  <2>1. a.path = "lookup" /\ a.path # "ready"
    BY <1>7 DEF Lookup
  <2>2. CASE a.code \in Refusals /\ Error(r, 422, a.code.kind)
    <3>1. a.code.kind \in Types
      BY <1>2, <2>2 DEF Refusals, Refused
    <3>2. QED
      BY <1>3, <2>1, <2>2, <3>1, StatusesKnown, RouteSucceeds DEF Error
  <2>3. CASE a.code \notin Refusals /\ Waits(r, "looking")
    <3>1. a.code \in Codes \ Refusals
      BY <2>1, <2>3 DEF Entered
    <3>2. Fine(conf, r, "looking", a, <<>>, answer[r])
      BY <1>3, <2>1, <3>1 DEF Fine
    <3>3. QED
      BY <1>1, <2>3, <3>2, ServedWaiting DEF Entered
  <2>4. QED
    BY <1>7, <2>2, <2>3 DEF Lookup
<1>8. CASE Ready(r, a)
  <2>1. a.path = "ready"
    BY <1>8 DEF Ready
  <2>2. CASE conf.probes = 0 /\ Success(r)
    BY <1>2, <1>3, <2>2, StatusesKnown, RouteSucceeds DEF Success
  <2>3. CASE conf.probes > 0 /\ Waits(r, "primary")
    <3>1. conf.probes \in 0..2
      BY EdgeAssumption DEF AllFine, EdgeTyped, Entered, Served
    <3>2. conf.probes \in {1, 2}
      BY <2>3, <3>1
    <3>3. Fine(conf, r, "primary", a, <<>>, answer[r])
      BY <1>3, <2>1, <3>2 DEF Fine
    <3>4. QED
      BY <1>1, <2>3, <3>3, ServedWaiting DEF Entered
  <2>4. QED
    BY <1>8, <2>2, <2>3 DEF Ready
<1>9. QED
  BY <1>4, <1>5, <1>6, <1>7, <1>8 DEF Route

LEMMA EnterKeeps ==
  ASSUME AllFine, NEW r \in Requests, Enter(r)
  PROVE  AllFine'
<1>1. /\ stage[r] = "inside" /\ Route(r, want[r])
      /\ UNCHANGED <<vars, conf, want, sent, probes>>
  BY DEF Enter
<1>2. /\ probes \in [Requests -> Seq(ProbeEnds)] /\ probes[r] = <<>>
      /\ want[r].path = "lookup" => want[r].code \in Codes
  BY <1>1 DEF AllFine, EdgeTyped, Fine
<1>3. /\ <<>> \in Seq(ProbeEnds) /\ Len(<<>>) <= 2
      /\ probes' = [probes EXCEPT ![r] = <<>>]
  BY <1>1, <1>2, EmptySeq
<1>4. Entered(r)
  BY <1>1, <1>2, <1>3 DEF Entered, Served
<1>5. QED
  BY <1>1, <1>4, RouteKeeps

\* The service is through.
LEMMA LookupDoneKeeps ==
  ASSUME AllFine, NEW r \in Requests, LookupDone(r)
  PROVE  AllFine'
<1> DEFINE x == Made("handlers", r, 200, "ok", NoId)
           p == probes[r]
<1>1. stage[r] = "looking" /\ Reply(r, x)
  BY DEF LookupDone, Success
<1>2. p \in Seq(ProbeEnds) /\ p = <<>> /\ want[r].path = "lookup"
  BY <1>1 DEF AllFine, EdgeTyped, Fine
<1>3. probes' = [probes EXCEPT ![r] = p]
  BY DEF LookupDone, AllFine, EdgeTyped
<1> HIDE DEF p
<1>4. Len(p) <= 2
  BY <1>2, EmptySeq
<1>5. Served(r, p)
  BY <1>2, <1>3, <1>4 DEF Served, LookupDone
<1>6. EdgeTyped /\ 200 \in Statuses /\ "ok" \in Types /\ NoId \in {NoId, r}
  BY StatusesKnown DEF AllFine, Types
<1>7. /\ x \in Answer /\ x.status = 200
      /\ conf.cors /\ HasOrigin(r) => x.cors
  BY <1>6, RouteAnswer
<1> HIDE DEF x
<1>8. Answered(conf, r, want[r], p, x)
  BY <1>2, <1>7, AnsweredAtOnce
<1>9. QED
  BY <1>1, <1>5, <1>7, <1>8, ServedAnswered

\* What a request for readiness, after the probes p, is answered.
LEMMA ReadyAnswered ==
  ASSUME NEW k, NEW r, NEW w, NEW p, NEW x, Len(p) > 0,
         \/ x.status = 200 /\ p[Len(p)] = "fine"
         \/ x.status = 503 /\ Len(p) = k.probes /\ \A i \in 1..Len(p) : p[i] \in {"bad", "dead"}
         \/ x.status = 500 /\ p[Len(p)] = "raised",
         k.cors /\ HasOrigin(r) => x.cors \/ x.status = 500
  PROVE  Answered(k, r, w, p, x)
<1>1. Len(p) # 0
  BY EmptySeq
<1>2. x.status \in {200, 500, 503}
  OBVIOUS
<1>3. x.status = 200 => p[Len(p)] = "fine"
  OBVIOUS
<1>4. x.status = 503 => Len(p) = k.probes /\ \A i \in 1..Len(p) : p[i] \in {"bad", "dead"}
  OBVIOUS
<1>5. x.status = 500 => Len(p) > 0 /\ p[Len(p)] = "raised"
  OBVIOUS
<1>6. Honest(k, w, p, x)
  BY <1>1, <1>2, <1>3, <1>4, <1>5 DEF Honest
<1>7. QED
  BY <1>6, Zenon DEF Answered

\* A probe ends: whatever it says, the answer or the next probe is due to it.
LEMMA ProbedKeeps ==
  ASSUME AllFine, NEW r \in Requests, NEW o \in ProbeEnds, Probed(r, o)
  PROVE  AllFine'
<1> DEFINE q == probes[r]
           p == Append(q, o)
<1>1. stage[r] \in {"primary", "fallback"} /\ probes' = [probes EXCEPT ![r] = p]
  BY DEF Probed
<1>2. /\ q \in Seq(ProbeEnds) /\ want[r].path = "ready"
      /\ stage[r] = "primary" => q = <<>> /\ conf.probes \in {1, 2}
      /\ stage[r] = "fallback" => conf.probes = 2 /\ Len(q) = 1 /\ q[1] \in {"bad", "dead"}
  BY <1>1 DEF AllFine, EdgeTyped, Fine
<1> HIDE DEF q
<1>3. Len(q) \in Nat /\ (q = <<>> => Len(q) = 0)
  BY <1>2, LenProperties, EmptySeq
<1>4. /\ p \in Seq(ProbeEnds) /\ Len(p) = Len(q) + 1
      /\ \A i \in 1..Len(q) : p[i] = q[i]
      /\ p[Len(q) + 1] = o
  BY <1>2, AppendProperties
<1> HIDE DEF p
<1>5. /\ Len(p) \in {1, 2} /\ p[Len(p)] = o
      /\ stage[r] = "primary" => Len(p) = 1
      /\ stage[r] = "fallback" => Len(p) = 2 /\ p[1] \in {"bad", "dead"}
  BY <1>1, <1>2, <1>3, <1>4
<1>6. Served(r, p)
  <2>1. conf' = conf /\ want' = want /\ sent' = sent
    BY DEF Probed
  <2>2. Len(p) <= 2
    BY <1>5
  <2>3. QED
    BY <1>1, <1>4, <2>1, <2>2 DEF Served
<1>7. /\ EdgeTyped /\ 200 \in Statuses /\ 500 \in Statuses /\ 503 \in Statuses
      /\ "ok" \in Types /\ "http_error" \in Types /\ "internal_error" \in Types
      /\ NoId \in {NoId, r} /\ r \in {NoId, r} /\ IdAt("handlers", r) \in {NoId, r}
  BY StatusesKnown, IdOfRequest DEF AllFine, Types
<1>8. Len(p) > 0
  BY <1>5
<1>9. CASE o = "fine" /\ Success(r)
  <2> DEFINE x == Made("handlers", r, 200, "ok", NoId)
  <2>1. /\ x \in Answer /\ x.status = 200
        /\ conf.cors /\ HasOrigin(r) => x.cors
    BY <1>7, RouteAnswer
  <2>2. Reply(r, x)
    BY <1>9 DEF Success
  <2> HIDE DEF x
  <2>3. Answered(conf, r, want[r], p, x)
    BY <1>5, <1>8, <1>9, <2>1, ReadyAnswered
  <2>4. QED
    BY <1>6, <2>1, <2>2, <2>3, ServedAnswered
<1>10. CASE o = "raised" /\ Unexpected(r)
  <2> DEFINE x == Made("errors", r, 500, "internal_error", r)
  <2>1. x \in Answer /\ x.status = 500
    BY <1>7, MadeAnswer
  <2>2. Reply(r, x)
    BY <1>10 DEF Unexpected
  <2> HIDE DEF x
  <2>3. Answered(conf, r, want[r], p, x)
    BY <1>5, <1>8, <1>10, <2>1, ReadyAnswered
  <2>4. QED
    BY <1>6, <2>1, <2>2, <2>3, ServedAnswered
<1>11. CASE /\ o \in {"bad", "dead"} /\ stage[r] = "primary" /\ conf.probes = 2
            /\ Waits(r, "fallback")
  <2>1. p[1] \in {"bad", "dead"} /\ Len(p) = 1
    BY <1>5, <1>11
  <2>2. Fine(conf, r, "fallback", want[r], p, answer[r])
    BY <1>2, <1>11, <2>1 DEF Fine
  <2>3. "fallback" \in Stages
    BY DEF Stages
  <2>4. QED
    BY <1>6, <1>11, <2>2, <2>3, ServedWaiting
<1>12. CASE /\ o \in {"bad", "dead"} /\ (stage[r] = "fallback" \/ conf.probes < 2)
            /\ Error(r, 503, "http_error")
  <2> DEFINE x == Made("handlers", r, 503, "http_error", IdAt("handlers", r))
  <2>1. /\ x \in Answer /\ x.status = 503
        /\ conf.cors /\ HasOrigin(r) => x.cors
    BY <1>7, RouteAnswer
  <2>3. Reply(r, x)
    BY <1>12 DEF Error
  <2> HIDE DEF x
  <2>4. Len(p) = conf.probes
    <3>1. CASE stage[r] = "fallback"
      BY <1>2, <1>5, <3>1
    <3>2. CASE stage[r] = "primary"
      BY <1>2, <1>5, <1>12, <3>2
    <3>3. QED
      BY <1>1, <3>1, <3>2
  <2>5. \A i \in 1..Len(p) : p[i] \in {"bad", "dead"}
    BY <1>1, <1>5, <1>12
  <2>6. Answered(conf, r, want[r], p, x)
    BY <1>8, <2>1, <2>4, <2>5, ReadyAnswered
  <2>7. QED
    BY <1>6, <2>1, <2>3, <2>6, ServedAnswered
<1>13. QED
  BY <1>9, <1>10, <1>11, <1>12 DEF Probed, Fails

\* The client, or nginx, stops waiting: the app takes no notice.
LEMMA AbandonKeeps ==
  ASSUME AllFine, NEW r \in Requests, NEW s \in Heard, Abandon(r, s)
  PROVE  AllFine'
<1>1. EdgeTyped'
  BY DEF AllFine, EdgeTyped, Abandon
<1>2. QED
  BY <1>1 DEF AllFine, Abandon

-----------------------------------------------------------------------------
(***************************************************************************)
(* The theorems.                                                           *)
(***************************************************************************)
LEMMA InitFine == EdgeInit => AllFine
<1> SUFFICES ASSUME EdgeInit PROVE AllFine
  OBVIOUS
<1>1. LastRequest \in Nat
  BY EdgeAssumption
<1>2. NoAnswer \in Answer
  <2>1. 0 \in Statuses /\ "none" \in Types /\ NoId \in 0..LastRequest
    BY <1>1, SMT DEF Statuses, Types, NoId
  <2>2. QED
    BY <2>1 DEF NoAnswer, Answer
<1>3. Plain("plain") \in Wants /\ 0 \in 0..MaxTime /\ Nothing \in Heard
  BY WindowAssumption DEF Plain, Wants, Paths, Nothing, Heard, Statuses
<1>4. <<>> \in Seq(ProbeEnds) /\ Len(<<>>) = 0
  BY EmptySeq
<1>5. EdgeTyped
  <2>1. conf \in Confs
    BY DEF EdgeInit
  <2>2. stage \in [Requests -> Stages]
    BY DEF EdgeInit, Stages
  <2>3. want \in [Requests -> Wants] /\ sent \in [Requests -> 0..MaxTime]
    BY <1>3 DEF EdgeInit
  <2>4. /\ probes \in [Requests -> Seq(ProbeEnds)] /\ answer \in [Requests -> Answer]
        /\ heard \in [Requests -> Heard]
    BY <1>2, <1>3, <1>4 DEF EdgeInit
  <2>5. QED
    BY <2>1, <2>2, <2>3, <2>4 DEF EdgeTyped
<1>6. ASSUME NEW r \in Requests
      PROVE  Fine(conf, r, stage[r], want[r], probes[r], answer[r])
  <2>1. stage[r] = "unsent" /\ probes[r] = <<>> /\ answer[r] = NoAnswer
    BY DEF EdgeInit
  <2>3. Len(<<>>) <= 2
    BY <1>4
  <2>4. QED
    BY <2>1, <2>3 DEF Fine
<1>7. QED
  BY <1>5, <1>6 DEF AllFine

LEMMA NextFine == AllFine /\ TypeOK /\ [EdgeNext]_edgeVars => AllFine'
<1> SUFFICES ASSUME AllFine, TypeOK, [EdgeNext]_edgeVars PROVE AllFine'
  OBVIOUS
<1>1. CASE UNCHANGED edge
  BY <1>1 DEF edge, AllFine, EdgeTyped
<1>2. CASE UNCHANGED edgeVars
  BY <1>1, <1>2 DEF edgeVars
<1>3. CASE TimePasses
  BY <1>1, <1>3 DEF TimePasses
<1>4. ASSUME NEW r \in Requests, Send(r)
      PROVE  AllFine'
  BY <1>4, SendKeeps
<1>5. ASSUME NEW r \in Requests, Serve(r)
      PROVE  AllFine'
  BY <1>5, EnterKeeps, LookupDoneKeeps, ProbedKeeps DEF Serve
<1>6. ASSUME NEW r \in Requests, GiveUp(r)
      PROVE  AllFine'
  <2>1. GaveUp \in Heard
    BY DEF Heard
  <2>2. QED
    BY <1>6, <2>1, AbandonKeeps DEF GiveUp
<1>7. ASSUME NEW r \in Requests, ProxyGivesUp(r)
      PROVE  AllFine'
  <2>1. 504 \in Heard
    BY SMT DEF Heard, Statuses
  <2>2. QED
    BY <1>7, <2>1, AbandonKeeps DEF ProxyGivesUp
<1>8. QED
  BY <1>2, <1>3, <1>4, <1>5, <1>6, <1>7 DEF EdgeNext

LEMMA AlwaysFine == EdgeSpec => []AllFine
<1>1. EdgeSpec => []TypeOK
  BY LimiterInEdge, TypeCorrect, PTL
<1>2. QED
  BY <1>1, InitFine, NextFine, PTL DEF EdgeSpec

\* The variables keep their types, for any number of clients and requests; and no
\* request is probed more than twice (health.py:23-57).
THEOREM EdgeTypeCorrect == EdgeSpec => []EdgeTypeOK
<1>1. AllFine /\ TypeOK => EdgeTypeOK
  BY DEF AllFine, EdgeTyped, Fine, EdgeTypeOK, Wants, Heard
<1>2. EdgeSpec => []TypeOK
  BY LimiterInEdge, TypeCorrect, PTL
<1>3. QED
  BY <1>1, <1>2, AlwaysFine, PTL

\* For whatever is typed, in digits of any script: a barcode of twelve or thirteen digits
\* that reaches the service has the check digit of GS1, and with one digit mistyped it
\* would not have reached it (lookup.py:101-104, validation.py:32-54).
THEOREM BarcodesChecked == EdgeSpec => []BarcodesGenuine
<1>1. AllFine => BarcodesGenuine
  BY AcceptedCodes DEF AllFine, Fine, BarcodesGenuine
<1>2. QED
  BY <1>1, AlwaysFine, PTL

\* /ready is honest under every setting and however its probes end (health.py:31-57).
THEOREM ReadinessHonest == EdgeSpec => []ReadyHonest
<1>1. AllFine => ReadyHonest
  <2> SUFFICES ASSUME AllFine, NEW r \in Requests, stage[r] = "over", want[r].path = "ready"
               PROVE  Honest(conf, want[r], probes[r], answer[r])
    BY DEF ReadyHonest, Honest
  <2>1. QED
    BY DEF AllFine, Fine, Answered
<1>2. QED
  BY <1>1, AlwaysFine, PTL

-----------------------------------------------------------------------------
(***************************************************************************)
(* What the limit means for the service.  RateLimiter promises something   *)
(* of its log; LimitWhereDue promises it of the requests themselves.  So   *)
(* every request that was let past has a place of its own in the log of    *)
(* its host, with the instant at which it was sent.                        *)
(***************************************************************************)
HostAt(r) == HostOf[From[r]]

Placed(place) ==
  /\ place \in [Requests -> Nat]
  /\ \A r \in LetPast : /\ place[r] \in 1..Len(allowed[HostAt(r)])
                        /\ allowed[HostAt(r)][place[r]].at = sent[r]
  /\ \A q, r \in LetPast : q # r /\ HostAt(q) = HostAt(r) => place[q] # place[r]

\* A request that is refused for the limit is over, and the limit was due.
RefusedWhereDue ==
  \A r \in Requests :
    answer[r].status = 429 => stage[r] = "over" /\ want[r].path \notin Unlimited

Accounted == RefusedWhereDue /\ \E place : Placed(place)

\* The logs go on from what they were.
Longer ==
  \A h \in Hosts :
    /\ Len(allowed[h]) \in Nat /\ Len(allowed'[h]) \in Nat
    /\ Len(allowed[h]) <= Len(allowed'[h])
    /\ \A i \in 1..Len(allowed[h]) : allowed'[h][i] = allowed[h][i]

LEMMA Unchanging ==
  ASSUME TypeOK, allowed' = allowed
  PROVE  Longer
<1>1. \A h \in Hosts : Len(allowed[h]) \in Nat
  BY LenProperties DEF TypeOK
<1>2. QED
  BY <1>1 DEF Longer

\* The hosts of requests are hosts.
LEMMA HostAtHost ==
  ASSUME NEW r \in Requests
  PROVE  HostAt(r) \in Hosts /\ From[r] \in Clients
BY EdgeAssumption, HostsAssumption DEF HostAt

\* If nobody else is let past, everybody stays in place.
LEMMA InPlace ==
  ASSUME NEW place, Placed(place), Longer, LetPast' \subseteq LetPast,
         \A q \in LetPast' : sent'[q] = sent[q]
  PROVE  Placed(place)'
<1>1. ASSUME NEW q \in LetPast'
      PROVE  /\ place[q] \in 1..Len(allowed'[HostAt(q)])
             /\ allowed'[HostAt(q)][place[q]].at = sent'[q]
  <2> DEFINE h == HostAt(q)
             i == place[q]
  <2>1. q \in LetPast /\ q \in Requests /\ h \in Hosts
    BY HostAtHost DEF LetPast
  <2>2. i \in 1..Len(allowed[h]) /\ allowed[h][i].at = sent[q] /\ sent'[q] = sent[q]
    BY <2>1 DEF Placed
  <2> HIDE DEF h, i
  <2>3. i \in 1..Len(allowed'[h]) /\ allowed'[h][i] = allowed[h][i]
    BY <2>1, <2>2 DEF Longer
  <2>4. QED
    BY <2>2, <2>3 DEF h, i
<1>2. \A q, r \in LetPast' : q # r /\ HostAt(q) = HostAt(r) => place[q] # place[r]
  BY DEF Placed
<1>3. place \in [Requests -> Nat]
  BY DEF Placed
<1>4. QED
  BY <1>1, <1>2, <1>3 DEF Placed, HostAt

\* Request r is let past: it takes the new place at the end of its host's log.
LEMMA NewPlace ==
  ASSUME TypeOK, NEW place, Placed(place), NEW r \in Requests,
         stage[r] = "unsent", sent'[r] = clock,
         LetPast' \subseteq LetPast \cup {r}, \A q \in LetPast : q # r => sent'[q] = sent[q],
         allowed' = [allowed EXCEPT ![HostAt(r)] =
                       Append(@, [by |-> From[r], at |-> clock])]
  PROVE  \E p : Placed(p)'
<1> DEFINE h   == HostAt(r)
           log == allowed[h]
           new == [by |-> From[r], at |-> clock]
           L   == Len(log)
<1>1. /\ h \in Hosts /\ new \in Request /\ new.at = clock
      /\ log \in Seq(Request) /\ L \in Nat
      /\ allowed \in [Hosts -> Seq(Request)] /\ allowed' = [allowed EXCEPT ![h] = Append(log, new)]
  BY HostAtHost, LenProperties DEF TypeOK, Request
<1>2. /\ Len(allowed'[h]) = L + 1 /\ allowed'[h][L + 1] = new
      /\ \A i \in 1..L : allowed'[h][i] = log[i]
      /\ \A g \in Hosts \ {h} : allowed'[g] = allowed[g]
  <2> HIDE DEF new, log, h
  <2>1. /\ Len(Append(log, new)) = Len(log) + 1 /\ Append(log, new)[Len(log) + 1] = new
        /\ \A i \in 1..Len(log) : Append(log, new)[i] = log[i]
    BY <1>1, AppendProperties
  <2>2. allowed'[h] = Append(log, new) /\ \A g \in Hosts \ {h} : allowed'[g] = allowed[g]
    BY <1>1
  <2>3. QED
    BY <2>1, <2>2
<1>3. r \notin LetPast /\ place \in [Requests -> Nat]
  BY DEF LetPast, Placed
<1>4. PICK n : n = L + 1
  OBVIOUS
<1> DEFINE p == [place EXCEPT ![r] = n]
<1>5. p \in [Requests -> Nat] /\ p[r] = L + 1 /\ \A q \in Requests \ {r} : p[q] = place[q]
  BY <1>1, <1>3, <1>4
<1> HIDE DEF p, new, L
<1>6. ASSUME NEW q \in LetPast', q # r
      PROVE  /\ q \in LetPast /\ q \in Requests /\ p[q] = place[q]
             /\ p[q] \in 1..Len(allowed[HostAt(q)])
             /\ allowed[HostAt(q)][p[q]].at = sent[q] /\ sent'[q] = sent[q]
  <2>1. q \in LetPast
    BY <1>6
  <2>2. q \in Requests
    BY <2>1 DEF LetPast
  <2>3. QED
    BY <1>5, <1>6, <2>1, <2>2 DEF Placed
<1>7. ASSUME NEW q \in LetPast'
      PROVE  /\ p[q] \in 1..Len(allowed'[HostAt(q)])
             /\ allowed'[HostAt(q)][p[q]].at = sent'[q]
  <2>1. CASE q = r
    BY <1>1, <1>2, <1>5, <2>1
  <2>2. CASE q # r /\ HostAt(q) = h
    BY <1>1, <1>2, <1>6, <2>2 DEF L
  <2>3. CASE q # r /\ HostAt(q) # h
    BY <1>2, <1>6, <2>3, HostAtHost
  <2>4. QED
    BY <2>1, <2>2, <2>3
<1>8. ASSUME NEW q \in LetPast', NEW s \in LetPast', q # s, HostAt(q) = HostAt(s)
      PROVE  p[q] # p[s]
  <2>1. CASE q # r /\ s # r
    BY <1>6, <1>8, <2>1 DEF Placed
  <2>2. CASE q = r /\ s # r
    BY <1>1, <1>5, <1>6, <1>8, <2>2 DEF L
  <2>3. CASE q # r /\ s = r
    BY <1>1, <1>5, <1>6, <1>8, <2>3 DEF L
  <2>4. QED
    BY <1>8, <2>1, <2>2, <2>3
<1>9. Placed(p)'
  BY <1>5, <1>7, <1>8 DEF Placed, HostAt
<1>10. QED
  BY <1>9

\* A step that touches request r only.
Touches(r) ==
  /\ conf' = conf
  /\ \A q \in Requests \ {r} :
       /\ stage'[q] = stage[q] /\ want'[q] = want[q]
       /\ answer'[q] = answer[q] /\ sent'[q] = sent[q]

\* The others are let past, or refused, as before.
LEMMA OthersAsBefore ==
  ASSUME RefusedWhereDue, NEW r \in Requests, Touches(r),
         answer'[r].status = 429 => stage'[r] = "over" /\ want'[r].path \notin Unlimited
  PROVE  /\ RefusedWhereDue'
         /\ LetPast' \subseteq LetPast \cup {r}
         /\ \A q \in Requests \ {r} : sent'[q] = sent[q]
<1>1. RefusedWhereDue'
  BY DEF RefusedWhereDue, Touches
<1>2. LetPast' \subseteq LetPast \cup {r}
  <2> SUFFICES ASSUME NEW q \in LetPast', q # r PROVE q \in LetPast
    OBVIOUS
  <2>1. q \in Requests \ {r}
    BY DEF LetPast
  <2>2. QED
    BY <2>1 DEF LetPast, Touches, Counted
<1>3. QED
  BY <1>1, <1>2 DEF Touches

-----------------------------------------------------------------------------
\* What the answers of the layers are, as far as the limit is concerned.
LEMMA ReplyTouches ==
  ASSUME EdgeTyped, NEW r \in Requests, NEW x, Reply(r, x)
  PROVE  /\ answer'[r] = x /\ stage'[r] = "over"
         /\ \A q \in Requests \ {r} : stage'[q] = stage[q] /\ answer'[q] = answer[q]
BY DEF EdgeTyped, Reply

LEMMA WaitsTouches ==
  ASSUME EdgeTyped, NEW r \in Requests, NEW s, Waits(r, s)
  PROVE  /\ answer'[r] = answer[r] /\ stage'[r] = s
         /\ \A q \in Requests \ {r} : stage'[q] = stage[q] /\ answer'[q] = answer[q]
BY DEF EdgeTyped, Waits

LEMMA MadeStatus ==
  ASSUME NEW layer, NEW r, NEW status, NEW type, NEW body
  PROVE  Made(layer, r, status, type, body).status = status
<1> DEFINE c == conf.cors /\ HasOrigin(r) /\ "cors" \in Outside[layer]
<1>1. Made(layer, r, status, type, body) =
        [status |-> status, type |-> type, body |-> body, header |-> IdAt(layer, r), cors |-> c]
  BY Zenon DEF Made
<1> HIDE DEF c
<1>2. QED
  BY <1>1

\* r goes on, or ends with an answer that is not 429.
Goes(r) ==
  /\ stage'[r] # "unsent"
  /\ answer'[r] = answer[r] \/ answer'[r].status # 429
  /\ \A q \in Requests \ {r} : stage'[q] = stage[q] /\ answer'[q] = answer[q]

LEMMA RepliesGo ==
  ASSUME EdgeTyped, NEW r \in Requests, NEW layer, NEW status, status # 429, NEW type, NEW body,
         Reply(r, Made(layer, r, status, type, body))
  PROVE  Goes(r)
<1> DEFINE x == Made(layer, r, status, type, body)
<1>1. x.status = status
  BY MadeStatus
<1>2. Reply(r, x)
  OBVIOUS
<1> HIDE DEF x
<1>3. QED
  BY <1>1, <1>2, ReplyTouches DEF Goes

LEMMA WaitingGoes ==
  ASSUME EdgeTyped, NEW r \in Requests, NEW s \in Stages \ {"unsent"}, Waits(r, s)
  PROVE  Goes(r)
BY WaitsTouches DEF Goes

LEMMA RouteGoes ==
  ASSUME EdgeTyped, NEW r \in Requests, NEW a, Route(r, a)
  PROVE  Goes(r)
<1>1. CASE Success(r)
  BY <1>1, RepliesGo, SMT DEF Success
<1>2. CASE NoRoute(r)
  BY <1>2, RepliesGo, SMT DEF NoRoute
<1>3. CASE Error(r, 422, a.code.kind)
  BY <1>3, RepliesGo, SMT DEF Error
<1>4. CASE Redirect(r)
  BY <1>4, RepliesGo, SMT DEF Redirect
<1>5. CASE Waits(r, "looking") \/ Waits(r, "primary")
  BY <1>5, WaitingGoes DEF Stages
<1>6. QED
  BY <1>1, <1>2, <1>3, <1>4, <1>5 DEF Route, Lookup, Ready

\* Past the limiter: r leaves its mark in the log if its route is limited.
LEMMA MeteredMarks ==
  ASSUME NEW r \in Requests, NEW a, Metered(r, a), conf' = conf
  PROVE  \/ allowed' = allowed /\ (Counted(a) => ~verdict'.ok)
         \/ /\ Counted(a) /\ verdict'.ok
            /\ allowed' = [allowed EXCEPT ![HostAt(r)] =
                             Append(@, [by |-> From[r], at |-> clock])]
<1>1. CASE ~conf.limited /\ UNCHANGED vars
  BY <1>1 DEF vars, Counted
<1>2. CASE ~Counted(a) /\ Exempt(From[r])
  BY <1>2 DEF Exempt
<1>3. CASE Counted(a) /\ Limited(From[r])
  <2>1. PICK n : Decide(From[r], HostOf[From[r]], Popped(hits[HostOf[From[r]]], n))
    BY <1>3 DEF Limited
  <2>2. CASE UNCHANGED allowed /\ verdict' = [by |-> From[r], at |-> clock, ok |-> FALSE]
    BY <2>2
  <2>3. CASE /\ allowed' = [allowed EXCEPT ![HostOf[From[r]]] =
                              Append(@, [by |-> From[r], at |-> clock])]
             /\ verdict' = [by |-> From[r], at |-> clock, ok |-> TRUE]
    BY <1>3, <2>3 DEF HostAt
  <2>4. QED
    BY <2>1, <2>2, <2>3 DEF Decide
<1>4. QED
  BY <1>1, <1>2, <1>3 DEF Metered

\* The actions.
LEMMA SendAccounts ==
  ASSUME Accounted, EdgeTyped, TypeOK, NEW r \in Requests, Send(r)
  PROVE  Accounted'
<1>1. /\ stage[r] = "unsent" /\ conf' = conf /\ sent' = [sent EXCEPT ![r] = clock]
  BY DEF Send
<1>2. PICK a : want' = [want EXCEPT ![r] = a] /\ Arrive(r, a)
  BY DEF Send
<1>3. PICK place : Placed(place)
  BY DEF Accounted
<1>4. /\ want'[r] = a /\ sent'[r] = clock
      /\ \A q \in Requests \ {r} : want'[q] = want[q] /\ sent'[q] = sent[q]
  BY <1>1, <1>2 DEF EdgeTyped
<1>5. RefusedWhereDue /\ answer[r].status # 429 /\ r \notin LetPast
  BY <1>1 DEF Accounted, RefusedWhereDue, LetPast
\* Whoever is not let past disturbs nobody.
<1>6. ASSUME allowed' = allowed, r \notin LetPast',
             \A q \in Requests \ {r} : stage'[q] = stage[q] /\ answer'[q] = answer[q],
             answer'[r].status = 429 => stage'[r] = "over" /\ a.path \notin Unlimited
      PROVE  Accounted'
  <2>1. Touches(r)
    BY <1>1, <1>4, <1>6 DEF Touches
  <2>2. /\ RefusedWhereDue' /\ LetPast' \subseteq LetPast \cup {r}
        /\ \A q \in Requests \ {r} : sent'[q] = sent[q]
    BY <1>4, <1>5, <1>6, <2>1, OthersAsBefore
  <2>3. LetPast' \subseteq LetPast /\ \A q \in LetPast' : sent'[q] = sent[q]
    BY <1>6, <2>2 DEF LetPast
  <2>4. Placed(place)'
    BY <1>3, <1>6, <2>3, Unchanging, InPlace
  <2>5. QED
    BY <2>2, <2>4 DEF Accounted
<1>7. CASE Preflight(r, a)
  <2> DEFINE x == [Made("cors", r, 200, "ok", NoId) EXCEPT !.cors = TRUE]
  <2>1. x.status = 200
    <3>1. Made("cors", r, 200, "ok", NoId).status = 200
      BY MadeStatus
    <3>2. x.status = Made("cors", r, 200, "ok", NoId).status
      BY DEF Made
    <3>3. QED
      BY <3>1, <3>2
  <2>2. /\ conf.cors /\ a.path = "preflight" /\ allowed' = allowed /\ Reply(r, x)
    BY <1>7 DEF Preflight, vars
  <2> HIDE DEF x
  <2>3. /\ answer'[r].status # 429
        /\ \A q \in Requests \ {r} : stage'[q] = stage[q] /\ answer'[q] = answer[q]
    BY <2>1, <2>2, ReplyTouches, SMT
  <2>4. r \notin LetPast'
    BY <1>1, <1>4, <2>2 DEF LetPast
  <2>5. QED
    BY <1>6, <2>2, <2>3, <2>4
<1>8. CASE Metered(r, a) /\ Counted(a) /\ ~verdict'.ok /\ TooMany(r)
  <2> DEFINE x == Made("limit", r, 429, "rate_limited", IdAt("limit", r))
  <2>1. x.status = 429 /\ Reply(r, x)
    BY <1>8, MadeStatus DEF TooMany
  <2> HIDE DEF x
  <2>2. /\ answer'[r].status = 429 /\ stage'[r] = "over"
        /\ \A q \in Requests \ {r} : stage'[q] = stage[q] /\ answer'[q] = answer[q]
    BY <2>1, ReplyTouches
  <2>3. allowed' = allowed
    BY <1>1, <1>8, MeteredMarks
  <2>4. r \notin LetPast' /\ a.path \notin Unlimited
    BY <1>8, <2>2 DEF LetPast, Counted
  <2>5. QED
    BY <1>6, <2>2, <2>3, <2>4
<1>9. CASE Metered(r, a) /\ ~(Counted(a) /\ ~verdict'.ok) /\ Waits(r, "inside")
  <2>1. Goes(r)
    BY <1>9, WaitingGoes DEF Stages
  <2>2. answer'[r].status # 429
    BY <1>5, <2>1 DEF Goes
  <2>3. CASE ~Counted(a)
    <3>1. allowed' = allowed
      BY <1>1, <1>9, <2>3, MeteredMarks
    <3>2. r \notin LetPast'
      BY <1>1, <1>4, <2>3 DEF LetPast, Counted
    <3>3. QED
      BY <1>6, <2>1, <2>2, <3>1, <3>2 DEF Goes
  <2>4. CASE Counted(a)
    <3>1. allowed' = [allowed EXCEPT ![HostAt(r)] = Append(@, [by |-> From[r], at |-> clock])]
      BY <1>1, <1>9, <2>4, MeteredMarks
    <3>2. Touches(r)
      BY <1>1, <1>4, <2>1 DEF Touches, Goes
    <3>3. /\ RefusedWhereDue' /\ LetPast' \subseteq LetPast \cup {r}
          /\ \A q \in Requests \ {r} : sent'[q] = sent[q]
      BY <1>5, <2>2, <3>2, OthersAsBefore
    <3>4. \A q \in LetPast : q # r => sent'[q] = sent[q]
      BY <3>3 DEF LetPast
    <3>5. \E p : Placed(p)'
      BY <1>1, <1>3, <1>4, <3>1, <3>3, <3>4, NewPlace
    <3>6. QED
      BY <3>3, <3>5 DEF Accounted
  <2>5. QED
    BY <2>3, <2>4
<1>10. QED
  BY <1>2, <1>7, <1>8, <1>9 DEF Arrive

LEMMA ServeAccounts ==
  ASSUME Accounted, EdgeTyped, TypeOK, NEW r \in Requests, Serve(r)
  PROVE  Accounted'
<1>1. /\ stage[r] \in {"inside", "looking", "primary", "fallback"} /\ allowed' = allowed
      /\ conf' = conf /\ want' = want /\ sent' = sent
  BY DEF Serve, Enter, LookupDone, Probed, vars
<1>2. Goes(r)
  <2>1. CASE LookupDone(r)
    BY <2>1, RepliesGo, SMT DEF LookupDone, Success
  <2>2. ASSUME NEW o \in ProbeEnds, Probed(r, o)
        PROVE  Goes(r)
    <3>1. CASE Success(r)
      BY <3>1, RepliesGo, SMT DEF Success
    <3>2. CASE Unexpected(r)
      BY <3>2, RepliesGo, SMT DEF Unexpected
    <3>3. CASE Error(r, 503, "http_error")
      BY <3>3, RepliesGo, SMT DEF Error
    <3>4. CASE Waits(r, "fallback")
      BY <3>4, WaitingGoes DEF Stages
    <3>5. QED
      BY <2>2, <3>1, <3>2, <3>3, <3>4 DEF Probed, Fails
  <2>3. CASE Enter(r)
    BY <2>3, RouteGoes DEF Enter
  <2>4. QED
    BY <2>1, <2>2, <2>3 DEF Serve
<1>3. PICK place : Placed(place)
  BY DEF Accounted
<1>4. RefusedWhereDue /\ answer[r].status # 429
  BY <1>1 DEF Accounted, RefusedWhereDue
<1>5. Touches(r) /\ answer'[r].status # 429
  BY <1>1, <1>2, <1>4 DEF Touches, Goes
<1>6. RefusedWhereDue' /\ LetPast' \subseteq LetPast \cup {r}
  BY <1>4, <1>5, OthersAsBefore
<1>7. r \in LetPast' => r \in LetPast
  BY <1>1, <1>4 DEF LetPast, Counted
<1>8. Placed(place)'
  BY <1>1, <1>3, <1>6, <1>7, Unchanging, InPlace
<1>9. QED
  BY <1>6, <1>8 DEF Accounted

\* Steps that touch no request but perhaps what its client heard.
LEMMA RestAccounts ==
  ASSUME Accounted, TypeOK, UNCHANGED <<conf, stage, want, sent, answer, allowed>>
  PROVE  Accounted'
BY DEF Accounted, RefusedWhereDue, Placed, LetPast, Counted

LEMMA AlwaysAccounted == EdgeSpec => []Accounted
<1>1. EdgeInit => Accounted
  <2> SUFFICES ASSUME EdgeInit PROVE Accounted
    OBVIOUS
  <2>1. \A r \in Requests : stage[r] = "unsent" /\ answer[r].status = 0
    BY DEF EdgeInit, NoAnswer
  <2>2. RefusedWhereDue /\ LetPast = {}
    BY <2>1, SMT DEF RefusedWhereDue, LetPast
  <2>3. [r \in Requests |-> 0] \in [Requests -> Nat]
    OBVIOUS
  <2>4. Placed([r \in Requests |-> 0])
    BY <2>2, <2>3 DEF Placed
  <2>5. QED
    BY <2>2, <2>4 DEF Accounted
<1>2. Accounted /\ AllFine /\ TypeOK /\ [EdgeNext]_edgeVars => Accounted'
  <2> SUFFICES ASSUME Accounted, AllFine, TypeOK, [EdgeNext]_edgeVars PROVE Accounted'
    OBVIOUS
  <2>1. EdgeTyped
    BY DEF AllFine
  <2>2. CASE UNCHANGED edgeVars
    BY <2>2, RestAccounts DEF edgeVars, edge, vars
  <2>3. CASE TimePasses
    BY <2>3, RestAccounts DEF TimePasses, Tick, edge
  <2>4. ASSUME NEW r \in Requests, Send(r) PROVE Accounted'
    BY <2>1, <2>4, SendAccounts
  <2>5. ASSUME NEW r \in Requests, Serve(r) PROVE Accounted'
    BY <2>1, <2>5, ServeAccounts
  <2>6. ASSUME NEW r \in Requests, GiveUp(r) \/ ProxyGivesUp(r) PROVE Accounted'
    BY <2>6, RestAccounts DEF GiveUp, ProxyGivesUp, Abandon, vars
  <2>7. QED
    BY <2>2, <2>3, <2>4, <2>5, <2>6 DEF EdgeNext
<1>3. EdgeSpec => []TypeOK
  BY LimiterInEdge, TypeCorrect, PTL
<1>4. QED
  BY <1>1, <1>2, <1>3, AlwaysFine, PTL DEF EdgeSpec

-----------------------------------------------------------------------------
\* Of Limit + 1 requests in places of their own, two are Limit places apart.
LEMMA FarApart ==
  ASSUME NEW S, IsFiniteSet(S), Cardinality(S) = Limit + 1, NEW f \in [S -> Nat],
         \A q, r \in S : q # r => f[q] # f[r]
  PROVE  \E q, r \in S : f[r] >= f[q] + Limit
<1>0. Limit \in Nat \ {0}
  BY LimitPositive
<1>1. \E q \in S : \A r \in S : f[q] <= f[r]
  <2> DEFINE T == {f[r] : r \in S}
  <2>1. S # {}
    <3>1. Cardinality(S) # 0
      BY <1>0, SMT
    <3>2. QED
      BY <3>1, FS_EmptySet
  <2>2. T \subseteq Nat /\ T # {}
    BY <2>1
  <2>3. PICK m \in T : \A n \in T : ~ (<<n, m>> \in OpToRel(<, Nat))
    <3> HIDE DEF T
    <3>1. QED
      BY <2>2, NatLessThanWellFounded, WFMin
  <2>4. PICK q \in S : m = f[q]
    OBVIOUS
  <2>5. ASSUME NEW r \in S PROVE f[q] <= f[r]
    <3>1. ~ (<<f[r], f[q]>> \in OpToRel(<, Nat))
      BY <2>3, <2>4
    <3>2. f[r] \in Nat /\ f[q] \in Nat
      OBVIOUS
    <3>3. ~ (f[r] < f[q])
      BY <3>1, <3>2 DEF OpToRel
    <3>4. QED
      BY <3>2, <3>3, SMT
  <2>6. QED
    BY <2>5
<1>2. PICK q \in S : \A r \in S : f[q] <= f[r]
  BY <1>1
<1>3. f[q] \in Nat
  OBVIOUS
<1>4. SUFFICES ASSUME \A r \in S : f[r] < f[q] + Limit
               PROVE  FALSE
  <2>1. \A r \in S : f[r] \in Nat
    OBVIOUS
  <2>2. QED
    BY <1>0, <1>3, <1>4, <2>1, SMT
<1> DEFINE I == f[q]..(f[q] + Limit - 1)
<1>5. f \in [S -> I]
  <2>1. \A r \in S : f[r] \in I
    BY <1>0, <1>2, <1>3, <1>4, SMT
  <2>2. QED
    BY <2>1
<1>6. IsFiniteSet(I) /\ Cardinality(I) < Cardinality(S)
  <2>1. f[q] \in Int /\ f[q] + Limit - 1 \in Int /\ ~ (f[q] > f[q] + Limit - 1)
        /\ (f[q] + Limit - 1) - f[q] + 1 = Limit
    BY <1>0, <1>3, SMT
  <2>2. IsFiniteSet(I) /\ Cardinality(I) = Limit
    BY <2>1, FS_Interval
  <2>3. QED
    BY <1>0, <2>2, SMT
<1> HIDE DEF I
<1>7. \E x, y \in S : x # y /\ f[x] = f[y]
  BY <1>5, <1>6, FS_PigeonHole
<1>8. QED
  BY <1>7

\* A set of requests of one host.
LEMMA OneHost ==
  ASSUME NEW S \in SUBSET Requests, S # {}, IsFiniteSet(S),
         Cardinality({HostOf[From[r]] : r \in S}) = 1
  PROVE  \A q, r \in S : HostAt(q) = HostAt(r)
<1> DEFINE H == {HostOf[From[r]] : r \in S}
           f == [r \in S |-> HostOf[From[r]]]
<1>1. f \in Surjection(S, H)
  BY DEF Surjection
<1>2. IsFiniteSet(H)
  <2> HIDE DEF f, H
  <2>1. QED
    BY <1>1, FS_Surjection
<1>3. PICK h : H = {h}
  <2> HIDE DEF H
  <2>1. Cardinality(H) = 1
    BY DEF H
  <2>2. QED
    BY <1>2, <2>1, FS_Singleton
<1>4. \A r \in S : HostAt(r) \in H
  BY DEF HostAt
<1>5. QED
  BY <1>3, <1>4

LEMMA RequestsFinite == IsFiniteSet(Requests)
<1>1. 1 \in Int /\ LastRequest \in Int
  BY EdgeAssumption
<1>2. QED
  BY <1>1, FS_Interval DEF Requests

\* So Limit + 1 requests of one host span more than Window.
LEMMA Spread ==
  ASSUME IInv, NEW place, Placed(place), NEW S \in SUBSET LetPast,
         Cardinality(S) = Limit + 1, Cardinality({HostOf[From[r]] : r \in S}) = 1
  PROVE  \E q, r \in S : sent[r] - sent[q] > Window
<1>0. Limit \in Nat \ {0} /\ Window \in Nat
  BY LimitPositive, WindowAssumption
<1>1. S \in SUBSET Requests /\ IsFiniteSet(S)
  <2>1. S \in SUBSET Requests
    BY DEF LetPast
  <2>2. QED
    BY <2>1, RequestsFinite, FS_Subset
<1>2. S # {}
  <2>1. Cardinality(S) # 0
    BY <1>0, SMT
  <2>2. QED
    BY <2>1, FS_EmptySet
<1>3. \A q, r \in S : HostAt(q) = HostAt(r)
  BY <1>1, <1>2, OneHost
<1> DEFINE f == [r \in S |-> place[r]]
<1>4. f \in [S -> Nat] /\ \A q, r \in S : q # r => f[q] # f[r]
  BY <1>1, <1>3 DEF Placed
<1> HIDE DEF f
<1>5. PICK q \in S, r \in S : f[r] >= f[q] + Limit
  BY <1>1, <1>4, FarApart
<1> DEFINE h   == HostAt(q)
           log == allowed[h]
           i   == f[q]
           j   == f[r]
<1>6. /\ h \in Hosts /\ HostAt(r) = h
      /\ i \in 1..Len(log) /\ log[i].at = sent[q]
      /\ j \in 1..Len(log) /\ log[j].at = sent[r]
      /\ log \in Seq(Request)
  BY <1>1, <1>3, HostAtHost DEF Placed, f, IInv, TypeOK
<1>7. Len(log) \in Nat /\ DOMAIN log = 1..Len(log)
  BY <1>6, LenProperties
<1>8. \A k \in 1..Len(log) : log[k].at \in Int
  <2>1. \A k \in 1..Len(log) : log[k] \in Request
    BY <1>6, ElementOfSeq
  <2>2. QED
    BY <2>1, SMT DEF Request
<1>9. /\ \A k \in DOMAIN log : k + Limit \in DOMAIN log => log[k + Limit].at - log[k].at > Window
      /\ \A k, l \in DOMAIN log : k <= l => log[k].at <= log[l].at
  BY <1>6 DEF IInv, WindowRespected, InOrder
<1>10. j >= i + Limit
  BY <1>5
<1> HIDE DEF h, log, i, j
<1>11. i + Limit \in 1..Len(log)
  BY <1>0, <1>6, <1>7, <1>10, SMT
<1>12. log[i + Limit].at - log[i].at > Window /\ log[i + Limit].at <= log[j].at
  BY <1>6, <1>7, <1>9, <1>10, <1>11
<1>13. sent[r] - sent[q] > Window
  BY <1>0, <1>6, <1>8, <1>11, <1>12, SMT
<1>14. QED
  BY <1>13

\* For any limit and any number of requests and hosts: no window lets more than Limit
\* requests of one host through to a limited route, and nothing that is exempt is ever
\* refused for the limit (rate_limit.py:45-60, main.py:97-105).
THEOREM LimitHeld == EdgeSpec => []LimitWhereDue
<1>1. IInv /\ Accounted => LimitWhereDue
  BY Spread DEF Accounted, RefusedWhereDue, LimitWhereDue, IInv
<1>2. EdgeSpec => []IInv
  BY LimiterInEdge, InductiveInvariant, PTL
<1>3. QED
  BY <1>1, <1>2, AlwaysAccounted, PTL

-----------------------------------------------------------------------------
(***************************************************************************)
(* Why every request is answered, as far as safety tells.                  *)
(***************************************************************************)
\* How many steps a request has before it, at most.
ToGo(r) == CASE stage[r] = "unsent"   -> 4
             [] stage[r] = "inside"   -> 3
             [] stage[r] = "primary"  -> 2
             [] stage[r] = "looking"  -> 1
             [] stage[r] = "fallback" -> 1
             [] OTHER                 -> 0

\* Each step of a request brings it nearer to its end, and no other step moves it.
RequestsRunDown ==
  [][\A r \in Requests : ToGo(r)' < ToGo(r) \/ UNCHANGED <<stage[r], answer[r]>>]_edgeVars

\* What a request may come to in one step.
Ahead(s) == CASE s = "unsent"  -> {"inside", "over"}
              [] s = "inside"  -> {"primary", "looking", "over"}
              [] s = "primary" -> {"fallback", "over"}
              [] OTHER         -> {"over"}

LEMMA AheadIsLess ==
  ASSUME NEW r \in Requests, stage[r] \in Stages \ {"over"}, stage'[r] \in Ahead(stage[r])
  PROVE  ToGo(r)' < ToGo(r)
<1>1. CASE stage[r] = "unsent"
  BY <1>1 DEF Ahead, ToGo
<1>2. CASE stage[r] = "inside"
  BY <1>2 DEF Ahead, ToGo
<1>3. CASE stage[r] = "primary"
  BY <1>3 DEF Ahead, ToGo
<1>4. CASE stage[r] \in {"looking", "fallback"}
  BY <1>4 DEF Ahead, ToGo
<1>5. QED
  BY <1>1, <1>2, <1>3, <1>4 DEF Stages

\* r alone goes on, and its client hears of its end at the latest then, and nothing
\* but the answer.
GoesOn(r) ==
  /\ stage'[r] \in Ahead(stage[r])
  /\ stage'[r] = "over" => heard'[r] # Nothing
  /\ heard'[r] # heard[r] => stage'[r] = "over" /\ heard'[r] = answer'[r].status
  /\ \A q \in Requests \ {r} :
       stage'[q] = stage[q] /\ answer'[q] = answer[q] /\ heard'[q] = heard[q]

LEMMA RepliesGoOn ==
  ASSUME EdgeTyped, NEW r \in Requests, NEW x, Reply(r, x), x.status # 0
  PROVE  GoesOn(r)
<1>1. stage'[r] \in Ahead(stage[r])
  BY ReplyTouches DEF Ahead
<1>2. /\ heard'[r] # Nothing /\ \A q \in Requests \ {r} : heard'[q] = heard[q]
      /\ heard'[r] # heard[r] => heard'[r] = x.status
  BY DEF Reply, EdgeTyped, Nothing
<1>3. QED
  BY <1>1, <1>2, ReplyTouches DEF GoesOn

LEMMA MadeGoesOn ==
  ASSUME EdgeTyped, NEW r \in Requests, NEW layer, NEW status, status # 0, NEW type, NEW body,
         Reply(r, Made(layer, r, status, type, body))
  PROVE  GoesOn(r)
BY MadeStatus, RepliesGoOn

LEMMA WaitsGoOn ==
  ASSUME EdgeTyped, NEW r \in Requests, NEW s \in Stages \ {"over"},
         Waits(r, s), s \in Ahead(stage[r])
  PROVE  GoesOn(r)
<1>1. \A q \in Requests : heard'[q] = heard[q]
  BY DEF Waits
<1>2. QED
  BY <1>1, WaitsTouches DEF GoesOn

LEMMA SendGoesOn ==
  ASSUME EdgeTyped, NEW r \in Requests, Send(r)
  PROVE  GoesOn(r)
<1>1. stage[r] = "unsent" /\ \E a : Arrive(r, a)
  BY DEF Send
<1>2. "inside" \in Ahead(stage[r]) /\ "inside" \in Stages \ {"over"}
  BY <1>1 DEF Ahead, Stages
<1>3. ASSUME NEW a, Preflight(r, a) PROVE GoesOn(r)
  <2> DEFINE x == [Made("cors", r, 200, "ok", NoId) EXCEPT !.cors = TRUE]
  <2>1. x.status = 200
    <3>1. Made("cors", r, 200, "ok", NoId).status = 200
      BY MadeStatus
    <3>2. x.status = Made("cors", r, 200, "ok", NoId).status
      BY DEF Made
    <3>3. QED
      BY <3>1, <3>2
  <2>2. Reply(r, x)
    BY <1>3 DEF Preflight
  <2> HIDE DEF x
  <2>3. QED
    BY <2>1, <2>2, RepliesGoOn, SMT
<1>4. CASE TooMany(r)
  BY <1>4, MadeGoesOn, SMT DEF TooMany
<1>5. CASE Waits(r, "inside")
  BY <1>2, <1>5, WaitsGoOn
<1>6. QED
  BY <1>1, <1>3, <1>4, <1>5 DEF Arrive

LEMMA EnterGoesOn ==
  ASSUME EdgeTyped, NEW r \in Requests, Enter(r)
  PROVE  GoesOn(r)
<1>1. CASE Success(r)
  BY <1>1, MadeGoesOn, SMT DEF Success
<1>2. CASE NoRoute(r)
  BY <1>2, MadeGoesOn, SMT DEF NoRoute
<1>3. CASE Error(r, 422, want[r].code.kind)
  BY <1>3, MadeGoesOn, SMT DEF Error
<1>4. CASE Redirect(r)
  BY <1>4, MadeGoesOn, SMT DEF Redirect
<1>5. CASE Waits(r, "looking") \/ Waits(r, "primary")
  <2>1. \A s \in {"looking", "primary"} : s \in Ahead(stage[r]) /\ s \in Stages \ {"over"}
    BY DEF Enter, Ahead, Stages
  <2>2. QED
    BY <1>5, <2>1, WaitsGoOn
<1>6. QED
  BY <1>1, <1>2, <1>3, <1>4, <1>5 DEF Enter, Route, Lookup, Ready

LEMMA ServeGoesOn ==
  ASSUME EdgeTyped, NEW r \in Requests, Serve(r)
  PROVE  GoesOn(r)
<1>1. CASE LookupDone(r)
  BY <1>1, MadeGoesOn, SMT DEF LookupDone, Success
<1>2. ASSUME NEW o \in ProbeEnds, Probed(r, o)
      PROVE  GoesOn(r)
  <2>1. CASE Success(r)
    BY <2>1, MadeGoesOn, SMT DEF Success
  <2>2. CASE Unexpected(r)
    BY <2>2, MadeGoesOn, SMT DEF Unexpected
  <2>3. CASE Error(r, 503, "http_error")
    BY <2>3, MadeGoesOn, SMT DEF Error
  <2>4. CASE stage[r] = "primary" /\ Waits(r, "fallback")
    <3>1. "fallback" \in Ahead(stage[r]) /\ "fallback" \in Stages \ {"over"}
      BY <2>4 DEF Ahead, Stages
    <3>2. QED
      BY <2>4, <3>1, WaitsGoOn
  <2>5. QED
    BY <1>2, <2>1, <2>2, <2>3, <2>4 DEF Probed, Fails
<1>3. QED
  BY <1>1, <1>2, EnterGoesOn DEF Serve

\* What the client of r may have heard: nothing yet, the 504 of nginx, its own
\* impatience, or the answer.
HeardOf(r) ==
  \/ heard[r] \in {Nothing, 504}
  \/ heard[r] = GaveUp /\ From[r] \in Once
  \/ stage[r] = "over" /\ heard[r] = answer[r].status

\* No request is over without a word to its client.
Told == \A r \in Requests : HeardOf(r) /\ (stage[r] = "over" => heard[r] # Nothing)

LEMMA AlwaysTold == EdgeSpec => []Told
<1>1. EdgeInit => Told
  BY SMT DEF EdgeInit, Told, HeardOf
<1>2. AllFine /\ Told /\ [EdgeNext]_edgeVars => Told'
  <2> SUFFICES ASSUME AllFine, Told, [EdgeNext]_edgeVars PROVE Told'
    OBVIOUS
  <2>1. EdgeTyped
    BY DEF AllFine
  <2>2. CASE UNCHANGED edgeVars
    BY <2>2 DEF edgeVars, edge, Told, HeardOf
  <2>3. ASSUME NEW r \in Requests, Send(r) \/ Serve(r)
        PROVE  Told'
    <3>1. GoesOn(r) /\ stage[r] # "over"
      BY <2>1, <2>3, SendGoesOn, ServeGoesOn DEF Send, Serve, Enter, LookupDone, Probed
    <3>2. HeardOf(r)' /\ (stage'[r] = "over" => heard'[r] # Nothing)
      BY <3>1 DEF GoesOn, Told, HeardOf
    <3>3. QED
      BY <3>1, <3>2 DEF GoesOn, Told, HeardOf
  <2>4. CASE TimePasses
    BY <2>4 DEF TimePasses, edge, Told, HeardOf
  <2>5. ASSUME NEW r \in Requests, NEW status \in {GaveUp, 504}, Abandon(r, status),
               status = GaveUp => From[r] \in Once
        PROVE  Told'
    <3>1. GaveUp # Nothing /\ 504 # Nothing
      BY SMT DEF GaveUp, Nothing
    <3>2. /\ stage' = stage /\ answer' = answer /\ heard'[r] = status
          /\ \A q \in Requests \ {r} : heard'[q] = heard[q]
      BY <2>1, <2>5 DEF Abandon, EdgeTyped
    <3>3. QED
      BY <2>5, <3>1, <3>2 DEF Told, HeardOf
  <2>6. 504 # GaveUp
    BY SMT DEF GaveUp
  <2>7. ASSUME NEW r \in Requests, GiveUp(r) \/ ProxyGivesUp(r)
        PROVE  Told'
    BY <2>5, <2>6, <2>7 DEF GiveUp, ProxyGivesUp
  <2>8. QED
    BY <2>2, <2>3, <2>4, <2>7 DEF EdgeNext
<1>3. QED
  BY <1>1, <1>2, AlwaysFine, PTL DEF EdgeSpec

\* Behind every stack and setting, whatever the probes bring and whoever gives up: a
\* request takes at most four steps, it is answered once, and when it is over its
\* client has heard something (main.py:97-121, health.py:23-82).
THEOREM AnsweredOnce ==
  EdgeSpec => RequestsRunDown /\ []Told
<1>1. AllFine /\ [EdgeNext]_edgeVars =>
        [\A r \in Requests : ToGo(r)' < ToGo(r) \/ UNCHANGED <<stage[r], answer[r]>>]_edgeVars
  <2> SUFFICES ASSUME AllFine, EdgeNext, NEW q \in Requests
               PROVE  ToGo(q)' < ToGo(q) \/ UNCHANGED <<stage[q], answer[q]>>
    OBVIOUS
  <2>1. EdgeTyped
    BY DEF AllFine
  <2>2. ASSUME NEW r \in Requests, Send(r) \/ Serve(r)
        PROVE  ToGo(q)' < ToGo(q) \/ UNCHANGED <<stage[q], answer[q]>>
    <3>1. GoesOn(r)
      BY <2>1, <2>2, SendGoesOn, ServeGoesOn
    <3>2. stage[r] \in Stages \ {"over"}
      BY <2>2 DEF Send, Serve, Enter, LookupDone, Probed, Stages
    <3>3. CASE q = r
      BY <3>1, <3>2, <3>3, AheadIsLess DEF GoesOn
    <3>4. CASE q # r
      BY <3>1, <3>4 DEF GoesOn
    <3>5. QED
      BY <3>3, <3>4
  <2>3. CASE TimePasses
    BY <2>3 DEF TimePasses, edge
  <2>4. ASSUME NEW r \in Requests, GiveUp(r) \/ ProxyGivesUp(r)
        PROVE  UNCHANGED <<stage, answer>>
    BY <2>4 DEF GiveUp, ProxyGivesUp, Abandon
  <2>5. QED
    BY <2>2, <2>3, <2>4 DEF EdgeNext
<1>2. QED
  BY <1>1, AlwaysFine, AlwaysTold, PTL DEF EdgeSpec, RequestsRunDown

\* A page of another origin that is told anything but 500 or 504 is told the app's
\* answer, with the headers it needs to read it (main.py:106-114).
THEOREM AnswersReadable == EdgeSpec => []ReadableInBrowser
<1>1. AllFine /\ Told => ReadableInBrowser
  <2> SUFFICES ASSUME AllFine, Told, NEW r \in Requests,
                      conf.cors /\ HasOrigin(r) /\ heard[r] \notin {Nothing, 500, 504}
               PROVE  stage[r] = "over" /\ heard[r] = answer[r].status /\ answer[r].cors
    BY DEF ReadableInBrowser
  <2>1. stage[r] = "over" /\ heard[r] = answer[r].status
    <3>1. HeardOf(r)
      BY DEF Told
    <3>2. From[r] \notin Once
      BY DEF HasOrigin
    <3>3. QED
      BY <3>1, <3>2 DEF HeardOf
  <2>2. Fine(conf, r, stage[r], want[r], probes[r], answer[r])
    BY DEF AllFine
  <2>3. Answered(conf, r, want[r], probes[r], answer[r])
    BY <2>1, <2>2 DEF Fine
  <2>4. QED
    BY <2>1, <2>3 DEF Answered
<1>2. QED
  BY <1>1, AlwaysFine, AlwaysTold, PTL

=============================================================================
