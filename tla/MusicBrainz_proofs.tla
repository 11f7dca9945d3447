------------------------- MODULE MusicBrainz_proofs ------------------------
(***************************************************************************)
(* Theorems of MusicBrainz, for any number of calls, gap and retries.  The *)
(* lock's part of the state and the calls' part are proved apart: only     *)
(* Knock and LetGo touch the lock, and what they do does not depend on the *)
(* stage of a call.                                                        *)
(***************************************************************************)
EXTENDS MusicBrainz, WellFoundedInduction, TLAPS

LockTypes ==
  /\ holder \in Calls \cup {Nobody} /\ queue \in Seq(Calls)
  /\ nap \in 0..Gap /\ since \in 0..Gap
  /\ pc \in [Calls -> PcTypes]

CallTypes ==
  /\ quiet \in 0..Gap
  /\ kind \in [Calls -> {"isrc", "upc"}]
  /\ stage \in [Calls -> Stages]
  /\ tries \in [Calls -> 0..MaxRetries]
  /\ seen \in [Calls -> Seq(Outcomes)]
  /\ entry \in [Calls -> Row]

\* Calls that went on from the search have a hit, and nothing that made them stumble.
Chain(c) ==
  /\ pc[c] \notin {"idle", "done"} /\ stage[c] = "search" => seen[c] = <<>>
  /\ pc[c] \notin {"idle", "done"} /\ stage[c] # "search" =>
       /\ Len(seen[c]) > 0 /\ seen[c][1] = "hit"
       /\ \A i \in DOMAIN seen[c] : seen[c][i] # "malformed"

Stumbled(c) == \E i \in DOMAIN seen[c] : seen[c][i] = "malformed"

\* What a call that is over tells.
Result(c) ==
  pc[c] = "done" =>
    /\ entry[c].error = TRUE <=> seen[c][1] = "error" \/ Stumbled(c)
    /\ seen[c][1] \in {"hit", "bare"} => entry[c].found = TRUE \/ Stumbled(c)

Results == \A c \in Calls : Chain(c) /\ Result(c)

Lock == LockTypes /\ LockAccounting

IInv == Lock /\ CallTypes /\ Results

-----------------------------------------------------------------------------
LEMMA Rows ==
  /\ Failed \in Row /\ Failed.found = FALSE /\ Failed.error = TRUE
  /\ Miss \in Row /\ Miss.found = FALSE /\ Miss.error = FALSE
  /\ \A a, l \in BOOLEAN :
       Hit(a, l) \in Row /\ Hit(a, l).found = TRUE /\ Hit(a, l).error = FALSE
BY DEF Failed, Miss, Hit, Row

LEMMA LockInit == Init => Lock
BY GapAssumption, CallsAssumption DEF Init, Lock, LockTypes, LockAccounting, PcTypes

\* Whoever asks for the lock gets it, or a place in its queue, or does not need it.
LEMMA KnockKeeps ==
  ASSUME Lock, NEW c \in Calls, pc[c] \in {"idle", "done", "wire"}, Knock(c)
  PROVE  /\ Lock'
         /\ pc'[c] \in {"queued", "napping", "due"}
         /\ pc' = [pc EXCEPT ![c] = pc'[c]]
         /\ pc'[c] = "due" => since >= Gap
<1>0. /\ holder \in Calls \cup {Nobody} /\ queue \in Seq(Calls) /\ Nobody \notin Calls
      /\ nap \in 0..Gap /\ since \in 0..Gap /\ Gap \in Nat
      /\ pc \in [Calls -> PcTypes]
  BY GapAssumption, CallsAssumption DEF Lock, LockTypes
<1>1. CASE holder # Nobody /\ queue' = Append(queue, c) /\ pc' = [pc EXCEPT ![c] = "queued"]
           /\ UNCHANGED <<holder, nap, since>>
  <2>1. LockTypes'
    BY <1>0, <1>1 DEF LockTypes, PcTypes
  <2>2. \A i \in DOMAIN queue : queue[i] # c
    BY <1>0 DEF Lock, LockAccounting
  <2>3. /\ DOMAIN queue' = 1..(Len(queue) + 1) /\ DOMAIN queue = 1..Len(queue)
        /\ Len(queue) \in Nat
        /\ \A i \in DOMAIN queue : queue'[i] = queue[i]
        /\ queue'[Len(queue) + 1] = c
    BY <1>0, <1>1
  <2>4. \A i, j \in DOMAIN queue' : queue'[i] = queue'[j] => i = j
    BY <2>2, <2>3 DEF Lock, LockAccounting
  <2>5. \A d \in Calls : pc'[d] = "queued" <=> \E i \in DOMAIN queue' : queue'[i] = d
    <3> SUFFICES ASSUME NEW d \in Calls
                 PROVE  pc'[d] = "queued" <=> \E i \in DOMAIN queue' : queue'[i] = d
      OBVIOUS
    <3>1. CASE d = c
      BY <3>1, <2>3, <1>0, <1>1
    <3>2. CASE d # c
      <4>1. pc'[d] = pc[d]
        BY <3>2, <1>0, <1>1
      <4>2. (\E i \in DOMAIN queue' : queue'[i] = d) <=> (\E i \in DOMAIN queue : queue[i] = d)
        BY <3>2, <2>3
      <4> QED BY <4>1, <4>2 DEF Lock, LockAccounting
    <3> QED BY <3>1, <3>2
  <2>6. \A d \in Calls : pc'[d] = "napping" <=> holder' = d
    BY <1>0, <1>1 DEF Lock, LockAccounting
  <2>7. LockAccounting'
    BY <2>4, <2>5, <2>6, <1>1 DEF Lock, LockAccounting
  <2> QED BY <1>0, <1>1, <2>1, <2>7 DEF Lock
<1>2. CASE holder = Nobody /\ since < Gap /\ holder' = c /\ nap' = Gap - since
           /\ pc' = [pc EXCEPT ![c] = "napping"] /\ UNCHANGED <<queue, since>>
  <2>1. LockTypes'
    BY <1>0, <1>2 DEF LockTypes, PcTypes
  <2>2. LockAccounting'
    BY <1>0, <1>2 DEF Lock, LockAccounting
  <2> QED BY <1>0, <1>2, <2>1, <2>2 DEF Lock
<1>3. CASE holder = Nobody /\ since >= Gap /\ since' = 0 /\ pc' = [pc EXCEPT ![c] = "due"]
           /\ UNCHANGED <<holder, queue, nap>>
  <2>1. LockTypes'
    BY <1>0, <1>3 DEF LockTypes, PcTypes
  <2>2. LockAccounting'
    BY <1>0, <1>3 DEF Lock, LockAccounting
  <2> QED BY <1>0, <1>3, <2>1, <2>2 DEF Lock
<1> QED BY <1>1, <1>2, <1>3 DEF Knock

\* The lock is passed on to the first in the queue, who sleeps for the whole gap.
LEMMA LetGoKeeps ==
  ASSUME Lock, NEW c \in Calls, LetGo(c)
  PROVE  /\ Lock' /\ since >= Gap
         /\ \A d \in Calls : pc'[d] # pc[d] => pc[d] \in {"napping", "queued"}
                                               /\ pc'[d] \in {"due", "napping"}
<1>0. /\ holder \in Calls \cup {Nobody} /\ queue \in Seq(Calls) /\ Nobody \notin Calls
      /\ nap \in 0..Gap /\ since \in 0..Gap /\ Gap \in Nat
      /\ pc \in [Calls -> PcTypes] /\ pc[c] = "napping" /\ nap = 0 /\ since' = 0
  BY GapAssumption, CallsAssumption DEF Lock, LockTypes, LetGo
<1>1. holder = c /\ since >= Gap
  BY <1>0 DEF Lock, LockAccounting
<1>2. CASE queue = <<>> /\ holder' = Nobody /\ pc' = [pc EXCEPT ![c] = "due"]
           /\ UNCHANGED <<queue, nap>>
  <2>1. LockTypes'
    BY <1>0, <1>2 DEF LockTypes, PcTypes
  <2>2. LockAccounting'
    BY <1>0, <1>1, <1>2 DEF Lock, LockAccounting
  <2> QED BY <1>0, <1>1, <1>2, <2>1, <2>2 DEF Lock
<1>3. CASE /\ queue # <<>> /\ holder' = Head(queue) /\ queue' = Tail(queue) /\ nap' = Gap
           /\ pc' = [pc EXCEPT ![c] = "due", ![Head(queue)] = "napping"]
  <2> DEFINE h == Head(queue)
  <2>1. /\ h \in Calls /\ h = queue[1] /\ Len(queue) \in Nat /\ Len(queue) > 0
        /\ DOMAIN queue = 1..Len(queue) /\ DOMAIN queue' = 1..(Len(queue) - 1)
        /\ queue' \in Seq(Calls)
        /\ \A i \in DOMAIN queue' : queue'[i] = queue[i + 1]
    BY <1>0, <1>3
  <2>2. pc[h] = "queued"
    BY <2>1 DEF Lock, LockAccounting
  <2>3. h # c
    BY <1>0, <2>2
  <2> HIDE DEF h
  <2>4. pc' = [pc EXCEPT ![c] = "due", ![h] = "napping"] /\ holder' = h
    BY <1>3 DEF h
  <2>5. /\ pc'[c] = "due" /\ pc'[h] = "napping"
        /\ \A d \in Calls \ {c, h} : pc'[d] = pc[d]
    BY <1>0, <2>1, <2>3, <2>4
  <2>6. LockTypes'
    BY <1>0, <1>3, <2>1, <2>4 DEF LockTypes, PcTypes
  <2>7. \A d \in Calls : pc'[d] = "napping" <=> holder' = d
    BY <1>0, <1>1, <2>4, <2>5 DEF Lock, LockAccounting
  <2>8. \A i, j \in DOMAIN queue' : queue'[i] = queue'[j] => i = j
    <3> SUFFICES ASSUME NEW i \in DOMAIN queue', NEW j \in DOMAIN queue', queue'[i] = queue'[j]
                 PROVE  i = j
      OBVIOUS
    <3>1. i + 1 \in DOMAIN queue /\ j + 1 \in DOMAIN queue /\ i \in Nat /\ j \in Nat
      BY <2>1
    <3>2. i + 1 = j + 1
      BY <3>1, <2>1 DEF Lock, LockAccounting
    <3> QED BY <3>1, <3>2
  <2>9. \A d \in Calls : pc'[d] = "queued" <=> \E i \in DOMAIN queue' : queue'[i] = d
    <3> SUFFICES ASSUME NEW d \in Calls
                 PROVE  pc'[d] = "queued" <=> \E i \in DOMAIN queue' : queue'[i] = d
      OBVIOUS
    <3>1. ASSUME pc'[d] = "queued" PROVE \E i \in DOMAIN queue' : queue'[i] = d
      <4>1. pc[d] = "queued" /\ d # h
        BY <3>1, <2>5
      <4>2. PICK i \in DOMAIN queue : queue[i] = d
        BY <4>1 DEF Lock, LockAccounting
      <4>3. i # 1
        BY <4>1, <4>2, <2>1
      <4>4. i - 1 \in DOMAIN queue' /\ queue'[i - 1] = queue[i]
        BY <4>3, <2>1
      <4> QED BY <4>2, <4>4
    <3>2. ASSUME NEW i \in DOMAIN queue', queue'[i] = d PROVE pc'[d] = "queued"
      <4>1. i + 1 \in DOMAIN queue /\ queue[i + 1] = d /\ i + 1 # 1 /\ 1 \in DOMAIN queue
        BY <3>2, <2>1
      <4>2. d # h
        BY <4>1, <2>1 DEF Lock, LockAccounting
      <4>3. pc[d] = "queued"
        BY <4>1 DEF Lock, LockAccounting
      <4> QED BY <4>2, <4>3, <2>5, <1>0
    <3> QED BY <3>1, <3>2
  <2>10. holder' # Nobody /\ nap' + since' >= Gap
    BY <1>0, <1>3, <2>1, <2>4
  <2>11. LockAccounting'
    BY <2>7, <2>8, <2>9, <2>10 DEF LockAccounting
  <2> QED BY <1>0, <1>1, <2>2, <2>5, <2>6, <2>11 DEF Lock
<1> QED BY <1>2, <1>3 DEF LetGo

\* What the passing on of the lock does to a call.
LEMMA LetGoAdmits ==
  ASSUME Lock, NEW c \in Calls, LetGo(c), NEW d \in Calls
  PROVE  \/ pc'[d] = pc[d]
         \/ pc[d] = "napping" /\ pc'[d] = "due"
         \/ pc[d] = "queued" /\ pc'[d] = "napping"
<1>0. pc \in [Calls -> PcTypes] /\ pc[c] = "napping" /\ queue \in Seq(Calls)
  BY DEF Lock, LockTypes, LetGo
<1>1. CASE queue = <<>>
  BY <1>0, <1>1 DEF LetGo
<1>2. CASE queue # <<>>
  <2>1. Head(queue) = queue[1] /\ 1 \in DOMAIN queue /\ Head(queue) \in Calls
    BY <1>0, <1>2
  <2>2. pc[Head(queue)] = "queued"
    BY <2>1 DEF Lock, LockAccounting
  <2>3. pc' = [pc EXCEPT ![c] = "due", ![Head(queue)] = "napping"]
    BY <1>2 DEF LetGo
  <2> QED BY <1>0, <2>1, <2>2, <2>3
<1> QED BY <1>1, <1>2

\* A call that moves without the lock.
LEMMA MoveKeeps ==
  ASSUME Lock, NEW c \in Calls, pc[c] \in {"due", "wire"}, NEW p \in {"due", "wire", "done"},
         pc' = [pc EXCEPT ![c] = p], UNCHANGED throttle
  PROVE  Lock'
<1>1. UNCHANGED <<holder, queue, nap, since>>
  BY DEF throttle
<1>2. LockTypes'
  BY <1>1 DEF Lock, LockTypes, PcTypes
<1>3. LockAccounting'
  BY <1>1 DEF Lock, LockTypes, LockAccounting
<1> QED BY <1>2, <1>3 DEF Lock

LEMMA TickKeeps == ASSUME Lock, Tick PROVE Lock'
<1>0. /\ nap \in 0..Gap /\ since \in 0..Gap /\ Gap \in Nat
      /\ since' = IF since < Gap THEN since + 1 ELSE Gap
      /\ nap' = IF nap > 0 THEN nap - 1 ELSE 0
      /\ UNCHANGED <<holder, queue, pc>>
  BY GapAssumption DEF Lock, LockTypes, Tick, Older
<1>1. nap' \in 0..Gap /\ since' \in 0..Gap /\ (nap + since >= Gap => nap' + since' >= Gap)
  BY <1>0
<1>2. LockTypes'
  BY <1>0, <1>1 DEF Lock, LockTypes
<1>3. LockAccounting'
  BY <1>0, <1>1 DEF Lock, LockAccounting
<1> QED BY <1>2, <1>3 DEF Lock

-----------------------------------------------------------------------------
\* What the row of a call tells of the GET that ended it.
Told(c, o, x) ==
  /\ x.error = TRUE <=> (stage[c] = "search" /\ o = "error") \/ o = "malformed"
  /\ stage[c] # "search" \/ o \in {"hit", "bare"} => x.found = TRUE \/ o = "malformed"

\* The call ends with a row that is true to its last GET.
Ends(c, o) == \E x \in Row : Return(c, x) /\ Told(c, o, x)

\* The GETs that can follow one of stage s.
Later(s) == IF s = "search" THEN {"detail", "release"}
            ELSE IF s = "detail" THEN {"release"} ELSE {}

\* The chain goes on with a hit in hand.
GoesOn(c, o) ==
  /\ \E s \in Later(stage[c]) : Go(c, s)
  /\ o # "malformed" /\ (stage[c] = "search" => o = "hit")

LEMMA FailedTold ==
  ASSUME NEW c, NEW o, o = "malformed" \/ (stage[c] = "search" /\ o = "error"),
         Return(c, Failed)
  PROVE  Ends(c, o)
<1>1. Failed \in Row /\ Failed.found = FALSE /\ Failed.error = TRUE
  BY Rows, Zenon
<1> DEFINE x == Failed
<1> HIDE DEF x
<1>2. x \in Row /\ x.found = FALSE /\ x.error = TRUE /\ Return(c, x)
  BY <1>1, Zenon DEF x
<1>3. Told(c, o, x)
  BY <1>2 DEF Told
<1> QED BY <1>2, <1>3, Zenon DEF Ends

LEMMA HitTold ==
  ASSUME NEW c, NEW o, o # "malformed", stage[c] # "search" \/ o # "error",
         NEW a \in BOOLEAN, NEW l \in BOOLEAN, Return(c, Hit(a, l))
  PROVE  Ends(c, o)
<1>1. Hit(a, l) \in Row /\ Hit(a, l).found = TRUE /\ Hit(a, l).error = FALSE
  BY Rows, Zenon
<1> DEFINE x == Hit(a, l)
<1> HIDE DEF x
<1>2. x \in Row /\ x.found = TRUE /\ x.error = FALSE /\ Return(c, x)
  BY <1>1, Zenon DEF x
<1>3. Told(c, o, x)
  BY <1>2 DEF Told
<1> QED BY <1>2, <1>3, Zenon DEF Ends

LEMMA SearchLands ==
  ASSUME NEW c, NEW o, Searched(c, o)
  PROVE  Ends(c, o) \/ GoesOn(c, o)
<1>1. stage[c] = "search"
  BY Zenon DEF Searched
<1>2. CASE o \in {"error", "malformed"} /\ Return(c, Failed)
  BY <1>1, <1>2, FailedTold, Zenon
<1>3. CASE o = "empty" /\ Return(c, Miss)
  <2>1. Miss \in Row /\ Miss.error = FALSE
    BY Rows, Zenon
  <2> DEFINE x == Miss
  <2> HIDE DEF x
  <2>2. x \in Row /\ x.error = FALSE /\ Return(c, x)
    BY <2>1, <1>3, Zenon DEF x
  <2>3. o = "empty"
    BY <1>3, Zenon
  <2>4. Told(c, o, x)
    BY <2>2, <2>3, <1>1 DEF Told
  <2> QED BY <2>2, <2>4, Zenon DEF Ends
<1>4. CASE /\ o = "bare"
           /\ \E album \in IF kind[c] = "upc" THEN BOOLEAN ELSE {FALSE} :
                Return(c, Hit(album, FALSE))
  <2>1. PICK album \in IF kind[c] = "upc" THEN BOOLEAN ELSE {FALSE} :
          Return(c, Hit(album, FALSE))
    BY <1>4, Zenon
  <2>2. album \in BOOLEAN
    OBVIOUS
  <2>3. o = "bare"
    BY <1>4, Zenon
  <2>4. o # "malformed" /\ o # "error"
    BY <2>3
  <2> QED BY <2>1, <2>2, <2>4, HitTold, Zenon
<1>5. CASE o = "hit" /\ Go(c, IF kind[c] = "isrc" THEN "detail" ELSE "release")
  <2>1. o = "hit"
    BY <1>5, Zenon
  <2>2. o # "malformed"
    BY <2>1
  <2>3. \E s \in Later(stage[c]) : Go(c, s)
    <3>0. "detail" \in Later(stage[c]) /\ "release" \in Later(stage[c])
      BY <1>1 DEF Later
    <3>1. CASE kind[c] = "isrc"
      BY <3>0, <3>1, <1>5, Zenon
    <3>2. CASE kind[c] # "isrc"
      BY <3>0, <3>2, <1>5, Zenon
    <3> QED BY <3>1, <3>2
  <2> QED BY <2>1, <2>2, <2>3, Zenon DEF GoesOn
<1> QED BY <1>2, <1>3, <1>4, <1>5, Zenon DEF Searched

LEMMA DetailLands ==
  ASSUME NEW c, NEW o, Detailed(c, o)
  PROVE  Ends(c, o) \/ GoesOn(c, o)
<1>1. stage[c] = "detail"
  BY Zenon DEF Detailed
<1>2. stage[c] # "search"
  BY <1>1
<1>3. CASE o = "malformed" /\ Return(c, Failed)
  BY <1>3, FailedTold, Zenon
<1>4. CASE o \in {"error", "unpicked"} /\ Return(c, Hit(FALSE, FALSE))
  <2>1. o \in {"error", "unpicked"}
    BY <1>4, Zenon
  <2>2. o # "malformed"
    BY <2>1
  <2>3. FALSE \in BOOLEAN
    OBVIOUS
  <2> QED BY <1>2, <1>4, <2>2, <2>3, HitTold, Zenon
<1>5. CASE /\ o = "picked"
           /\ \E r \in Picks :
                \/ r.known /\ Go(c, "release")
                \/ ~ r.known /\ Return(c, Hit(r.titled, FALSE))
  <2>1. o = "picked"
    BY <1>5, Zenon
  <2>2. o # "malformed"
    BY <2>1
  <2>3. PICK r \in Picks : \/ r.known /\ Go(c, "release")
                           \/ ~ r.known /\ Return(c, Hit(r.titled, FALSE))
    BY <1>5, Zenon
  <2>4. r.titled \in BOOLEAN /\ FALSE \in BOOLEAN
    BY ListedAssumption, Zenon DEF Picks
  <2>5. CASE Go(c, "release")
    <3>1. "release" \in Later(stage[c])
      BY <1>1 DEF Later
    <3> QED BY <3>1, <2>5, <2>2, <1>2, Zenon DEF GoesOn
  <2>6. CASE Return(c, Hit(r.titled, FALSE))
    BY <2>6, <2>4, <2>2, <1>2, HitTold, Zenon
  <2> QED BY <2>3, <2>5, <2>6, Zenon
<1> QED BY <1>3, <1>4, <1>5, Zenon DEF Detailed

LEMMA ReleaseLands ==
  ASSUME NEW c, NEW o, Released(c, o)
  PROVE  Ends(c, o)
<1>1. stage[c] = "release"
  BY Zenon DEF Released
<1>2. stage[c] # "search"
  BY <1>1
<1>3. CASE o = "malformed" /\ Return(c, Failed)
  BY <1>3, FailedTold, Zenon
<1>4. CASE o # "malformed" /\ \E album \in BOOLEAN : Return(c, Hit(album, o = "label"))
  <2>1. PICK album \in BOOLEAN : Return(c, Hit(album, o = "label"))
    BY <1>4, Zenon
  <2>2. (o = "label") \in BOOLEAN
    OBVIOUS
  <2> QED BY <2>1, <2>2, <1>2, <1>4, HitTold, Zenon
<1> QED BY <1>3, <1>4, Zenon DEF Released

LEMMA LandCases ==
  ASSUME NEW c, NEW o, Land(c, o)
  PROVE  Ends(c, o) \/ GoesOn(c, o)
BY SearchLands, DetailLands, ReleaseLands, Zenon DEF Land

-----------------------------------------------------------------------------
\* The outcomes of a call once another one is noted.
LEMMA Noted ==
  ASSUME CallTypes, NEW c \in Calls, Chain(c), pc[c] = "wire", NEW o \in Outcomes,
         seen' = [seen EXCEPT ![c] = Append(@, o)]
  PROVE  /\ seen' \in [Calls -> Seq(Outcomes)]
         /\ \A d \in Calls \ {c} : seen'[d] = seen[d]
         /\ Len(seen'[c]) > 0
         /\ seen'[c][1] = IF stage[c] = "search" THEN o ELSE "hit"
         /\ (\E i \in DOMAIN seen'[c] : seen'[c][i] = "malformed") <=> o = "malformed"
<1>1. seen \in [Calls -> Seq(Outcomes)] /\ seen[c] \in Seq(Outcomes)
  BY DEF CallTypes
<1> DEFINE s == seen[c]
           t == seen'[c]
<1>2. t = Append(s, o) /\ s \in Seq(Outcomes)
  BY <1>1
<1>3. \/ stage[c] = "search" /\ s = <<>>
      \/ /\ stage[c] # "search" /\ Len(s) > 0 /\ s[1] = "hit"
         /\ \A i \in DOMAIN s : s[i] # "malformed"
  BY DEF Chain
<1> HIDE DEF s, t
<1>4. /\ Len(s) \in Nat /\ DOMAIN s = 1..Len(s) /\ DOMAIN t = 1..(Len(s) + 1)
      /\ t[Len(s) + 1] = o /\ \A i \in DOMAIN s : t[i] = s[i]
      /\ Len(t) = Len(s) + 1
  BY <1>2
<1>5. /\ Len(t) > 0 /\ t[1] = IF stage[c] = "search" THEN o ELSE "hit"
      /\ (\E i \in DOMAIN t : t[i] = "malformed") <=> o = "malformed"
  <2>1. CASE stage[c] = "search" /\ s = <<>>
    BY <2>1, <1>4
  <2>2. CASE /\ stage[c] # "search" /\ Len(s) > 0 /\ s[1] = "hit"
             /\ \A i \in DOMAIN s : s[i] # "malformed"
    BY <2>2, <1>4
  <2> QED BY <1>3, <2>1, <2>2
<1>6. seen' \in [Calls -> Seq(Outcomes)] /\ \A d \in Calls \ {c} : seen'[d] = seen[d]
  BY <1>1
<1> QED BY <1>5, <1>6 DEF t

\* A call whose last GET ended leaves a true row behind.
LEMMA EndsKeeps ==
  ASSUME IInv, NEW c \in Calls, pc[c] = "wire", NEW o \in Outcomes, Ends(c, o),
         seen' = [seen EXCEPT ![c] = Append(@, o)], UNCHANGED <<quiet, kind>>
  PROVE  IInv'
<1>0. CallTypes /\ Chain(c) /\ Lock
  BY DEF IInv, Results
<1>1. PICK x \in Row : Return(c, x) /\ Told(c, o, x)
  BY DEF Ends
<1>2. /\ entry' = [entry EXCEPT ![c] = x] /\ pc' = [pc EXCEPT ![c] = "done"]
      /\ UNCHANGED throttle /\ stage' = stage /\ tries' = tries
  BY <1>1 DEF Return
<1>3. Lock'
  BY <1>0, <1>2, MoveKeeps
<1>4. /\ seen' \in [Calls -> Seq(Outcomes)]
      /\ \A d \in Calls \ {c} : seen'[d] = seen[d]
      /\ Len(seen'[c]) > 0
      /\ seen'[c][1] = IF stage[c] = "search" THEN o ELSE "hit"
      /\ (\E i \in DOMAIN seen'[c] : seen'[c][i] = "malformed") <=> o = "malformed"
  BY <1>0, Noted
<1>5. CallTypes'
  BY <1>0, <1>2, <1>4 DEF CallTypes
<1>6. /\ pc'[c] = "done" /\ entry'[c] = x
      /\ \A d \in Calls \ {c} : pc'[d] = pc[d] /\ entry'[d] = entry[d]
  BY <1>0, <1>2 DEF Lock, LockTypes, CallTypes
<1>7. ASSUME NEW d \in Calls PROVE Chain(d)' /\ Result(d)'
  <2>1. CASE d = c
    <3>1. Chain(d)'
      BY <2>1, <1>6 DEF Chain
    <3>2. Result(d)'
      BY <2>1, <1>1, <1>4, <1>6 DEF Result, Stumbled, Told
    <3> QED BY <3>1, <3>2
  <2>2. CASE d # c
    BY <2>2, <1>2, <1>4, <1>6 DEF IInv, Results, Chain, Result, Stumbled
  <2> QED BY <2>1, <2>2
<1> QED BY <1>3, <1>5, <1>7 DEF IInv, Results

\* A chain that goes on past the throttle still has its hit.
LEMMA GoesOnKeeps ==
  ASSUME IInv, NEW c \in Calls, pc[c] = "wire", NEW o \in Outcomes, GoesOn(c, o),
         seen' = [seen EXCEPT ![c] = Append(@, o)], UNCHANGED <<quiet, kind>>
  PROVE  IInv'
<1>0. CallTypes /\ Chain(c) /\ Lock /\ MaxRetries \in Nat
  BY GapAssumption DEF IInv, Results
<1>1. PICK s \in {"detail", "release"} : Go(c, s)
  <2>1. Later(stage[c]) \subseteq {"detail", "release"}
    BY DEF Later
  <2> QED BY <2>1, Zenon DEF GoesOn
<1>2. /\ stage' = [stage EXCEPT ![c] = s] /\ tries' = [tries EXCEPT ![c] = 0]
      /\ Knock(c) /\ entry' = entry
  BY <1>1 DEF Go
<1>3. /\ Lock' /\ pc'[c] \in {"queued", "napping", "due"}
      /\ pc' = [pc EXCEPT ![c] = pc'[c]]
  BY <1>0, <1>2, KnockKeeps
<1>4. /\ seen' \in [Calls -> Seq(Outcomes)]
      /\ \A d \in Calls \ {c} : seen'[d] = seen[d]
      /\ Len(seen'[c]) > 0
      /\ seen'[c][1] = IF stage[c] = "search" THEN o ELSE "hit"
      /\ (\E i \in DOMAIN seen'[c] : seen'[c][i] = "malformed") <=> o = "malformed"
  BY <1>0, Noted
<1>5. CallTypes'
  BY <1>0, <1>2, <1>4 DEF CallTypes, Stages
<1>6. /\ stage'[c] = s
      /\ \A d \in Calls \ {c} : pc'[d] = pc[d] /\ stage'[d] = stage[d]
  BY <1>0, <1>2, <1>3 DEF Lock, LockTypes, CallTypes
<1>7. ASSUME NEW d \in Calls PROVE Chain(d)' /\ Result(d)'
  <2>1. CASE d = c
    <3>1. seen'[c][1] = "hit" /\ \A i \in DOMAIN seen'[c] : seen'[c][i] # "malformed"
      BY <1>4 DEF GoesOn
    <3>2. Chain(d)'
      BY <2>1, <1>4, <1>6, <3>1 DEF Chain
    <3>3. Result(d)'
      BY <2>1, <1>3 DEF Result
    <3> QED BY <3>2, <3>3
  <2>2. CASE d # c
    BY <2>2, <1>2, <1>4, <1>6 DEF IInv, Results, Chain, Result, Stumbled
  <2> QED BY <2>1, <2>2
<1> QED BY <1>3, <1>5, <1>7 DEF IInv, Results

LEMMA LandKeeps ==
  ASSUME IInv, NEW c \in Calls, NEW o \in Outcomes, Land(c, o)
  PROVE  IInv'
<1>1. /\ pc[c] = "wire" /\ seen' = [seen EXCEPT ![c] = Append(@, o)]
      /\ UNCHANGED <<quiet, kind>>
  BY Zenon DEF Land
<1>2. Ends(c, o) \/ GoesOn(c, o)
  BY LandCases
<1> QED BY <1>1, <1>2, EndsKeeps, GoesOnKeeps, Zenon

\* A call that starts anew, whatever it left behind.
LEMMA CallKeeps == ASSUME IInv, NEW c \in Calls, Call(c) PROVE IInv'
<1>0. CallTypes /\ Lock /\ MaxRetries \in Nat
  BY GapAssumption DEF IInv
<1>1. /\ pc[c] \in {"idle", "done"} /\ Knock(c)
      /\ stage' = [stage EXCEPT ![c] = "search"] /\ tries' = [tries EXCEPT ![c] = 0]
      /\ seen' = [seen EXCEPT ![c] = <<>>] /\ entry' = [entry EXCEPT ![c] = Miss]
      /\ quiet' = quiet /\ kind' = kind
  BY Zenon DEF Call
<1>2. /\ Lock' /\ pc'[c] \in {"queued", "napping", "due"}
      /\ pc' = [pc EXCEPT ![c] = pc'[c]]
  BY <1>0, <1>1, KnockKeeps
<1>3. Miss \in Row
  BY Rows, Zenon
<1>4. entry' \in [Calls -> Row]
  BY <1>0, <1>1, <1>3, Zenon DEF CallTypes
<1>5. CallTypes'
  BY <1>0, <1>1, <1>4 DEF CallTypes, Stages
<1>6. entry \in [Calls -> Row] /\ \A d \in Calls \ {c} : entry'[d] = entry[d]
  BY <1>0, <1>1, Zenon DEF CallTypes
<1>7. /\ stage'[c] = "search" /\ seen'[c] = <<>>
      /\ \A d \in Calls \ {c} : pc'[d] = pc[d] /\ stage'[d] = stage[d] /\ seen'[d] = seen[d]
  BY <1>0, <1>1, <1>2 DEF Lock, LockTypes, CallTypes
<1>8. ASSUME NEW d \in Calls PROVE Chain(d)' /\ Result(d)'
  <2>1. CASE d = c
    BY <2>1, <1>2, <1>7 DEF Chain, Result
  <2>2. CASE d # c
    BY <2>2, <1>6, <1>7 DEF IInv, Results, Chain, Result, Stumbled
  <2> QED BY <2>1, <2>2
<1> QED BY <1>2, <1>5, <1>8 DEF IInv, Results

\* A call that only gets nearer to its answer, or waits.
LEMMA StepKeeps ==
  ASSUME IInv, Lock', CallTypes', UNCHANGED <<stage, seen, entry>>,
         \A d \in Calls : pc'[d] # pc[d] => /\ pc[d] \notin {"idle", "done"}
                                            /\ pc'[d] \notin {"idle", "done"}
  PROVE  IInv'
<1>1. ASSUME NEW d \in Calls PROVE Chain(d)' /\ Result(d)'
  BY DEF IInv, Results, Chain, Result, Stumbled
<1> QED BY <1>1 DEF IInv, Results

LEMMA NextKeeps == IInv /\ [Next]_vars => IInv'
<1> SUFFICES ASSUME IInv, [Next]_vars PROVE IInv'
  OBVIOUS
<1>0. /\ CallTypes /\ Lock /\ MaxRetries \in Nat /\ Gap \in Nat
      /\ pc \in [Calls -> PcTypes] /\ quiet \in 0..Gap /\ tries \in [Calls -> 0..MaxRetries]
  BY GapAssumption DEF IInv, Lock, LockTypes, CallTypes
<1>1. CASE Tick
  <2>1. UNCHANGED <<pc, kind, stage, tries, seen, entry>> /\ quiet' \in 0..Gap
    BY <1>0, <1>1 DEF Tick, Older, call
  <2>2. Lock' /\ CallTypes'
    BY <1>0, <1>1, <2>1, TickKeeps DEF CallTypes
  <2> QED BY <2>1, <2>2, StepKeeps
<1>2. ASSUME NEW c \in Calls, Call(c) PROVE IInv'
  BY <1>2, CallKeeps
<1>3. ASSUME NEW c \in Calls, LetGo(c) PROVE IInv'
  <2>1. UNCHANGED <<quiet, kind, stage, tries, seen, entry>>
    BY <1>3 DEF LetGo, call
  <2>2. /\ Lock'
        /\ \A d \in Calls : pc'[d] # pc[d] => pc[d] \in {"napping", "queued"}
                                              /\ pc'[d] \in {"due", "napping"}
    BY <1>0, <1>3, LetGoKeeps
  <2>3. CallTypes'
    BY <1>0, <2>1 DEF CallTypes
  <2> QED BY <2>1, <2>2, <2>3, StepKeeps
<1>4. ASSUME NEW c \in Calls, Send(c) PROVE IInv'
  <2>1. /\ UNCHANGED <<kind, stage, tries, seen, entry>> /\ UNCHANGED throttle
        /\ quiet' = 0 /\ pc[c] = "due" /\ pc' = [pc EXCEPT ![c] = "wire"]
    BY <1>4 DEF Send, call
  <2>2. Lock'
    BY <1>0, <2>1, MoveKeeps
  <2>3. CallTypes'
    BY <1>0, <2>1 DEF CallTypes
  <2>4. \A d \in Calls : pc'[d] # pc[d] => d = c /\ pc'[c] = "wire"
    BY <1>0, <2>1
  <2> QED BY <2>1, <2>2, <2>3, <2>4, StepKeeps
<1>5. ASSUME NEW c \in Calls, Retry(c) PROVE IInv'
  <2>1. /\ UNCHANGED <<quiet, kind, stage, seen, entry>> /\ UNCHANGED throttle
        /\ tries[c] < MaxRetries /\ tries' = [tries EXCEPT ![c] = @ + 1]
        /\ pc[c] = "wire" /\ pc' = [pc EXCEPT ![c] = "due"]
    BY <1>5 DEF Retry
  <2>2. Lock'
    BY <1>0, <2>1, MoveKeeps
  <2>3. tries' \in [Calls -> 0..MaxRetries]
    BY <1>0, <2>1
  <2>4. CallTypes'
    BY <1>0, <2>1, <2>3 DEF CallTypes
  <2>5. \A d \in Calls : pc'[d] # pc[d] => d = c /\ pc'[c] = "due"
    BY <1>0, <2>1
  <2> QED BY <2>1, <2>2, <2>4, <2>5, StepKeeps
<1>6. ASSUME NEW c \in Calls, NEW o \in Outcomes, Land(c, o) PROVE IInv'
  BY <1>6, LandKeeps
<1>7. CASE UNCHANGED vars
  <2>1. UNCHANGED <<holder, queue, nap, since, quiet, pc, kind, stage, tries, seen, entry>>
    BY <1>7 DEF vars, throttle, call
  <2>2. Lock' /\ CallTypes'
    BY <1>0, <2>1 DEF Lock, LockTypes, LockAccounting, CallTypes
  <2> QED BY <2>1, <2>2, StepKeeps
<1> QED BY <1>1, <1>2, <1>3, <1>4, <1>5, <1>6, <1>7, Zenon DEF Next, Proceed

LEMMA InitGood == Init => IInv
<1> SUFFICES ASSUME Init PROVE IInv
  OBVIOUS
<1>1. Lock
  BY LockInit
<1>2. Miss \in Row
  BY Rows, Zenon
<1>3. entry \in [Calls -> Row]
  BY <1>2, Zenon DEF Init
<1>4. CallTypes
  BY <1>3, GapAssumption DEF Init, CallTypes, Stages
<1>5. \A c \in Calls : pc[c] = "idle"
  BY DEF Init
<1>6. Results
  BY <1>5 DEF Results, Chain, Result
<1> QED BY <1>1, <1>4, <1>6 DEF IInv

LEMMA Inductive == Spec => []IInv
BY InitGood, NextKeeps, PTL DEF Spec

-----------------------------------------------------------------------------
\* The state stays in its types; among them, no GET is retried more often than
\* MaxRetries, and the lock's sleep is never longer than the gap.
THEOREM TypeCorrect == Spec => []TypeOK
<1>1. IInv => TypeOK
  BY DEF IInv, Lock, LockTypes, CallTypes, TypeOK
<1> QED BY <1>1, Inductive, PTL

\* However many calls queue: the lock has one holder, who sleeps, or nobody waits
\* (musicbrainz.py:25-31).
THEOREM LockAccounted == Spec => []LockAccounting
<1>1. IInv => LockAccounting
  BY DEF IInv, Lock
<1> QED BY <1>1, Inductive, PTL

\* A call whose search found something returns a hit, if no JSON made it stumble
\* (musicbrainz.py:167-171, 202-206).
THEOREM HitsSurvive == Spec => []HitSurvives
<1>1. IInv => HitSurvives
  <2> SUFFICES ASSUME IInv, NEW c \in Calls, pc[c] = "done", seen[c][1] \in {"hit", "bare"}
               PROVE  entry[c].found \/ \E i \in DOMAIN seen[c] : seen[c][i] = "malformed"
    BY DEF HitSurvives
  <2>1. entry[c].found = TRUE \/ Stumbled(c)
    BY DEF IInv, Results, Result
  <2> QED BY <2>1, Zenon DEF Stumbled
<1> QED BY <1>1, Inductive, PTL

\* A row tells of an error just when the search failed or some JSON made the call
\* stumble (musicbrainz.py:53-74, 398-419).
THEOREM FailuresTold == Spec => []FailureIsNoMiss
<1>1. IInv => FailureIsNoMiss
  <2> SUFFICES ASSUME IInv, NEW c \in Calls, pc[c] = "done"
               PROVE  entry[c].error <=>
                        \/ seen[c][1] = "error"
                        \/ \E i \in DOMAIN seen[c] : seen[c][i] = "malformed"
    BY DEF FailureIsNoMiss
  <2>1. entry[c].error = TRUE <=> seen[c][1] = "error" \/ Stumbled(c)
    BY DEF IInv, Results, Result
  <2>2. entry[c].error \in BOOLEAN
    BY DEF IInv, CallTypes, Row
  <2> QED BY <2>1, <2>2, Zenon DEF Stumbled
<1> QED BY <1>1, Inductive, PTL

\* Whichever of any number of calls it is: a first attempt is let go only when Gap
\* has passed since the one before (musicbrainz.py:25-31).
THEOREM GetsSpaced == Spec => LetGoSpaced
<1> DEFINE Spaced == \A c \in Calls :
             pc[c] # "due" /\ pc'[c] = "due" /\ tries'[c] <= tries[c] => since >= Gap
<1>1. IInv /\ [Next]_vars => [Spaced]_vars
  <2> SUFFICES ASSUME IInv, Next, NEW c \in Calls, pc[c] # "due", pc'[c] = "due",
                      tries'[c] <= tries[c]
               PROVE  since >= Gap
    BY DEF vars
  <2>0. /\ Lock /\ pc \in [Calls -> PcTypes] /\ tries \in [Calls -> Int]
        /\ stage \in [Calls -> Stages]
    BY GapAssumption DEF IInv, Lock, LockTypes, CallTypes
  <2>1. CASE Tick
    BY <2>1 DEF Tick
  <2>2. ASSUME NEW d \in Calls, Call(d) PROVE since >= Gap
    <3>1. pc[d] \in {"idle", "done"} /\ Knock(d)
      BY <2>2, Zenon DEF Call
    <3>2. /\ pc' = [pc EXCEPT ![d] = pc'[d]] /\ (pc'[d] = "due" => since >= Gap)
      BY <2>0, <3>1, KnockKeeps
    <3> QED BY <2>0, <3>2
  <2>3. ASSUME NEW d \in Calls, LetGo(d) PROVE since >= Gap
    BY <2>0, <2>3, LetGoKeeps
  <2>4. ASSUME NEW d \in Calls, Send(d) PROVE FALSE
    BY <2>0, <2>4 DEF Send
  <2>5. ASSUME NEW d \in Calls, Retry(d) PROVE FALSE
    BY <2>0, <2>5 DEF Retry
  <2>6. ASSUME NEW d \in Calls, NEW o \in Outcomes, Land(d, o) PROVE since >= Gap
    <3>1. pc[d] = "wire"
      BY <2>6, Zenon DEF Land
    <3>2. Ends(d, o) \/ GoesOn(d, o)
      BY <2>6, LandCases
    <3>3. CASE Ends(d, o)
      <4>1. pc' = [pc EXCEPT ![d] = "done"]
        BY <3>3, Zenon DEF Ends, Return
      <4> QED BY <2>0, <4>1
    <3>4. CASE GoesOn(d, o)
      <4>1. Knock(d)
        BY <3>4, Zenon DEF GoesOn, Go
      <4>2. /\ pc' = [pc EXCEPT ![d] = pc'[d]] /\ (pc'[d] = "due" => since >= Gap)
        BY <2>0, <3>1, <4>1, KnockKeeps
      <4> QED BY <2>0, <4>2
    <3> QED BY <3>2, <3>3, <3>4
  <2> QED BY <2>1, <2>2, <2>3, <2>4, <2>5, <2>6, Zenon DEF Next, Proceed
<1> QED BY <1>1, Inductive, PTL DEF Spec, LetGoSpaced

-----------------------------------------------------------------------------
(***************************************************************************)
(* The release that is shown.                                              *)
(***************************************************************************)
LEMMA LeastElement ==
  ASSUME NEW S, S \subseteq Nat, S # {}
  PROVE  \E m \in S : \A n \in S : m <= n
<1>1. PICK m \in S : \A n \in S : ~ (<<n, m>> \in OpToRel(<, Nat))
  BY NatLessThanWellFounded, WFMin
<1>2. ASSUME NEW n \in S PROVE m <= n
  <2>1. n \in Nat /\ m \in Nat
    OBVIOUS
  <2>2. ~ (n < m)
    BY <1>1, <2>1 DEF OpToRel
  <2> QED BY <2>1, <2>2, SMT
<1> QED BY <1>2

\* Of some places in a list one has the head of their releases, sorted by rank: the
\* first of those with the least date among those with the least kind.
LEMMA HeadExists ==
  ASSUME NEW list \in Listings, NEW S, S \subseteq DOMAIN list, S # {}
  PROVE  \E i \in S : \A j \in S :
           ~ Before(list[j], list[i]) /\ (j < i => Before(list[i], list[j]))
<1>1. \A i \in S : i \in Nat /\ list[i].kind \in Nat /\ list[i].date \in Nat
  <2>1. PICK n \in 0..MaxListed : list \in [1..n -> Releases]
    BY DEF Listings
  <2>2. \A i \in S : i \in Nat /\ list[i] \in Releases
    BY <2>1
  <2> QED BY <2>2, ListedAssumption
<1>2. PICK a \in S : \A j \in S : list[a].kind <= list[j].kind
  <2> DEFINE K == {list[i].kind : i \in S}
  <2>1. K \subseteq Nat /\ K # {}
    BY <1>1
  <2>2. \E k \in K : \A n \in K : k <= n
    <3> HIDE DEF K
    <3> QED BY <2>1, LeastElement
  <2> QED BY <2>2
<1> DEFINE T == {i \in S : list[i].kind = list[a].kind}
<1>3. PICK b \in T : \A j \in T : list[b].date <= list[j].date
  <2> DEFINE D == {list[i].date : i \in T}
  <2>1. D \subseteq Nat /\ D # {}
    BY <1>1
  <2>2. \E d \in D : \A n \in D : d <= n
    <3> HIDE DEF D
    <3> QED BY <2>1, LeastElement
  <2> QED BY <2>2
<1> DEFINE U == {i \in T : list[i].date = list[b].date}
<1>4. PICK i \in U : \A j \in U : i <= j
  <2>1. U \subseteq Nat /\ U # {}
    BY <1>1
  <2>2. \E m \in U : \A n \in U : m <= n
    <3> HIDE DEF U
    <3> QED BY <2>1, LeastElement
  <2> QED BY <2>2
<1>5. ASSUME NEW j \in S
      PROVE  ~ Before(list[j], list[i]) /\ (j < i => Before(list[i], list[j]))
  <2>1. /\ list[i].kind <= list[j].kind
        /\ list[i].kind = list[j].kind => list[i].date <= list[j].date
        /\ list[i].kind = list[j].kind /\ list[i].date = list[j].date => i <= j
    BY <1>2, <1>3, <1>4
  <2>2. /\ i \in Nat /\ j \in Nat /\ list[i].kind \in Nat /\ list[j].kind \in Nat
        /\ list[i].date \in Nat /\ list[j].date \in Nat
    BY <1>1
  <2> QED BY <2>1, <2>2, SMT DEF Before
<1> QED BY <1>5

LEMMA FirstIsHead ==
  ASSUME NEW list \in Listings, NEW S, S \subseteq DOMAIN list, S # {}
  PROVE  \E i \in S : First(list, S) = list[i] /\ \A j \in S : ~ Before(list[j], list[i])
<1> DEFINE i == CHOOSE i \in S : \A j \in S :
                  ~ Before(list[j], list[i]) /\ (j < i => Before(list[i], list[j]))
<1>1. i \in S /\ \A j \in S : ~ Before(list[j], list[i]) /\ (j < i => Before(list[i], list[j]))
  BY HeadExists
<1>2. First(list, S) = list[i]
  BY DEF First
<1> QED BY <1>1, <1>2

\* For any releases, hints and length of the list: whatever the service lists, the
\* pick is the best there is (musicbrainz.py:335-378).
THEOREM PicksBest == BestOfAll
<1> SUFFICES ASSUME NEW list \in Listings, NEW hint \in Hints
             PROVE  LET r    == Pick(list, hint)
                        Able == {i \in DOMAIN list : Eligible(list[i])}
                        Own  == {i \in Able : Named(hint, list[i].credit)}
                    IN  /\ r = NoRelease <=> Able = {}
                        /\ r # NoRelease =>
                             \E i \in Able :
                               /\ r = list[i]
                               /\ Own # {} => i \in Own
                               /\ \A j \in Own : ~ Before(list[j], r)
                               /\ Own = {} => \A j \in Able : ~ Before(list[j], r)
  BY DEF BestOfAll
<1> DEFINE r    == Pick(list, hint)
           Able == {i \in DOMAIN list : Eligible(list[i])}
           Own  == {i \in Able : Named(hint, list[i].credit)}
           S    == Candidates(list, hint)
<1>1. S = (IF Own # {} THEN Own ELSE Able)
  BY DEF Candidates, Credited
<1>2. S \subseteq DOMAIN list /\ r = (IF S = {} THEN NoRelease ELSE First(list, S))
  BY <1>1 DEF Pick
<1>3. \A i \in DOMAIN list : list[i] # NoRelease
  BY ListedAssumption DEF Listings
<1>4. CASE S = {}
  BY <1>1, <1>2, <1>4
<1>5. CASE S # {}
  <2>1. PICK i \in S : r = list[i] /\ \A j \in S : ~ Before(list[j], list[i])
    <3> HIDE DEF S, r
    <3> QED BY <1>2, <1>5, FirstIsHead
  <2>2. /\ i \in DOMAIN list /\ i \in Able /\ r # NoRelease /\ Able # {}
        /\ Own # {} => i \in Own
        /\ \A j \in Own : ~ Before(list[j], r)
        /\ Own = {} => \A j \in Able : ~ Before(list[j], r)
    <3> HIDE DEF r, S
    <3> QED BY <1>1, <1>2, <1>3, <2>1
  <2> QED BY <2>1, <2>2
<1> QED BY <1>4, <1>5

\* So it is whenever a detail is awaited.
THEOREM PickAlwaysBest == Spec => []PickIsBest
<1>1. PickIsBest
  BY PicksBest DEF PickIsBest
<1> QED BY <1>1, PTL

-----------------------------------------------------------------------------
(***************************************************************************)
(* Why every call ends, as far as safety tells: each step of a call brings *)
(* it nearer to its end, and in the throttle nobody overtakes.             *)
(***************************************************************************)
\* More than the steps of one GET of the chain, retries included.
PerGet == 2 * MaxRetries + 5

GetsAhead(c) == CASE stage[c] = "search" -> PerGet + PerGet
                  [] stage[c] = "detail" -> PerGet
                  [] OTHER               -> 0

Place(c) == CASE pc[c] = "queued"  -> 4
              [] pc[c] = "napping" -> 3
              [] pc[c] = "due"     -> 2
              [] OTHER             -> 1

\* The steps c has before it, at most.
Left(c) == IF pc[c] \in {"idle", "done"} THEN 0
           ELSE GetsAhead(c) + 2 * (MaxRetries - tries[c]) + Place(c)

\* What is left of a call is a number, at most 3 * PerGet, and no state but the end
\* of it has nothing left.
LEMMA LeftNat ==
  ASSUME IInv, NEW c \in Calls
  PROVE  Left(c) \in 0..(3 * PerGet) /\ (Left(c) = 0 <=> pc[c] \in {"idle", "done"})
<1>1. tries[c] \in 0..MaxRetries /\ MaxRetries \in Nat
  BY GapAssumption DEF IInv, CallTypes
<1>2. PerGet = 2 * MaxRetries + 5
  BY DEF PerGet
<1>3. GetsAhead(c) \in {PerGet + PerGet, PerGet, 0} /\ Place(c) \in 1..4
  BY DEF GetsAhead, Place
<1>4. 2 * (MaxRetries - tries[c]) + Place(c) \in 1..PerGet
  BY <1>1, <1>2, <1>3, SMT
<1> QED BY <1>1, <1>2, <1>3, <1>4, SMT DEF Left

\* Each step a call takes, or is given with the lock, leaves less of it.
RunsDown ==
  [][\A c \in Calls : pc[c] \notin {"idle", "done"} =>
       Left(c)' < Left(c) \/ UNCHANGED <<pc[c], stage[c], tries[c]>>]_vars

LEMMA LandRunsDown ==
  ASSUME IInv, NEW c \in Calls, NEW o, Land(c, o)
  PROVE  Left(c)' < Left(c) /\ \A d \in Calls \ {c} : UNCHANGED <<pc[d], stage[d], tries[d]>>
<1>0. /\ CallTypes /\ Lock /\ MaxRetries \in Nat
      /\ pc \in [Calls -> PcTypes] /\ tries \in [Calls -> 0..MaxRetries]
      /\ stage \in [Calls -> Stages]
  BY GapAssumption DEF IInv, Lock, LockTypes, CallTypes
<1>1. pc[c] = "wire"
  BY Zenon DEF Land
<1>2. Left(c) = GetsAhead(c) + 2 * (MaxRetries - tries[c]) + 1
  BY <1>1 DEF Left, Place
<1>3. GetsAhead(c) \in {PerGet + PerGet, PerGet, 0} /\ PerGet = 2 * MaxRetries + 5
  BY DEF GetsAhead, PerGet
<1>4. CASE Ends(c, o)
  <2>1. pc' = [pc EXCEPT ![c] = "done"] /\ stage' = stage /\ tries' = tries
    BY <1>4, Zenon DEF Ends, Return
  <2>2. Left(c)' = 0
    BY <1>0, <2>1 DEF Left
  <2>3. Left(c) > 0
    BY <1>0, <1>2, <1>3, SMT
  <2> QED BY <1>0, <2>1, <2>2, <2>3
<1>5. CASE GoesOn(c, o)
  <2>1. PICK s \in Later(stage[c]) : Go(c, s)
    BY <1>5, Zenon DEF GoesOn
  <2>2. /\ stage' = [stage EXCEPT ![c] = s] /\ tries' = [tries EXCEPT ![c] = 0]
        /\ Knock(c)
    BY <2>1, Zenon DEF Go
  <2>3. /\ pc'[c] \in {"queued", "napping", "due"} /\ pc' = [pc EXCEPT ![c] = pc'[c]]
    BY <1>0, <1>1, <2>2, KnockKeeps
  <2>4. stage'[c] = s /\ tries'[c] = 0
    BY <1>0, <2>2
  <2>5. Left(c)' = GetsAhead(c)' + 2 * (MaxRetries - 0) + Place(c)' /\ Place(c)' \in 2..4
    BY <2>3, <2>4 DEF Left, Place
  <2>6. \/ GetsAhead(c) = PerGet + PerGet /\ GetsAhead(c)' \in {PerGet, 0}
        \/ GetsAhead(c) = PerGet /\ GetsAhead(c)' = 0
    <3>1. CASE stage[c] = "search"
      BY <2>1, <2>4, <3>1 DEF Later, GetsAhead
    <3>2. CASE stage[c] = "detail"
      BY <2>1, <2>4, <3>2 DEF Later, GetsAhead
    <3>3. CASE stage[c] = "release"
      BY <2>1, <3>3 DEF Later
    <3> QED BY <1>0, <3>1, <3>2, <3>3 DEF Stages
  <2>7. Left(c)' < Left(c)
    <3>1. tries[c] \in 0..MaxRetries
      BY <1>0
    <3> QED BY <1>0, <1>2, <1>3, <2>5, <2>6, <3>1, SMT
  <2> QED BY <1>0, <2>2, <2>3, <2>7
<1> QED BY <1>4, <1>5, LandCases

\* Whatever the service answers and however many calls queue, a call makes at most
\* 3 * PerGet steps, retries and waits included (musicbrainz.py:25-31, 53-206).
THEOREM CallsRunDown == Spec => RunsDown
<1> DEFINE Less(c) == Left(c)' < Left(c) \/ UNCHANGED <<pc[c], stage[c], tries[c]>>
<1>1. IInv /\ [Next]_vars => [\A c \in Calls : pc[c] \notin {"idle", "done"} => Less(c)]_vars
  <2> SUFFICES ASSUME IInv, Next, NEW c \in Calls, pc[c] \notin {"idle", "done"}
               PROVE  Less(c)
    OBVIOUS
  <2>0. /\ CallTypes /\ Lock /\ MaxRetries \in Nat
        /\ pc \in [Calls -> PcTypes] /\ tries \in [Calls -> 0..MaxRetries]
        /\ stage \in [Calls -> Stages]
        /\ GetsAhead(c) \in Nat
    <3>1. CallTypes /\ Lock
      BY DEF IInv, Lock
    <3>2. MaxRetries \in Nat
      BY GapAssumption
    <3>3. /\ pc \in [Calls -> PcTypes] /\ tries \in [Calls -> 0..MaxRetries]
          /\ stage \in [Calls -> Stages]
      BY <3>1 DEF CallTypes, Lock, LockTypes
    <3>4. GetsAhead(c) \in Nat
      BY <3>2, SMT DEF GetsAhead, PerGet
    <3>5. QED
      BY <3>1, <3>2, <3>3, <3>4
  <2>1. CASE Tick
    BY <2>1 DEF Tick, call
  <2>2. ASSUME NEW d \in Calls, Call(d) PROVE Less(c)
    <3>1. /\ pc[d] \in {"idle", "done"} /\ Knock(d) /\ d # c
          /\ stage' = [stage EXCEPT ![d] = "search"] /\ tries' = [tries EXCEPT ![d] = 0]
      BY <2>2, Zenon DEF Call
    <3>2. pc' = [pc EXCEPT ![d] = pc'[d]]
      BY <2>0, <3>1, KnockKeeps
    <3> QED BY <2>0, <3>1, <3>2
  <2>3. ASSUME NEW d \in Calls, LetGo(d) PROVE Less(c)
    <3> DEFINE k == GetsAhead(c) + 2 * (MaxRetries - tries[c])
    <3>1. UNCHANGED <<stage, tries>>
      BY <2>3 DEF LetGo, call
    <3>2. \/ pc'[c] = pc[c]
          \/ pc[c] = "napping" /\ pc'[c] = "due"
          \/ pc[c] = "queued" /\ pc'[c] = "napping"
      BY <2>0, <2>3, LetGoAdmits
    <3>3. k \in Int
      BY <2>0
    <3>4. /\ pc[c] = "napping" /\ pc'[c] = "due" => Left(c) = k + 3 /\ Left(c)' = k + 2
          /\ pc[c] = "queued" /\ pc'[c] = "napping" => Left(c) = k + 4 /\ Left(c)' = k + 3
      BY <3>1 DEF Left, Place, GetsAhead
    <3> HIDE DEF k
    <3> QED BY <3>1, <3>2, <3>3, <3>4, SMT
  <2>4. ASSUME NEW d \in Calls, Send(d) PROVE Less(c)
    <3>1. pc[d] = "due" /\ pc' = [pc EXCEPT ![d] = "wire"] /\ UNCHANGED <<stage, tries>>
      BY <2>4 DEF Send, call
    <3>2. CASE c = d
      <4> DEFINE k == GetsAhead(c) + 2 * (MaxRetries - tries[c])
      <4>1. Left(c) = k + 2 /\ Left(c)' = k + 1 /\ k \in Int
        BY <2>0, <3>1, <3>2 DEF Left, Place, GetsAhead
      <4> HIDE DEF k
      <4> QED BY <4>1, SMT
    <3> QED BY <2>0, <3>1, <3>2
  <2>5. ASSUME NEW d \in Calls, Retry(d) PROVE Less(c)
    <3>1. /\ pc[d] = "wire" /\ pc' = [pc EXCEPT ![d] = "due"] /\ UNCHANGED stage
          /\ tries[d] < MaxRetries /\ tries' = [tries EXCEPT ![d] = @ + 1]
      BY <2>5 DEF Retry
    <3>2. CASE c = d
      <4>1. tries'[c] = tries[c] + 1 /\ tries[c] \in Int /\ GetsAhead(c)' = GetsAhead(c)
        BY <2>0, <3>1, <3>2 DEF GetsAhead
      <4>2. /\ Left(c) = GetsAhead(c) + 2 * (MaxRetries - tries[c]) + 1
            /\ Left(c)' = GetsAhead(c) + 2 * (MaxRetries - (tries[c] + 1)) + 2
        BY <2>0, <3>1, <3>2, <4>1 DEF Left, Place
      <4> QED BY <2>0, <4>1, <4>2, SMT
    <3> QED BY <2>0, <3>1, <3>2
  <2>6. ASSUME NEW d \in Calls, NEW o \in Outcomes, Land(d, o) PROVE Less(c)
    <3>1. Left(d)' < Left(d) /\ \A e \in Calls \ {d} : UNCHANGED <<pc[e], stage[e], tries[e]>>
      BY <2>6, LandRunsDown
    <3> QED BY <3>1
  <2> QED BY <2>1, <2>2, <2>3, <2>4, <2>5, <2>6, Zenon DEF Next, Proceed
<1> QED BY <1>1, Inductive, PTL DEF Spec, RunsDown

\* A call in the queue of the lock keeps its place, or moves up by one, or was the
\* first and sleeps with the lock: no later one overtakes it.
FirstComeFirstServed ==
  [][\A i \in DOMAIN queue :
       \/ i \in DOMAIN queue' /\ queue'[i] = queue[i]
       \/ i = 1 /\ pc'[queue[i]] = "napping"
       \/ i - 1 \in DOMAIN queue' /\ queue'[i - 1] = queue[i]]_vars

\* Calls pass the throttle in the order they came to it, although a chain comes
\* back to it for each of its GETs (musicbrainz.py:25-31, 40, 151, 186, 381).
THEOREM NobodyOvertakes == Spec => FirstComeFirstServed
<1> DEFINE Kept == \A i \in DOMAIN queue :
             \/ i \in DOMAIN queue' /\ queue'[i] = queue[i]
             \/ i = 1 /\ pc'[queue[i]] = "napping"
             \/ i - 1 \in DOMAIN queue' /\ queue'[i - 1] = queue[i]
<1>1. IInv /\ [Next]_vars => [Kept]_vars
  <2> SUFFICES ASSUME IInv, Next PROVE Kept
    OBVIOUS
  <2>0. queue \in Seq(Calls) /\ Lock
    BY DEF IInv, Lock, LockTypes
  <2>1. CASE queue' = queue
    BY <2>1
  <2>2. ASSUME NEW c \in Calls, Knock(c) PROVE Kept
    <3>1. CASE queue' = Append(queue, c)
      BY <2>0, <3>1
    <3>2. CASE queue' = queue
      BY <3>2, <2>1
    <3> QED BY <2>2, <3>1, <3>2 DEF Knock
  <2>3. ASSUME NEW c \in Calls, LetGo(c) PROVE Kept
    <3>1. CASE queue = <<>>
      BY <3>1
    <3>2. CASE queue # <<>>
      <4>1. /\ queue' = Tail(queue) /\ Head(queue) = queue[1] /\ Head(queue) \in Calls
            /\ pc \in [Calls -> PcTypes]
            /\ pc' = [pc EXCEPT ![c] = "due", ![Head(queue)] = "napping"]
        BY <2>0, <2>3, <3>2 DEF LetGo, Lock, LockTypes
      <4>2. pc'[queue[1]] = "napping"
        BY <4>1
      <4>3. ASSUME NEW i \in DOMAIN queue, i # 1
            PROVE  i - 1 \in DOMAIN queue' /\ queue'[i - 1] = queue[i]
        BY <2>0, <3>2, <4>1, <4>3
      <4> QED BY <4>2, <4>3
    <3> QED BY <3>1, <3>2
  <2>4. ASSUME NEW c \in Calls, NEW o \in Outcomes, Land(c, o) PROVE Kept
    <3>1. CASE Ends(c, o)
      <4>1. queue' = queue
        BY <3>1, Zenon DEF Ends, Return, throttle
      <4> QED BY <4>1, <2>1
    <3>2. CASE GoesOn(c, o)
      <4>1. Knock(c)
        BY <3>2, Zenon DEF GoesOn, Go
      <4> QED BY <4>1, <2>2
    <3> QED BY <2>4, <3>1, <3>2, LandCases
  <2>5. ASSUME NEW c \in Calls, Call(c) PROVE Kept
    BY <2>2, <2>5, Zenon DEF Call
  <2>6. Tick \/ (\E c \in Calls : Send(c) \/ Retry(c)) => queue' = queue
    BY DEF Tick, Send, Retry, throttle
  <2> HIDE DEF Kept
  <2> QED BY <2>1, <2>3, <2>4, <2>5, <2>6, Zenon DEF Next, Proceed
<1> QED BY <1>1, Inductive, PTL DEF Spec, FirstComeFirstServed

=============================================================================
