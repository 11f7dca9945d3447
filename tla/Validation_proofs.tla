-------------------------- MODULE Validation_proofs --------------------------
(***************************************************************************)
(* What validation does to every UPC and EAN, by arithmetic on the digits: *)
(* sums are compared as sums of integers, and only two small lemmas know   *)
(* anything of remainders.                                                 *)
(***************************************************************************)
EXTENDS Validation, SequenceTheorems, TLAPS

\* The weighted sum of thirteen digits that the check digit completes.
Weighted(d) == d[1] + d[3] + d[5] + d[7] + d[9] + d[11] + d[13]
                 + 3 * (d[2] + d[4] + d[6] + d[8] + d[10] + d[12])

\* A code is a function, of digits and so of integers.
LEMMA CodeIsFunction ==
  ASSUME NEW d \in Seq(Digit), NEW n \in Nat, Len(d) = n
  PROVE  /\ d \in [1..n -> 0..9]
         /\ d \in [1..n -> Int]
<1>1. d \in [1..n -> 0..9]
  BY LenProperties DEF Digit
<1>2. QED
  BY <1>1, SMT

\* The code without its first digit.
LEMMA TailOfCode ==
  ASSUME NEW d \in Seq(Digit), Len(d) = 14
  PROVE  /\ Tail(d) \in Seq(Digit)
         /\ Len(Tail(d)) = 13
         /\ \A i \in 1..13 : Tail(d)[i] = d[i + 1]
<1>1. d # <<>>
  <2>1. Len(<<>>) = 0 /\ 14 # 0
    BY SMT
  <2>2. QED
    BY <2>1, Zenon
<1>2. /\ Tail(d) \in Seq(Digit)
      /\ Len(Tail(d)) = Len(d) - 1
      /\ \A i \in 1 .. Len(Tail(d)) : Tail(d)[i] = d[i+1]
  BY <1>1, HeadTailProperties
<1>3. Len(Tail(d)) = 13
  BY <1>2, SMT
<1>4. QED
  BY <1>2, <1>3

\* The code with a leading zero.
LEMMA ZeroBeforeCode ==
  ASSUME NEW d \in Seq(Digit), Len(d) = 12
  PROVE  /\ <<0>> \o d \in Seq(Digit)
         /\ Len(<<0>> \o d) = 13
         /\ (<<0>> \o d)[1] = 0
         /\ \A i \in 2..13 : (<<0>> \o d)[i] = d[i - 1]
<1>1. <<0>> \in Seq(Digit) /\ Len(<<0>>) = 1 /\ <<0>>[1] = 0
  BY SMT DEF Digit
<1>2. /\ <<0>> \o d \in Seq(Digit)
      /\ Len(<<0>> \o d) = Len(<<0>>) + Len(d)
      /\ \A i \in 1 .. Len(<<0>>) + Len(d) : (<<0>> \o d)[i] =
                    IF i <= Len(<<0>>) THEN <<0>>[i] ELSE d[i - Len(<<0>>)]
  BY <1>1, ConcatProperties
<1>3. Len(<<0>> \o d) = 13
  BY <1>1, <1>2, SMT
<1>4. (<<0>> \o d)[1] = 0
  BY <1>1, <1>2, SMT
<1>5. \A i \in 2..13 : (<<0>> \o d)[i] = d[i - 1]
  BY <1>1, <1>2, SMT
<1>6. QED
  BY <1>2, <1>3, <1>4, <1>5

-----------------------------------------------------------------------------
\* A digit completes a sum to a multiple of ten exactly if it is its check digit.
LEMMA CheckDigitCompletes ==
  ASSUME NEW t \in Nat, NEW c \in 0..9
  PROVE  c = (10 - (t % 10)) % 10 <=> (t + c) % 10 = 0
BY SMT

\* No other digit in the same place, of weight 1 or 3, gives a multiple of ten too.
LEMMA OneDigitMatters ==
  ASSUME NEW t \in Int, NEW u \in Int, NEW x \in 0..9, NEW y \in 0..9,
         u \in {t + y - x, t + 3 * y - 3 * x}, t % 10 = 0, u % 10 = 0
  PROVE  x = y
<1>1. u = t + y - x => x = y
  BY SMT
<1>2. u = t + 3 * y - 3 * x => x = y
  BY SMT
<1>3. QED
  BY <1>1, <1>2

\* Three times a digit is a multiple of ten only if the digit is 0.
LEMMA ThreeTimesDigit ==
  ASSUME NEW t \in Nat, NEW x \in 0..9, (t + 3 * x) % 10 = 0
  PROVE  t % 10 = 0 <=> x = 0
BY SMT

\* The sum the check digit is computed from, and what it adds to.
First12(d) == d[1] + d[3] + d[5] + d[7] + d[9] + d[11]
                + 3 * (d[2] + d[4] + d[6] + d[8] + d[10] + d[12])

LEMMA IntegerSums ==
  ASSUME NEW d \in [1..13 -> Int], \A i \in 1..13 : d[i] >= 0
  PROVE  /\ First12(d) \in Int /\ Weighted(d) \in Int
         /\ First12(d) >= 0 /\ Weighted(d) >= 0
BY SMT DEF First12, Weighted

LEMMA SumsAreNatural ==
  ASSUME NEW d \in [1..13 -> 0..9]
  PROVE  First12(d) \in Nat /\ Weighted(d) \in Nat /\ d[13] \in 0..9
<1>1. d \in [1..13 -> Int] /\ \A i \in 1..13 : d[i] >= 0
  BY SMT
<1>2. First12(d) \in Int /\ Weighted(d) \in Int
  BY <1>1, IntegerSums
<1>3. First12(d) >= 0 /\ Weighted(d) >= 0
  BY <1>1, IntegerSums
<1>4. QED
  BY <1>2, <1>3, SMT

LEMMA WeightedAdds ==
  ASSUME NEW d \in [1..13 -> Int]
  PROVE  Weighted(d) = First12(d) + d[13]
BY SMT DEF First12, Weighted

\* One digit changed changes the sum by once or three times the difference.
LEMMA WeightedChanges ==
  ASSUME NEW d \in [1..13 -> Int], NEW i \in 1..13, NEW v \in Int
  PROVE  Weighted([d EXCEPT ![i] = v]) \in
           {Weighted(d) + v - d[i], Weighted(d) + 3 * v - 3 * d[i]}
BY SMT DEF Weighted

\* The thirteenth digit checks exactly if the weighted sum is a multiple of ten.
LEMMA ChecksIsSum ==
  ASSUME NEW d \in [1..13 -> 0..9]
  PROVE  /\ Weighted(d) \in Nat
         /\ Checks(d) <=> Weighted(d) % 10 = 0
<1>1. d \in [1..13 -> Int]
  BY SMT
<1>2. First12(d) \in Nat /\ Weighted(d) \in Nat /\ d[13] \in 0..9
  BY SumsAreNatural
<1>3. Weighted(d) = First12(d) + d[13]
  BY <1>1, WeightedAdds
<1>4. d[13] = (10 - (First12(d) % 10)) % 10 <=> (First12(d) + d[13]) % 10 = 0
  BY <1>2, CheckDigitCompletes
<1>5. QED
  BY <1>2, <1>3, <1>4 DEF Checks, CheckDigit, First12

\* A code of thirteen digits that checks does not with any one digit changed.
LEMMA OneDigitOf13 ==
  ASSUME NEW d \in [1..13 -> 0..9], NEW i \in 1..13, NEW v \in 0..9,
         Checks(d), Checks([d EXCEPT ![i] = v])
  PROVE  d[i] = v
<1> DEFINE e == [d EXCEPT ![i] = v]
<1>1. d \in [1..13 -> Int] /\ e \in [1..13 -> 0..9] /\ v \in Int /\ d[i] \in 0..9
  BY SMT
<1>2. Weighted(e) \in {Weighted(d) + v - d[i], Weighted(d) + 3 * v - 3 * d[i]}
  BY <1>1, WeightedChanges
<1> HIDE DEF e
<1>3. Weighted(d) \in Nat /\ Weighted(d) % 10 = 0
  BY ChecksIsSum
<1>4. Weighted(e) \in Nat /\ Weighted(e) % 10 = 0
  <2>1. Checks(e)
    BY DEF e
  <2>2. QED
    BY <1>1, <2>1, ChecksIsSum
<1>5. QED
  <2>1. Weighted(d) \in Int /\ Weighted(e) \in Int
    BY <1>3, <1>4, SMT
  <2>2. QED
    BY <1>1, <1>2, <1>3, <1>4, <2>1, OneDigitMatters, Zenon

-----------------------------------------------------------------------------
(***************************************************************************)
(* The places of GS1's definition, for codes of each length.               *)
(***************************************************************************)
LEMMA PlacesOf13 ==
  ASSUME NEW d \in [1..13 -> Int], Len(d) = 13
  PROVE  WeighedPlaces(d) = Weighted(d)
BY SMT DEF WeighedPlaces, Place, Weighted

LEMMA PlacesOf12 ==
  ASSUME NEW d \in [1..12 -> Int], Len(d) = 12,
         NEW e \in [1..13 -> Int], e[1] = 0, \A i \in 2..13 : e[i] = d[i - 1]
  PROVE  WeighedPlaces(d) = Weighted(e)
BY SMT DEF WeighedPlaces, Place, Weighted

LEMMA PlacesOf14 ==
  ASSUME NEW d \in [1..14 -> Int], Len(d) = 14,
         NEW e \in [1..13 -> Int], \A i \in 1..13 : e[i] = d[i + 1]
  PROVE  WeighedPlaces(d) = Weighted(e) + 3 * d[1]
BY SMT DEF WeighedPlaces, Place, Weighted

\* The values of digits, of whatever script, and of all of them but the first.
LEMMA ValuesOfDigits ==
  ASSUME NEW Char, \A ch \in Char : ch[2] \in Digit, NEW s \in Seq(Char)
  PROVE  /\ Values(s) \in Seq(Digit) /\ (Len(Values(s)) = 14 => s # <<>>)
         /\ s # <<>> => Values(Tail(s)) = Tail(Values(s))
<1>0. PICK n \in Nat : n = Len(s)
  BY LenProperties
<1>1. DOMAIN s = 1..n /\ \A i \in 1..n : s[i] \in Char
  BY <1>0, LenProperties, ElementOfSeq
<1>2. Values(s) = [i \in 1..n |-> s[i][2]]
  BY <1>1 DEF Values
<1>3. \A i \in 1..n : s[i][2] \in Digit
  BY <1>1
<1>4. Values(s) \in Seq(Digit) /\ Len(Values(s)) = n
  <2>1. Values(s) \in [1..n -> Digit]
    BY <1>2, <1>3
  <2>2. Values(s) \in Seq(Digit)
    BY <1>0, <2>1, SeqDef
  <2>3. DOMAIN Values(s) = 1..n /\ DOMAIN Values(s) = 1..Len(Values(s)) /\ Len(Values(s)) \in Nat
    BY <2>1, <2>2, LenProperties
  <2>4. QED
    BY <1>0, <2>2, <2>3, SMT
<1>5. ASSUME s # <<>>
      PROVE  Values(Tail(s)) = Tail(Values(s))
  <2>1. n # 0
    BY <1>5, <1>0, EmptySeq
  <2>2. /\ Tail(s) \in Seq(Char) /\ Len(Tail(s)) = n - 1
        /\ \A i \in 1..Len(Tail(s)) : Tail(s)[i] = s[i + 1]
    BY <1>5, <1>0, HeadTailProperties
  <2>3. Values(s) # <<>>
    BY <1>4, <2>1, EmptySeq
  <2>4. /\ Tail(Values(s)) \in Seq(Digit) /\ Len(Tail(Values(s))) = n - 1
        /\ \A i \in 1..Len(Tail(Values(s))) : Tail(Values(s))[i] = Values(s)[i + 1]
    BY <1>4, <2>3, HeadTailProperties
  <2>5. DOMAIN Tail(s) = 1..(n - 1) /\ Tail(Values(s)) \in [1..(n - 1) -> Digit]
    BY <2>2, <2>4, LenProperties
  <2>6. Values(Tail(s)) = [i \in 1..(n - 1) |-> Tail(s)[i][2]]
    BY <2>5 DEF Values
  <2>7. \A i \in 1..(n - 1) : Tail(s)[i][2] = Tail(Values(s))[i]
    <3>1. ASSUME NEW i \in 1..(n - 1) PROVE Tail(s)[i][2] = Tail(Values(s))[i]
      <4>1. i + 1 \in 1..n
        BY <1>0, SMT
      <4>2. Values(s)[i + 1] = s[i + 1][2]
        BY <1>2, <4>1
      <4>3. QED
        BY <2>2, <2>4, <4>2
    <3>2. QED
      BY <3>1
  <2>8. Tail(Values(s)) = [i \in 1..(n - 1) |-> Tail(Values(s))[i]]
    BY <2>5
  <2>9. QED
    BY <2>6, <2>7, <2>8
<1>6. Len(Values(s)) = 14 => s # <<>>
  <2>1. Len(<<>>) = 0 /\ 14 # 0
    BY SMT
  <2>2. QED
    BY <1>0, <1>4, <2>1, Zenon
<1>7. QED
  BY <1>4, <1>5, <1>6

\* The digits of a code that is accepted have, once they are trimmed, the values that
\* are left.
LEMMA ValuesOfCode ==
  ASSUME NEW s \in Seq({"digit", "foreign digit"} \X Digit)
  PROVE  /\ Values(s) \in Seq(Digit)
         /\ Values(IF Indicated(Values(s)) THEN Tail(s) ELSE s) = Trimmed(Values(s))
<1> DEFINE Char == {"digit", "foreign digit"} \X Digit
<1>1. \A ch \in Char : ch[2] \in Digit
  OBVIOUS
<1>2. s \in Seq(Char)
  OBVIOUS
<1> HIDE DEF Char
<1>3. /\ Values(s) \in Seq(Digit) /\ (Len(Values(s)) = 14 => s # <<>>)
      /\ s # <<>> => Values(Tail(s)) = Tail(Values(s))
  BY <1>1, <1>2, ValuesOfDigits
<1>4. QED
  BY <1>3, Zenon DEF Trimmed, Indicated

\* What is accepted, length by length.
LEMMA ValidByLength ==
  ASSUME NEW d \in Seq(Digit)
  PROVE  /\ Len(d) = 13 => (ValidUpc(d) <=> Checks(d))
         /\ Len(d) = 12 => (ValidUpc(d) <=> Checks(<<0>> \o d))
         /\ Len(d) = 14 => (ValidUpc(d) <=> Checks(Tail(d)))
         /\ ValidUpc(d) => Len(d) \in {8, 12, 13, 14}
<1>1. Len(d) # 14 => (ValidUpc(d) <=> Accepted(d))
  BY DEF Trimmed, Indicated, ValidUpc
<1>2. CASE Len(d) = 13
  <2>1. Len(d) # 8 /\ Len(d) # 12 /\ Len(d) # 14 /\ Len(d) \in {8, 12, 13, 14}
    BY <1>2, SMT
  <2>2. QED
    BY <1>1, <1>2, <2>1, Zenon DEF Accepted
<1>3. CASE Len(d) = 12
  <2>1. Len(d) # 8 /\ Len(d) # 13 /\ Len(d) # 14 /\ Len(d) \in {8, 12, 13, 14}
    BY <1>3, SMT
  <2>2. QED
    BY <1>1, <1>3, <2>1, Zenon DEF Accepted
<1>4. CASE Len(d) = 14
  <2>1. Checks(Tail(d)) => Trimmed(d) = Tail(d)
    BY <1>4 DEF Trimmed, Indicated
  <2>2. ~Checks(Tail(d)) => Trimmed(d) = d
    BY DEF Trimmed, Indicated
  <2>3. Len(Tail(d)) = 13
    BY <1>4, TailOfCode
  <2>4. Len(d) # 8 /\ Len(d) # 12 /\ Len(d) # 13 /\ Len(d) \in {8, 12, 13, 14}
    BY <1>4, SMT
  <2>5. QED
    BY <1>4, <2>1, <2>2, <2>3, <2>4, Zenon DEF ValidUpc, Accepted
<1>5. CASE Len(d) \notin {12, 13, 14}
  BY <1>1, <1>5, SMT DEF ValidUpc, Accepted
<1>6. QED
  BY <1>2, <1>3, <1>4, <1>5

\* What the service is asked for is one of the three forms, and is accepted as it is.
LEMMA TrimmedCode ==
  ASSUME NEW d \in Seq(Digit), ValidUpc(d)
  PROVE  /\ Trimmed(d) \in Seq(Digit)
         /\ Len(Trimmed(d)) \in {8, 12, 13}
         /\ Len(d) = 14 => Trimmed(d) = Tail(d) /\ Len(Trimmed(d)) = 13
         /\ Len(d) # 14 => Trimmed(d) = d
<1>1. CASE Len(d) = 14
  <2>1. Checks(Tail(d))
    BY <1>1, ValidByLength
  <2>2. Trimmed(d) = Tail(d)
    BY <1>1, <2>1 DEF Trimmed, Indicated
  <2>3. QED
    BY <1>1, <2>2, TailOfCode, SMT
<1>2. CASE Len(d) # 14
  <2>1. Trimmed(d) = d
    BY <1>2 DEF Trimmed, Indicated
  <2>2. QED
    BY <1>2, <2>1, ValidByLength, SMT
<1>3. QED
  BY <1>1, <1>2

-----------------------------------------------------------------------------
\* Of twelve and thirteen digits, exactly those are accepted whose check digit is
\* right by GS1's definition (validation.py:43-50), though the code weighs the
\* digits from the left and GS1 from the right.
THEOREM AcceptedIsGenuine ==
  ASSUME NEW d \in Seq(Digit), Len(d) \in {12, 13}
  PROVE  ValidUpc(d) <=> Genuine(d)
<1>1. CASE Len(d) = 13
  <2>1. d \in [1..13 -> 0..9] /\ d \in [1..13 -> Int]
    BY <1>1, CodeIsFunction
  <2>2. WeighedPlaces(d) = Weighted(d)
    BY <1>1, <2>1, PlacesOf13
  <2>3. Checks(d) <=> Weighted(d) % 10 = 0
    BY <2>1, ChecksIsSum
  <2>4. QED
    BY <1>1, <2>2, <2>3, ValidByLength DEF Genuine
<1>2. CASE Len(d) = 12
  <2> DEFINE e == <<0>> \o d
  <2>1. /\ e \in Seq(Digit) /\ Len(e) = 13
        /\ e[1] = 0 /\ \A i \in 2..13 : e[i] = d[i - 1]
    BY <1>2, ZeroBeforeCode
  <2> HIDE DEF e
  <2>2. /\ d \in [1..12 -> Int]
        /\ e \in [1..13 -> 0..9] /\ e \in [1..13 -> Int]
    BY <1>2, <2>1, CodeIsFunction
  <2>3. WeighedPlaces(d) = Weighted(e)
    BY <1>2, <2>1, <2>2, PlacesOf12
  <2>4. Checks(e) <=> Weighted(e) % 10 = 0
    BY <2>2, ChecksIsSum
  <2>5. ValidUpc(d) <=> Checks(e)
    BY <1>2, ValidByLength DEF e
  <2>6. QED
    BY <2>3, <2>4, <2>5 DEF Genuine
<1>3. QED
  BY <1>1, <1>2

\* A code of twelve or thirteen digits with one of them mistyped is never accepted,
\* if the code is (validation.py:43-50).
THEOREM TypoRefused ==
  ASSUME NEW d \in Seq(Digit), Len(d) \in {12, 13}, ValidUpc(d), NEW e \in Mistyped(d)
  PROVE  ~ValidUpc(e)
<1> SUFFICES ASSUME ValidUpc(e) PROVE FALSE
  OBVIOUS
<1>1. PICK i \in DOMAIN d, v \in Digit : e = [d EXCEPT ![i] = v] /\ e # d
  BY DEF Mistyped
<1>2. v \in 0..9 /\ i \in 1..Len(d)
  BY <1>1, LenProperties DEF Digit
<1>3. e \in Seq(Digit) /\ Len(e) = Len(d)
  BY <1>1, <1>2, ExceptSeq
<1>4. v # d[i]
  <2>1. v = d[i] => e = d
    BY <1>1, <1>2, LenProperties
  <2>2. QED
    BY <1>1, <2>1
<1>5. CASE Len(d) = 13
  <2>1. d \in [1..13 -> 0..9]
    BY <1>5, CodeIsFunction
  <2>2. Checks(d) /\ Checks(e)
    BY <1>3, <1>5, ValidByLength
  <2>3. QED
    BY <1>1, <1>2, <1>4, <1>5, <2>1, <2>2, OneDigitOf13
<1>6. CASE Len(d) = 12
  <2> DEFINE zd == <<0>> \o d
             ze == <<0>> \o e
  <2>1. /\ zd \in Seq(Digit) /\ Len(zd) = 13
        /\ zd[1] = 0 /\ \A j \in 2..13 : zd[j] = d[j - 1]
    BY <1>6, ZeroBeforeCode
  <2>2. /\ ze \in Seq(Digit) /\ Len(ze) = 13
        /\ ze[1] = 0 /\ \A j \in 2..13 : ze[j] = e[j - 1]
    BY <1>3, <1>6, ZeroBeforeCode
  <2>3. Checks(zd) /\ Checks(ze)
    BY <1>3, <1>6, ValidByLength
  <2> HIDE DEF zd, ze
  <2>4. zd \in [1..13 -> 0..9] /\ ze \in [1..13 -> 0..9]
    BY <2>1, <2>2, CodeIsFunction
  <2>5. i + 1 \in 2..13 /\ i + 1 \in 1..13 /\ (i + 1) - 1 = i
    BY <1>2, <1>6, SMT
  <2>6. d \in [1..12 -> 0..9]
    BY <1>6, CodeIsFunction
  <2>7. ze = [zd EXCEPT ![i + 1] = v]
    <3>1. ASSUME NEW j \in 1..13 PROVE ze[j] = [zd EXCEPT ![i + 1] = v][j]
      <4>1. CASE j = 1
        BY <2>1, <2>2, <2>4, <2>5, <4>1, SMT
      <4>2. CASE j = i + 1
        <5>1. ze[i + 1] = e[i]
          BY <2>2, <2>5
        <5>2. e[i] = v
          BY <1>1, <1>2, <1>6, <2>6
        <5>3. QED
          BY <1>2, <2>4, <2>5, <4>2, <5>1, <5>2
      <4>3. CASE j # 1 /\ j # i + 1
        <5>1. j \in 2..13 /\ j - 1 \in 1..12 /\ j - 1 # i
          BY <1>2, <1>6, <4>3, SMT
        <5>2. ze[j] = e[j - 1] /\ zd[j] = d[j - 1] /\ e[j - 1] = d[j - 1]
          BY <1>1, <2>1, <2>2, <2>6, <5>1
        <5>3. QED
          BY <2>4, <4>3, <5>2
      <4>4. QED
        BY <4>1, <4>2, <4>3
    <3>2. [zd EXCEPT ![i + 1] = v] \in [1..13 -> 0..9]
      BY <1>2, <2>4, <2>5
    <3>3. QED
      BY <2>4, <3>1, <3>2
  <2>8. zd[i + 1] = v
    BY <1>2, <2>3, <2>4, <2>5, <2>7, OneDigitOf13
  <2>9. zd[i + 1] = d[i]
    BY <2>1, <2>5
  <2>10. QED
    BY <1>4, <2>8, <2>9
<1>7. QED
  BY <1>5, <1>6

\* What the service is asked for is accepted as it is, and unchanged: a client that
\* asks again with the code of an answer is served for that code, one that was cut
\* out of fourteen digits too (validation.py:34-38, 54).
THEOREM ValidationIdempotent ==
  ASSUME NEW d \in Seq(Digit), ValidUpc(d)
  PROVE  ValidUpc(Trimmed(d)) /\ Trimmed(Trimmed(d)) = Trimmed(d)
<1> DEFINE t == Trimmed(d)
<1>1. t \in Seq(Digit) /\ Len(t) \in {8, 12, 13}
  BY TrimmedCode
<1>2. Len(t) # 14
  <2>1. \A n \in {8, 12, 13} : n # 14
    BY SMT
  <2>2. QED
    BY <1>1, <2>1, Zenon
<1>3. Trimmed(t) = t
  BY <1>2 DEF Trimmed, Indicated
<1>4. QED
  BY <1>3 DEF ValidUpc

\* A UPC-A is accepted exactly if the EAN-13 that begins with 0 is: the two ways to
\* write the code of one product (validation.py:47-50).
THEOREM UpcAIsEan13 ==
  ASSUME NEW d \in Seq(Digit), Len(d) = 12
  PROVE  ValidUpc(d) <=> ValidUpc(<<0>> \o d)
BY ZeroBeforeCode, ValidByLength

\* Of the genuine GTIN-14 only those with indicator 0 are accepted: the check digit
\* of the others is right for all fourteen digits, and so it is wrong for the tail
\* (validation.py:35-38).
THEOREM OnlyIndicatorZero ==
  ASSUME NEW d \in Seq(Digit), Len(d) = 14, Genuine(d)
  PROVE  ValidUpc(d) <=> d[1] = 0
<1> DEFINE e == Tail(d)
<1>1. /\ e \in Seq(Digit) /\ Len(e) = 13
      /\ \A i \in 1..13 : e[i] = d[i + 1]
  BY TailOfCode
<1>2. ValidUpc(d) <=> Checks(e)
  BY ValidByLength
<1> HIDE DEF e
<1>3. d \in [1..14 -> Int] /\ d \in [1..14 -> 0..9]
  BY CodeIsFunction
<1>4. e \in [1..13 -> Int] /\ e \in [1..13 -> 0..9]
  BY <1>1, CodeIsFunction
<1>5. WeighedPlaces(d) = Weighted(e) + 3 * d[1]
  BY <1>1, <1>3, <1>4, PlacesOf14
<1>6. (Weighted(e) + 3 * d[1]) % 10 = 0
  BY <1>5 DEF Genuine
<1>7. Weighted(e) \in Nat /\ (Checks(e) <=> Weighted(e) % 10 = 0)
  BY <1>4, ChecksIsSum
<1>8. d[1] \in 0..9
  BY <1>3
<1>9. Weighted(e) % 10 = 0 <=> d[1] = 0
  BY <1>6, <1>7, <1>8, ThreeTimesDigit
<1>10. QED
  BY <1>2, <1>7, <1>9

=============================================================================
