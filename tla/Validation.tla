----------------------------- MODULE Validation -----------------------------
(***************************************************************************)
(* What the lookup routes accept as an ISRC or a UPC, and what they make   *)
(* of it (app/validation.py, and the length caps of                        *)
(* app/api/routes/lookup.py).  Operators only; Edge uses them, and         *)
(* Validation_proofs says what they do for every code.                     *)
(*                                                                         *)
(* A character is a pair of its class and what distinguishes it within the *)
(* class: a digit and its value, a digit of another script (one stands for *)
(* all; \D, \d and int() do not tell, [A-Z0-9] does), a letter of A to Z   *)
(* and its case, a dash, a space, another blank, or anything else.         *)
(***************************************************************************)
EXTENDS Integers, Sequences, FiniteSetsExt

Digit == 0..9

IsDigit(ch)  == ch[1] \in {"digit", "foreign digit"}
IsLetter(ch) == ch[1] = "upper"
IsBlank(ch)  == ch[1] \in {"space", "blank"}

-----------------------------------------------------------------------------
(***************************************************************************)
(* UPC and EAN.                                                            *)
(***************************************************************************)
\* normalize_upc: whatever is not a digit goes.  A digit of another script stays what
\* it is: two codes of the same values may differ.
NormalizeUpc(text) == SelectSeq(text, IsDigit)

\* int(ch) for each.  The rest is said of the values d of the digits.
Values(digits) == [i \in DOMAIN digits |-> digits[i][2]]

\* _ean13_check_digit of the first twelve digits of d: every second weighs three.
CheckDigit(d) ==
  LET total == d[1] + d[3] + d[5] + d[7] + d[9] + d[11]
                 + 3 * (d[2] + d[4] + d[6] + d[8] + d[10] + d[12])
  IN  (10 - (total % 10)) % 10

\* The thirteenth digit is the check digit of the twelve before it.
Checks(d) == d[13] = CheckDigit(d)

\* Fourteen digits lose their first one if what is left checks.
Indicated(d) == Len(d) = 14 /\ Checks(Tail(d))
Trimmed(d)   == IF Indicated(d) THEN Tail(d) ELSE d

\* Mutant of Accepted: the check digit of a UPC-A is taken on trust.
AcceptedUpcA(d) ==
  \/ Len(d) = 13 /\ Checks(d)
  \/ Len(d) \in {8, 12}

\* An EAN-13, a UPC-A (checked as an EAN-13 that begins with 0), or any eight digits.
Accepted(d) ==
  \/ Len(d) = 13 /\ Checks(d)
  \/ Len(d) = 12 /\ Checks(<<0>> \o d)
  \/ Len(d) = 8

ValidUpc(d) == Accepted(Trimmed(d))

-----------------------------------------------------------------------------
(***************************************************************************)
(* ISRC.                                                                   *)
(***************************************************************************)
Strip(text) ==
  LET ink == {i \in DOMAIN text : ~IsBlank(text[i])}
  IN  IF ink = {} THEN <<>> ELSE SubSeq(text, Min(ink), Max(ink))

Upper(ch) == IF ch[1] = "lower" THEN <<"upper", ch[2]>> ELSE ch

\* normalize_isrc: blanks at the ends go, letters become capitals, then every dash
\* and every space goes; another blank in the middle stays.
NormalizeIsrc(text) ==
  LET stripped == Strip(text)
      capitals == [i \in DOMAIN stripped |-> Upper(stripped[i])]
      Kept(ch) == ch[1] \notin {"dash", "space"}
  IN  SelectSeq(capitals, Kept)

\* _ISRC_RE
ValidIsrc(s) ==
  /\ Len(s) = 12
  /\ \A i \in 1..2 : IsLetter(s[i])
  /\ \A i \in 3..5 : IsLetter(s[i]) \/ s[i][1] = "digit"
  /\ \A i \in 6..12 : IsDigit(s[i])

-----------------------------------------------------------------------------
(***************************************************************************)
(* What a route makes of the text in its path: the code the service is     *)
(* asked for, or a refusal, of the text for its length or of the code for  *)
(* its form.                                                               *)
(***************************************************************************)
MaxLength == [isrc |-> 64, upc |-> 32]

Refused(why)  == [kind |-> why, isrc |-> <<>>, upc |-> <<>>]
Refusals      == {Refused("validation_error"), Refused("http_error")}
IsrcCode(s)   == [kind |-> "isrc", isrc |-> s, upc |-> <<>>]
UpcCode(s)    == [kind |-> "upc", isrc |-> <<>>, upc |-> s]

Validated(kind, text) ==
  IF Len(text) > MaxLength[kind] THEN Refused("validation_error")
  ELSE IF kind = "isrc"
  THEN LET s == NormalizeIsrc(text)
       IN  IF ValidIsrc(s) THEN IsrcCode(s) ELSE Refused("http_error")
  ELSE LET s == NormalizeUpc(text)
           d == Values(s)
       IN  IF ~ValidUpc(d) THEN Refused("http_error")
           ELSE UpcCode(IF Indicated(d) THEN Tail(s) ELSE s)

-----------------------------------------------------------------------------
(***************************************************************************)
(* The definition of a check digit the code is held against, that of GS1:  *)
(* with the code filled up with zeros on the left to fourteen places, the  *)
(* places weigh 3 and 1 in turn and the sum is a multiple of ten.          *)
(***************************************************************************)
Place(d, i) == IF i > 14 - Len(d) THEN d[i - (14 - Len(d))] ELSE 0

WeighedPlaces(d) ==
  3 * (Place(d, 1) + Place(d, 3) + Place(d, 5) + Place(d, 7)
         + Place(d, 9) + Place(d, 11) + Place(d, 13))
    + Place(d, 2) + Place(d, 4) + Place(d, 6) + Place(d, 8)
    + Place(d, 10) + Place(d, 12) + Place(d, 14)

Genuine(d) == WeighedPlaces(d) % 10 = 0

\* d with one digit mistyped.
Mistyped(d) == {[d EXCEPT ![i] = v] : i \in DOMAIN d, v \in Digit} \ {d}

=============================================================================
