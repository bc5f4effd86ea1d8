---------------------------- MODULE CommandProofs ----------------------------
(***************************************************************************)
(* What CommandLine and Format promise of numbers, words and redirections, *)
(* for every width of an int, every line and every size of the array of    *)
(* words.                                                                  *)
(***************************************************************************)
EXTENDS CommandLine, FiniteSetTheorems, WellFoundedInduction, TLAPS

-----------------------------------------------------------------------------
(* Powers of ten                                                           *)

Ten == [d \in 0..15 |->
  CASE d = 0  -> 1
    [] d = 1  -> 10
    [] d = 2  -> 100
    [] d = 3  -> 1000
    [] d = 4  -> 10000
    [] d = 5  -> 100000
    [] d = 6  -> 1000000
    [] d = 7  -> 10000000
    [] d = 8  -> 100000000
    [] d = 9  -> 1000000000
    [] d = 10 -> 10000000000
    [] d = 11 -> 100000000000
    [] d = 12 -> 1000000000000
    [] d = 13 -> 10000000000000
    [] d = 14 -> 100000000000000
    [] d = 15 -> 1000000000000000]

LEMMA TenNat == \A d \in 0..15 : Ten[d] \in Nat
  BY SMT DEF Ten

LEMMA TenStep == Ten[0] = 1 /\ \A d \in 1..15 : Ten[d] = 10 * Ten[d - 1]
<1>1. Ten[0] = 1
  BY DEF Ten
<1>2. ASSUME NEW d \in 1..15 PROVE Ten[d] = 10 * Ten[d - 1]
  BY SMT DEF Ten
<1> QED
  BY <1>1, <1>2

LEMMA TenValues ==
  Ten[2] = 100 /\ Ten[3] = 1000 /\ Ten[4] = 10000 /\ Ten[14] = 100000000000000
  BY SMT DEF Ten

\* x has at most d digits.
Short(x, d) == -Ten[d] < x /\ x < Ten[d]

\* A pass of the loop takes a digit away.
LEMMA QuotientShort ==
  ASSUME NEW x \in Int, x # 0, NEW d \in 0..15, Short(x, d)
  PROVE  d # 0 /\ Quotient(x) \in Int /\ Short(Quotient(x), d - 1)
<1>1. d # 0
  BY TenStep DEF Short
<1> DEFINE t == Ten[d - 1]
<1>2. t \in Nat /\ Ten[d] = 10 * t
  BY <1>1, TenStep, TenNat
<1> HIDE DEF t
<1>3. -(10 * t) < x /\ x < 10 * t
  BY <1>2 DEF Short
<1>4. Quotient(x) \in Int /\ -t < Quotient(x) /\ Quotient(x) < t
  <2>1. CASE x < 0
    <3>1. -x \in Nat /\ -x < 10 * t
      BY <1>2, <1>3, <2>1
    <3>2. (-x) \div 10 \in Nat /\ (-x) \div 10 < t
      BY <1>2, <3>1
    <3> QED
      BY <1>2, <2>1, <3>2 DEF Quotient
  <2>2. CASE x > 0
    <3>1. x \div 10 \in Nat /\ x \div 10 < t
      BY <1>2, <1>3, <2>2
    <3> QED
      BY <1>2, <2>2, <3>1 DEF Quotient
  <2> QED
    BY <2>1, <2>2
<1> QED
  BY <1>1, <1>4 DEF Short, t

-----------------------------------------------------------------------------
(* Numbers fit their buffers                                               *)

\* The place of the sign.
Sign(x) == IF x < 0 THEN 1 ELSE 0

\* A number alone leaves room for its sign and the zero at the end; the four
\* numbers of an address have three digits each.
FitsAlone(x, room) ==
  x \in Int /\ \E d \in 1..14 : Short(x, d) /\ d + Sign(x) + 1 <= room

Fits(a, room) ==
  \/ Len(a) = 1 /\ FitsAlone(a[1], room)
  \/ Len(a) = 4 /\ room = 16 /\ \A i \in 1..4 : a[i] \in Nat /\ a[i] < 1000

FittingCalls ==
  {call \in [of : SUBSET Seq(Int), size : Nat] : \A a \in call.of : Fits(a, call.size)}

\* The characters there are for each number.
Width(a, room) == IF Len(a) = 1 THEN room - 1 ELSE 3

\* As many digits as are still to be written, and the sign, find their place.
Fit ==
  phase # "idle" =>
    /\ size \in Nat /\ Fits(asked, size)
    /\ k \in 1..Len(asked)
    /\ from \in Nat \ {0} /\ from <= 4 * (k - 1) + 1
    /\ str \in Seq(Int) /\ start \in Nat
    /\ phase \in {"digits", "reverse", "ready"}
    /\ Len(str) <= from - 1 + Width(asked, size)
    /\ phase = "digits" =>
         \E d \in 0..14 :
           /\ num \in Int /\ Short(num, d)
           /\ Len(str) + d <= from - 1 + Width(asked, size)
           /\ negative => Len(str) + d + 1 <= from - 1 + Width(asked, size)

FitInv == Fit /\ pending \in Seq(FittingCalls)

\* Every number has its digits and its sign in its place, and what comes before
\* it leaves room for them and for the zero.
LEMMA WidthFits ==
  ASSUME NEW room \in Nat, NEW a, Fits(a, room), NEW i \in 1..Len(a)
  PROVE  /\ a[i] \in Int
         /\ \E d \in 1..14 : Short(a[i], d) /\ d + Sign(a[i]) <= Width(a, room)
         /\ Width(a, room) \in Nat \ {0}
         /\ 4 * (i - 1) + Width(a, room) < room
<1>1. CASE Len(a) = 1 /\ FitsAlone(a[1], room)
  <2>1. i = 1 /\ Width(a, room) = room - 1
    BY <1>1 DEF Width
  <2>2. PICK d \in 1..14 : Short(a[i], d) /\ d + Sign(a[i]) + 1 <= room /\ a[i] \in Int
    BY <1>1, <2>1 DEF FitsAlone
  <2>3. Sign(a[i]) \in 0..1
    BY DEF Sign
  <2> QED
    BY <2>1, <2>2, <2>3
<1>2. CASE Len(a) = 4 /\ room = 16 /\ \A j \in 1..4 : a[j] \in Nat /\ a[j] < 1000
  <2>1. Width(a, room) = 3 /\ a[i] \in Nat /\ a[i] < 1000 /\ i \in 1..4
    BY <1>2 DEF Width
  <2>2. Short(a[i], 3) /\ Sign(a[i]) = 0
    BY <2>1, TenValues DEF Short, Sign
  <2> QED
    BY <1>2, <2>1, <2>2
<1> QED
  BY <1>1, <1>2 DEF Fits

\* The start of int_to_str, for a number that has its place.
LEMMA StartFits ==
  ASSUME NEW x \in Int, NEW b \in Seq(Int), NEW d \in 1..14, Short(x, d),
         NEW w \in Nat, d + Sign(x) <= w, size' \in Nat, Len(b) + w < size',
         int_to_str(x, b)
  PROVE  /\ phase' = "digits" /\ from' = Len(b) + 1 /\ start' = 0
         /\ str' \in Seq(Int) /\ Len(str') <= Len(b) + w
         /\ \E e \in 0..14 : /\ num' \in Int /\ Short(num', e)
                             /\ Len(str') + e <= Len(b) + w
                             /\ negative' => Len(str') + e + 1 <= Len(b) + w
<1> DEFINE y == IF x < 0 THEN Negated(x) ELSE x
<1>1. y \in Int /\ Short(y, d)
  <2>1. Ten[d] \in Nat
    <3>1. d \in 0..15
      OBVIOUS
    <3> QED
      BY <3>1, TenNat
  <2>2. INT_MAX \in Int
    BY FormatAssumption, SMT
  <2> QED
    BY <2>1, <2>2 DEF Short, Negated, INT_MIN
<1>2. /\ num' = y /\ from' = Len(b) + 1 /\ start' = 0
      /\ str' = (IF x = 0 THEN Append(b, 0) ELSE b)
      /\ phase' = IF Len(str') > size' THEN "overrun" ELSE "digits"
  BY DEF int_to_str
<1>3. negative' => Sign(x) = 1
  <2>1. negative' = (x < 0)
    BY DEF int_to_str
  <2> QED
    BY <2>1, Zenon DEF Sign
<1>4. Sign(x) \in 0..1 /\ (x = 0 => Sign(x) = 0 /\ y = 0)
  BY DEF Sign
<1> HIDE DEF y
<1>5. /\ str' \in Seq(Int) /\ Len(b) \in Nat
      /\ Len(str') = IF x = 0 THEN Len(b) + 1 ELSE Len(b)
  BY <1>2
<1>6. Len(str') <= Len(b) + w /\ phase' = "digits"
  BY <1>2, <1>4, <1>5
<1>7. CASE x = 0
  <2>1. Short(0, 0)
    BY TenStep DEF Short
  <2>2. num' = 0 /\ ~negative' /\ Len(str') + 0 <= Len(b) + w
    BY <1>2, <1>3, <1>4, <1>5, <1>6, <1>7
  <2> QED
    BY <1>2, <1>5, <1>6, <2>1, <2>2
<1>8. CASE x # 0
  <2>1. Len(str') + d <= Len(b) + w /\ (negative' => Len(str') + d + 1 <= Len(b) + w)
    BY <1>3, <1>4, <1>5, <1>8
  <2>2. d \in 0..14 /\ num' \in Int /\ Short(num', d)
    BY <1>1, <1>2
  <2> QED
    BY <1>2, <1>5, <1>6, <2>1, <2>2
<1> QED
  BY <1>7, <1>8

\* A number that follows what is in b.
LEMMA NumberFits ==
  ASSUME size' \in Nat, Fits(asked', size'), NEW i \in 1..Len(asked'), k' = i,
         NEW b \in Seq(Int), Len(b) <= 4 * (i - 1), int_to_str(asked'[i], b)
  PROVE  Fit'
<1> DEFINE w == Width(asked', size')
<1>1. asked'[i] \in Int /\ w \in Nat /\ 4 * (i - 1) + w < size'
  BY WidthFits
<1>2. PICK d \in 1..14 : Short(asked'[i], d) /\ d + Sign(asked'[i]) <= w
  BY WidthFits
<1>3. Width(asked, size)' = w
  BY DEF Width
<1> HIDE DEF w
<1>4. Len(b) \in Nat /\ Len(b) + w < size'
  BY <1>1
<1>5. /\ phase' = "digits" /\ from' = Len(b) + 1 /\ start' = 0
      /\ str' \in Seq(Int) /\ Len(str') <= Len(b) + w
      /\ \E e \in 0..14 : /\ num' \in Int /\ Short(num', e)
                          /\ Len(str') + e <= Len(b) + w
                          /\ negative' => Len(str') + e + 1 <= Len(b) + w
  BY <1>1, <1>2, <1>4, StartFits
<1>6. /\ from' \in Nat \ {0} /\ from' <= 4 * (k' - 1) + 1 /\ start' \in Nat
      /\ from' - 1 = Len(b)
  BY <1>4, <1>5
<1> QED
  BY <1>3, <1>5, <1>6 DEF Fit

LEMMA BeginNumbersFits == FitInv /\ BeginNumbers => FitInv'
<1> SUFFICES ASSUME FitInv, BeginNumbers PROVE FitInv'
  OBVIOUS
<1>1. /\ pending \in Seq(FittingCalls) /\ pending # << >>
      /\ asked' \in Head(pending).of /\ size' = Head(pending).size
      /\ k' = 1 /\ pending' = Tail(pending) /\ int_to_str(asked'[1], << >>)
  BY DEF FitInv, BeginNumbers
<1>2. Head(pending) \in FittingCalls /\ pending' \in Seq(FittingCalls)
  BY <1>1
<1>3. size' \in Nat /\ Fits(asked', size')
  BY <1>1, <1>2 DEF FittingCalls
<1>4. 1 \in 1..Len(asked')
  BY <1>3 DEF Fits
<1>5. << >> \in Seq(Int) /\ Len(<< >>) <= 4 * (1 - 1)
  OBVIOUS
<1>6. Fit'
  BY <1>1, <1>3, <1>4, <1>5, NumberFits
<1> QED
  BY <1>2, <1>6 DEF FitInv

LEMMA NextNumberFits == FitInv /\ NextNumber => FitInv'
<1> SUFFICES ASSUME FitInv, NextNumber PROVE FitInv'
  OBVIOUS
<1>1. /\ size \in Nat /\ Fits(asked, size) /\ k \in 1..Len(asked) /\ k < Len(asked)
      /\ from \in Nat \ {0} /\ from <= 4 * (k - 1) + 1
      /\ str \in Seq(Int) /\ Len(str) <= from - 1 + Width(asked, size)
  BY DEF FitInv, Fit, NextNumber
<1>2. /\ k' = k + 1 /\ UNCHANGED <<asked, size, pending>>
      /\ int_to_str(asked[k + 1], Append(str, Dot))
  BY DEF NextNumber
<1>3. Len(asked) = 4 /\ Width(asked, size) = 3
  <2>1. Len(asked) = 1 \/ Len(asked) = 4
    BY <1>1 DEF Fits
  <2>2. Len(asked) = 1 => FALSE
    BY <1>1
  <2> QED
    BY <2>1, <2>2 DEF Width
<1>4. Dot \in Int
  BY DEF Dot
<1>5. Append(str, Dot) \in Seq(Int) /\ Len(Append(str, Dot)) = Len(str) + 1 /\ Len(str) \in Nat
  BY <1>1, <1>4
<1>6. Len(Append(str, Dot)) <= 4 * ((k + 1) - 1) /\ k + 1 \in 1..Len(asked')
  BY <1>1, <1>2, <1>3, <1>5
<1>7. Fit'
  BY <1>1, <1>2, <1>5, <1>6, NumberFits
<1> QED
  BY <1>2, <1>7 DEF FitInv

LEMMA DigitFits == FitInv /\ Digit => FitInv'
<1> SUFFICES ASSUME FitInv, Digit PROVE FitInv'
  OBVIOUS
<1> DEFINE w == Width(asked, size)
<1>1. /\ size \in Nat /\ Fits(asked, size) /\ k \in 1..Len(asked)
      /\ from \in Nat \ {0} /\ from <= 4 * (k - 1) + 1
      /\ str \in Seq(Int) /\ start \in Nat /\ phase = "digits" /\ num # 0
      /\ UNCHANGED <<asked, size, k, negative, from, start, pending>>
      /\ num' = Quotient(num)
  BY DEF FitInv, Fit, Digit
<1>2. PICK d \in 0..14 : /\ num \in Int /\ Short(num, d)
                         /\ Len(str) + d <= from - 1 + w
                         /\ negative => Len(str) + d + 1 <= from - 1 + w
  BY <1>1 DEF FitInv, Fit
<1>3. w \in Nat /\ 4 * (k - 1) + w < size /\ w' = w
  BY <1>1, WidthFits DEF Width
<1> HIDE DEF w
<1>4. d # 0 /\ num' \in Int /\ Short(num', d - 1)
  <2>1. d \in 0..15
    OBVIOUS
  <2> QED
    BY <1>1, <1>2, <2>1, QuotientShort
<1>5. Len(str) \in Nat /\ Len(str) < size
  BY <1>1, <1>2, <1>3, <1>4
<1>6. str' = Append(str, Remainder(num)) /\ phase' = phase
  BY <1>5 DEF Digit
<1>7. Remainder(num) \in Int
  <2>1. Quotient(num) \in Int
    BY <1>1, <1>4
  <2> QED
    BY <1>2, <2>1 DEF Remainder
<1>8. str' \in Seq(Int) /\ Len(str') = Len(str) + 1
  BY <1>1, <1>6, <1>7
<1>9. /\ d - 1 \in 0..14
      /\ Len(str') + (d - 1) <= from - 1 + w
      /\ negative => Len(str') + (d - 1) + 1 <= from - 1 + w
      /\ Len(str') <= from - 1 + w
  BY <1>1, <1>2, <1>3, <1>4, <1>5, <1>8
<1>10. Fit'
  <2>1. Width(asked, size)' = w
    BY <1>3 DEF w
  <2> QED
    BY <1>1, <1>4, <1>6, <1>8, <1>9, <2>1 DEF Fit
<1> QED
  BY <1>1, <1>10 DEF FitInv

LEMMA TerminateFits == FitInv /\ Terminate => FitInv'
<1> SUFFICES ASSUME FitInv, Terminate PROVE FitInv'
  OBVIOUS
<1> DEFINE w      == Width(asked, size)
           signed == IF negative THEN Append(str, Minus) ELSE str
<1>1. /\ size \in Nat /\ Fits(asked, size) /\ k \in 1..Len(asked)
      /\ from \in Nat \ {0} /\ from <= 4 * (k - 1) + 1
      /\ str \in Seq(Int) /\ start \in Nat /\ phase = "digits"
      /\ UNCHANGED <<asked, size, k, num, negative, from, start, pending>>
  BY DEF FitInv, Fit, Terminate
<1>2. PICK d \in 0..14 : /\ Len(str) + d <= from - 1 + w
                         /\ negative => Len(str) + d + 1 <= from - 1 + w
  BY <1>1 DEF FitInv, Fit
<1>3. w \in Nat /\ 4 * (k - 1) + w < size /\ w' = w
  BY <1>1, WidthFits DEF Width
<1> HIDE DEF w
<1>4. signed \in Seq(Int) /\ Len(signed) <= from - 1 + w /\ Len(signed) < size
  <2>1. Minus \in Int
    BY DEF Minus
  <2>2. CASE negative
    <3>1. Append(str, Minus) \in Seq(Int) /\ Len(Append(str, Minus)) = Len(str) + 1
      BY <1>1, <2>1
    <3> QED
      BY <1>1, <1>2, <1>3, <2>2, <3>1
  <2>3. CASE ~negative
    BY <1>1, <1>2, <1>3, <2>3
  <2> QED
    BY <2>2, <2>3
<1>5. str' = signed /\ phase' = "reverse"
  BY <1>4 DEF Terminate
<1> HIDE DEF signed
<1>6. Fit'
  <2>1. Width(asked, size)' = w
    BY <1>3 DEF w
  <2> QED
    BY <1>1, <1>4, <1>5, <2>1 DEF Fit
<1> QED
  BY <1>1, <1>6 DEF FitInv

LEMMA ReverseFits == FitInv /\ Reverse => FitInv'
<1> SUFFICES ASSUME FitInv, Reverse PROVE FitInv'
  OBVIOUS
<1> DEFINE i == from + start
           j == Len(str) - start
<1>1. /\ size \in Nat /\ Fits(asked, size) /\ k \in 1..Len(asked)
      /\ from \in Nat \ {0} /\ from <= 4 * (k - 1) + 1
      /\ str \in Seq(Int) /\ start \in Nat /\ phase = "reverse"
      /\ Len(str) <= from - 1 + Width(asked, size)
      /\ UNCHANGED <<asked, size, k, num, negative, from, pending>>
  BY DEF FitInv, Fit, Reverse
<1>2. /\ str' \in Seq(Int) /\ Len(str') = Len(str) /\ start' \in Nat
      /\ phase' \in {"reverse", "ready"}
  <2>1. CASE i >= j
    BY <1>1, <2>1 DEF Reverse, LastPair
  <2>2. CASE ~(i >= j)
    <3>1. /\ str' = [str EXCEPT ![i] = str[j], ![j] = str[i]]
          /\ start' = start + 1 /\ phase' = phase
      BY <2>2 DEF Reverse, LastPair
    <3>2. i \in 1..Len(str) /\ j \in 1..Len(str)
      BY <1>1, <2>2
    <3> HIDE DEF i, j
    <3> QED
      BY <1>1, <3>1, <3>2, SMTT(30)
  <2> QED
    BY <2>1, <2>2
<1>3. Width(asked, size)' = Width(asked, size)
  BY <1>1 DEF Width
<1> QED
  BY <1>1, <1>2, <1>3 DEF Fit, FitInv

LEMMA FormatStepFits == FitInv /\ FormatStep => FitInv'
<1>1. FitInv /\ WriteString => FitInv'
  BY DEF FitInv, Fit, WriteString
<1> QED
  BY <1>1, BeginNumbersFits, NextNumberFits, DigitFits, TerminateFits, ReverseFits
     DEF FormatStep

-----------------------------------------------------------------------------
(* What the callers ask for fits                                           *)

\* The bytes of a clock that counts in decimals.
DecimalClock == \A b \in ClockBytes : b % 16 <= 9 /\ b \div 16 <= 9

\* A call for one of some numbers with enough room.
LEMMA NumberCall ==
  ASSUME NEW room \in Nat, NEW S, \A x \in S : FitsAlone(x, room)
  PROVE  Number(S, room) \in FittingCalls
<1>1. ASSUME NEW x \in S PROVE << x >> \in Seq(Int) /\ Fits(<< x >>, room)
  <2>1. x \in Int
    BY DEF FitsAlone
  <2>2. Len(<< x >>) = 1 /\ << x >>[1] = x /\ << x >> \in Seq(Int)
    BY <2>1
  <2> QED
    BY <2>2 DEF Fits
<1>2. Number(S, room) = [of |-> {<< x >> : x \in S}, size |-> room]
  BY DEF Number
<1>3. {<< x >> : x \in S} \in SUBSET Seq(Int)
  BY <1>1
<1>4. \A a \in {<< x >> : x \in S} : Fits(a, room)
  BY <1>1
<1> QED
  BY <1>2, <1>3, <1>4 DEF FittingCalls

\* The fields of the clock and the year.
LEMMA ClockCalls ==
  ASSUME DecimalClock
  PROVE  execute_time \in Seq(FittingCalls) /\ execute_date \in Seq(FittingCalls)
<1>1. ASSUME NEW b \in ClockBytes PROVE bcd_to_bin(b) \in 0..99
  <2>1. b \in Nat /\ b % 16 \in 0..9 /\ b \div 16 \in 0..9
    BY FormatAssumption, SMT DEF DecimalClock
  <2> QED
    BY <2>1 DEF bcd_to_bin
<1>2. ASSUME NEW x \in {bcd_to_bin(b) : b \in ClockBytes} PROVE FitsAlone(x, 3)
  <2>1. x \in 0..99
    BY <1>1
  <2>2. Short(x, 2) /\ Sign(x) = 0
    BY <2>1, TenValues, SMT DEF Short, Sign
  <2> QED
    BY <2>1, <2>2 DEF FitsAlone
<1>3. ASSUME NEW x \in {2000 + bcd_to_bin(b) : b \in ClockBytes} PROVE FitsAlone(x, 5)
  <2>1. x \in 2000..2099
    BY <1>1
  <2>2. Short(x, 4) /\ Sign(x) = 0
    BY <2>1, TenValues, SMT DEF Short, Sign
  <2> QED
    BY <2>1, <2>2, SMT DEF FitsAlone
<1>4. ClockField \in FittingCalls /\ Year \in FittingCalls
  BY <1>2, <1>3, NumberCall DEF ClockField, Year
<1>5. /\ << ClockField, ClockField, ClockField >> \in Seq(FittingCalls)
      /\ << ClockField, ClockField, Year >> \in Seq(FittingCalls)
  BY <1>4
<1> QED
  BY <1>5 DEF execute_time, execute_date

\* Process numbers.
LEMMA PidCalls == << Number(Pids, 16) >> \in Seq(FittingCalls)
<1>1. ASSUME NEW x \in Pids PROVE FitsAlone(x, 16)
  <2>1. x \in Int /\ -2147483648 <= x /\ x <= 2147483647
    BY FormatAssumption, CommandAssumption, SMT DEF INT_MIN
  <2>2. Short(x, 14)
    BY <2>1, TenValues, SMT DEF Short
  <2>3. Sign(x) \in 0..1
    BY DEF Sign
  <2> QED
    BY <2>1, <2>2, <2>3, SMT DEF FitsAlone
<1>2. Number(Pids, 16) \in FittingCalls
  BY <1>1, NumberCall
<1> QED
  BY <1>2

\* The addresses.
LEMMA AddressCalls ==
  /\ << Address(net_dev[1]) >> \in Seq(FittingCalls)
  /\ [i \in 1..3 |-> Address(net_dev[i])] \in Seq(FittingCalls)
<1>1. ASSUME NEW i \in 1..3 PROVE Address(net_dev[i]) \in FittingCalls
  <2>1. /\ net_dev[i] \in Seq(Int) /\ Len(net_dev[i]) = 4
        /\ \A j \in 1..4 : net_dev[i][j] \in Nat /\ net_dev[i][j] < 1000
    <3>1. CASE i = 1
      <4>1. net_dev[i] = << 192, 168, 0, 100 >>
        BY <3>1 DEF net_dev
      <4> QED
        BY <4>1
    <3>2. CASE i = 2
      <4>1. net_dev[i] = << 192, 168, 0, 1 >>
        BY <3>2 DEF net_dev
      <4> QED
        BY <4>1
    <3>3. CASE i = 3
      <4>1. net_dev[i] = << 255, 255, 255, 0 >>
        BY <3>3 DEF net_dev
      <4> QED
        BY <4>1
    <3> QED
      BY <3>1, <3>2, <3>3
  <2>2. Fits(net_dev[i], 16)
    BY <2>1 DEF Fits
  <2> QED
    BY <2>1, <2>2 DEF Address, FittingCalls
<1>2. << Address(net_dev[1]) >> \in Seq(FittingCalls)
  BY <1>1
<1>3. [i \in 1..3 |-> Address(net_dev[i])] \in Seq(FittingCalls)
  BY <1>1
<1> QED
  BY <1>2, <1>3

\* While the clock counts in decimals, no number that date, time, kill, dhcpcd or
\* ifconfig converts, its sign and its zero included, is too long for its buffer.
THEOREM FitsCorrect ==
  ASSUME DecimalClock
  PROVE  CommandSpec => []NumbersFit
<1>1. CommandInit => FitInv
  BY DEF CommandInit, FormatInit, FitInv, Fit
<1>2. ASSUME FitInv, [CommandNext]_vars PROVE FitInv'
  <2>1. CASE UNCHANGED format_vars
    BY <1>2, <2>1 DEF format_vars, number_vars, FitInv, Fit, Width
  <2>2. ASSUME NEW numbers \in Seq(FittingCalls), Prints(numbers) PROVE FitInv'
    BY <1>2, <2>2 DEF Prints, number_vars, FitInv, Fit, Width
  <2>3. CASE NumberStep
    BY <1>2, <2>1, <2>3, FormatStepFits DEF NumberStep
  <2>4. CASE execute_clock
    BY <2>2, <2>4, ClockCalls DEF execute_clock
  <2>5. CASE execute_kill
    BY <2>1, <2>2, <2>5, PidCalls DEF execute_kill
  <2>6. CASE execute_dhcpcd
    BY <2>1, <2>2, <2>6, AddressCalls DEF execute_dhcpcd
  <2>7. CASE execute_ifconfig
    BY <2>1, <2>2, <2>7, AddressCalls DEF execute_ifconfig
  <2>8. ASSUME NEW l \in CommandLines, EnterLine(l) PROVE UNCHANGED format_vars
    BY <2>8 DEF EnterLine
  <2>9. CASE SplitWord \/ RedirectEcho \/ RedirectCat \/ Redirected \/ execute_echo
             \/ execute_cat \/ execute_rm \/ execute_mkfile \/ CopyStep \/ execute_ping
             \/ RunNothing \/ PrintMessage
    BY <2>1, <2>9 DEF SplitWord, RedirectEcho, RedirectCat, Redirected, execute_echo,
       execute_cat, execute_rm, execute_mkfile, CopyStep, execute_ping, RunNothing,
       PrintMessage
  <2>10. CASE UNCHANGED vars
    BY <2>1, <2>10 DEF vars
  <2> QED
    BY <1>2, <2>1, <2>3, <2>4, <2>5, <2>6, <2>7, <2>8, <2>9, <2>10 DEF CommandNext, Step
<1>3. FitInv => NumbersFit
  BY DEF FitInv, Fit, NumbersFit
<1> QED
  BY <1>1, <1>2, <1>3, PTL DEF CommandSpec

-----------------------------------------------------------------------------
(* Words                                                                   *)

Chars == STRING \cup {Space, End}

\* The line as it is split, and the zero at its end.
Split(l, typed) == IF typed THEN l ELSE LowerCaseOf(l)
WholeOf(l, typed) == Append(Split(l, typed), End)
Whole == WholeOf(line, original)

\* The word that begins at b ends with a zero, at or before the token.
Whole_Word(b) ==
  \E e \in b..Len(line) :
    /\ \A m \in b..e : copy[m] = Whole[m] /\ line[m] # Space
    /\ copy[e + 1] = End
    /\ e = Len(line) \/ line[e + 1] = Space
    /\ e < token

\* What is behind the token is the line still; the words before it are found.
Splitting ==
  /\ line \in CommandLines /\ original \in BOOLEAN
  /\ copy \in Seq(Chars) /\ Len(copy) = Len(line) + 1
  /\ token \in 1..(Len(line) + 1)
  /\ \A m \in token..(Len(line) + 1) : copy[m] = Whole[m]
  /\ token = 1 \/ token = Len(line) + 1 \/ line[token - 1] = Space
  /\ args \in Seq(1..Len(line)) /\ Len(args) < ARGS
  /\ \A i \in 1..Len(args) :
       /\ args[i] \in Begins(line) /\ args[i] < token
       /\ \A j \in 1..(i - 1) : args[j] < args[i]
       /\ Whole_Word(args[i])
  /\ \A b \in Begins(line) : b < token => \E i \in 1..Len(args) : args[i] = b

SplitInv ==
  /\ stage \in {"split", "run"} => Splitting
  /\ stage = "run" => \/ Len(args) = ARGS - 1
                      \/ \A b \in Begins(line) : b < token

\* Of the places in a range that have something, there is a first.
LEMMA FirstPlace ==
  ASSUME NEW lo \in Nat, NEW hi \in Nat, NEW S, S \subseteq lo..hi, S # {}
  PROVE  \E j \in S : \A m \in lo..(j - 1) : m \notin S
<1> DEFINE R == {ss \in Nat \X Nat : ss[1] < ss[2]}
<1>1. OpToRel(<, Nat) = R
  BY DEF OpToRel
<1>2. IsWellFoundedOn(R, Nat)
  BY <1>1, NatLessThanWellFounded
<1> HIDE DEF R
<1>3. S \subseteq Nat
  OBVIOUS
<1>4. PICK j \in S : \A m \in S : ~(<<m, j>> \in R)
  BY <1>2, <1>3, WFMin
<1>5. ASSUME NEW m \in lo..(j - 1) PROVE m \notin S
  <2>1. m \in Nat /\ j \in Nat /\ m < j
    BY <1>3
  <2>2. <<m, j>> \in R
    BY <2>1 DEF R
  <2> QED
    BY <1>4, <2>2
<1> QED
  BY <1>5

\* Lower case changes neither the length nor the spaces.
LEMMA LowerLine ==
  ASSUME NEW l \in CommandLines
  PROVE  /\ l \in Seq(Chars) /\ Len(l) \in Nat
         /\ LowerCaseOf(l) \in Seq(Chars) /\ Len(LowerCaseOf(l)) = Len(l)
         /\ \A i \in 1..Len(l) :
              /\ l[i] \in Chars /\ l[i] # End
              /\ LowerCaseOf(l)[i] = LowerCase(l[i]) /\ LowerCaseOf(l)[i] \in Chars
              /\ LowerCaseOf(l)[i] # End
              /\ LowerCaseOf(l)[i] = Space <=> l[i] = Space
<1>1. l \in Seq(Chars) /\ \A i \in 1..Len(l) : l[i] # End
  <2>1. l \in Seq(STRING) /\ \A i \in 1..Len(l) : l[i] # End
    BY CommandAssumption
  <2> QED
    BY <2>1 DEF Chars
<1>2. Len(l) \in Nat /\ DOMAIN l = 1..Len(l) /\ \A i \in 1..Len(l) : l[i] \in Chars
  BY <1>1
<1>3. LowerCaseOf(l) = [i \in 1..Len(l) |-> LowerCase(l[i])]
  BY <1>2 DEF LowerCaseOf
<1>4. ASSUME NEW i \in 1..Len(l)
      PROVE  /\ LowerCase(l[i]) \in Chars /\ LowerCase(l[i]) # End
             /\ LowerCase(l[i]) = Space <=> l[i] = Space
  <2>1. CASE l[i] \in DOMAIN Lower
    BY <2>1, CommandAssumption DEF LowerCase, Chars
  <2>2. CASE l[i] \notin DOMAIN Lower
    BY <1>1, <1>2, <2>2 DEF LowerCase
  <2> QED
    BY <2>1, <2>2
<1>5. LowerCaseOf(l) \in Seq(Chars) /\ Len(LowerCaseOf(l)) = Len(l)
  BY <1>2, <1>3, <1>4
<1> QED
  BY <1>1, <1>2, <1>3, <1>4, <1>5

\* So the line that is split has its words where the line typed has them.
LEMMA WholeLine ==
  ASSUME NEW l \in CommandLines, NEW typed
  PROVE  /\ Len(l) \in Nat /\ DOMAIN l = 1..Len(l)
         /\ WholeOf(l, typed) \in Seq(Chars) /\ Len(WholeOf(l, typed)) = Len(l) + 1
         /\ WholeOf(l, typed)[Len(l) + 1] = End /\ End # Space /\ End \in Chars
         /\ Split(l, typed) \in Seq(Chars) /\ Len(Split(l, typed)) = Len(l)
         /\ \A m \in 1..Len(l) :
              /\ WholeOf(l, typed)[m] = Split(l, typed)[m] /\ WholeOf(l, typed)[m] # End
              /\ WholeOf(l, typed)[m] = Space <=> l[m] = Space
<1> DEFINE s == Split(l, typed)
<1>1. /\ s \in Seq(Chars) /\ Len(s) = Len(l) /\ l \in Seq(Chars)
      /\ \A m \in 1..Len(l) : s[m] # End /\ (s[m] = Space <=> l[m] = Space)
  <2>1. CASE typed
    BY <2>1, LowerLine DEF Split
  <2>2. CASE ~typed
    BY <2>2, LowerLine DEF Split
  <2> QED
    BY <2>1, <2>2
<1> HIDE DEF s
<1>2. End \in Chars /\ End # Space
  <2>1. End \in Chars
    BY DEF Chars
  <2>2. End # Space
    BY Zenon DEF End, Space
  <2> QED
    BY <2>1, <2>2
<1>3. /\ Append(s, End) \in Seq(Chars)
      /\ Len(Append(s, End)) = Len(s) + 1
      /\ Append(s, End)[Len(s) + 1] = End
      /\ \A m \in 1..Len(s) : Append(s, End)[m] = s[m]
  BY <1>1, <1>2
<1>4. Len(l) \in Nat /\ DOMAIN l = 1..Len(l)
  BY <1>1
<1>5. WholeOf(l, typed) = Append(s, End)
  BY DEF WholeOf, s
<1> QED
  BY <1>1, <1>2, <1>3, <1>4, <1>5 DEF s

\* What the loops over the spaces and over a word come to.
LEMMA SkipIs ==
  ASSUME Splitting
  PROVE  /\ Skip(token, {Space}) \in token..(Len(line) + 1)
         /\ copy[Skip(token, {Space})] # Space
         /\ \A m \in token..(Skip(token, {Space}) - 1) : copy[m] = Space
<1> DEFINE S == {j \in token..Len(copy) : copy[j] \notin {Space}}
<1>1. /\ Len(line) \in Nat /\ Len(copy) = Len(line) + 1 /\ token \in 1..(Len(line) + 1)
      /\ copy[Len(line) + 1] = End /\ End # Space
  BY WholeLine DEF Splitting, Whole
<1>2. S \subseteq token..Len(copy) /\ S # {} /\ token \in Nat /\ Len(copy) \in Nat
  BY <1>1
<1> HIDE DEF S
<1>3. PICK j \in S : \A m \in token..(j - 1) : m \notin S
  BY <1>2, FirstPlace
<1>4. /\ j \in token..Len(copy) /\ copy[j] \notin {Space}
      /\ \A m \in token..(j - 1) : copy[m] \in {Space}
  BY <1>1, <1>3 DEF S
<1>5. \E i \in token..Len(copy) :
        copy[i] \notin {Space} /\ \A m \in token..(i - 1) : copy[m] \in {Space}
  BY <1>4
<1>6. /\ Skip(token, {Space}) \in token..Len(copy)
      /\ copy[Skip(token, {Space})] \notin {Space}
      /\ \A m \in token..(Skip(token, {Space}) - 1) : copy[m] \in {Space}
  BY <1>5 DEF Skip
<1> QED
  BY <1>1, <1>6

LEMMA FindIs ==
  ASSUME NEW chars, NEW i \in Nat, Len(copy) \in Nat,
         NEW z \in i..Len(copy), copy[z] \in chars
  PROVE  /\ Find(i, chars) \in i..z /\ copy[Find(i, chars)] \in chars
         /\ \A m \in i..(Find(i, chars) - 1) : copy[m] \notin chars
<1> DEFINE S == {j \in i..Len(copy) : copy[j] \in chars}
<1>1. S \subseteq i..Len(copy) /\ S # {}
  OBVIOUS
<1>2. PICK j \in S : \A m \in i..(j - 1) : m \notin S
  BY <1>1, FirstPlace
<1>3. /\ j \in i..Len(copy) /\ copy[j] \in chars
      /\ \A m \in i..(j - 1) : copy[m] \notin chars
  BY <1>2
<1>4. \E f \in i..Len(copy) : copy[f] \in chars /\ \A m \in i..(f - 1) : copy[m] \notin chars
  BY <1>3
<1>5. /\ Find(i, chars) \in i..Len(copy) /\ copy[Find(i, chars)] \in chars
      /\ \A m \in i..(Find(i, chars) - 1) : copy[m] \notin chars
  BY <1>4 DEF Find
<1>6. ~(z < Find(i, chars))
  BY <1>5
<1> QED
  BY <1>5, <1>6

\* A line is about to be split.
LEMMA StartSplits ==
  ASSUME line' \in CommandLines, original' \in BOOLEAN, StartSplit(Split(line', original'))
  PROVE  SplitInv'
<1>1. /\ Len(line') \in Nat /\ Whole' \in Seq(Chars) /\ Len(Whole') = Len(line') + 1
  BY WholeLine DEF Whole
<1>2. copy' = Whole' /\ token' = 1 /\ args' = << >> /\ stage' = "split"
  BY DEF StartSplit, Whole, WholeOf
<1>3. ARGS > 0 /\ ARGS \in Nat
  BY CommandAssumption
<1>4. Len(args') = 0 /\ args' \in Seq(1..Len(line'))
  BY <1>2
<1>5. \A b \in Begins(line)' : ~(b < token')
  BY <1>1, <1>2, WholeLine DEF Begins
<1>6. Splitting'
  BY <1>1, <1>2, <1>3, <1>4, <1>5 DEF Splitting
<1> QED
  BY <1>2, <1>6 DEF SplitInv

\* One pass of the loop that looks for words.
LEMMA SplitWordInv == SplitInv /\ SplitWord => SplitInv'
<1> SUFFICES ASSUME SplitInv, SplitWord PROVE SplitInv'
  OBVIOUS
<1> DEFINE first == Skip(token, {Space})
           after == Find(first, {Space, End})
           L     == Len(line)
<1>1. Splitting /\ stage = "split" /\ line' = line /\ original' = original
  BY DEF SplitInv, SplitWord
<1>2. /\ L \in Nat /\ DOMAIN line = 1..L /\ End # Space /\ End \in Chars
      /\ Len(copy) = L + 1 /\ copy \in Seq(Chars) /\ token \in 1..(L + 1)
      /\ \A m \in token..(L + 1) : copy[m] = Whole[m]
      /\ Whole[L + 1] = End
      /\ \A m \in 1..L : Whole[m] # End /\ (Whole[m] = Space <=> line[m] = Space)
      /\ Whole' = Whole
  BY <1>1, WholeLine DEF Splitting, Whole
<1>3. /\ first \in token..(L + 1) /\ copy[first] # Space
      /\ \A m \in token..(first - 1) : copy[m] = Space
  BY <1>1, SkipIs
<1> HIDE DEF first
<1>4. CASE ~MoreWords \/ copy[first] = End
  <2>1. stage' = "run" /\ UNCHANGED <<copy, token, args>>
    BY <1>4 DEF SplitWord, first
  <2>0. Begins(line)' = Begins(line) /\ Len(line)' = L
    BY <1>1 DEF Begins
  <2>2. Splitting'
    <3>1. \A b : Whole_Word(b) => Whole_Word(b)'
      BY <1>1, <1>2, <2>1 DEF Whole_Word
    <3>2. \A i \in 1..Len(args') :
            /\ args'[i] \in Begins(line)' /\ args'[i] < token'
            /\ \A j \in 1..(i - 1) : args'[j] < args'[i]
            /\ Whole_Word(args[i])'
      BY <1>1, <2>0, <2>1, <3>1 DEF Splitting
    <3>3. \A b \in Begins(line)' : b < token' => \E i \in 1..Len(args') : args'[i] = b
      BY <1>1, <2>0, <2>1 DEF Splitting
    <3>4. /\ line' \in CommandLines /\ original' \in BOOLEAN
          /\ copy' \in Seq(Chars) /\ Len(copy') = Len(line') + 1
          /\ token' \in 1..(Len(line') + 1)
          /\ \A m \in token'..(Len(line') + 1) : copy'[m] = Whole'[m]
          /\ token' = 1 \/ token' = Len(line') + 1 \/ line'[token' - 1] = Space
          /\ args' \in Seq(1..Len(line')) /\ Len(args') < ARGS
      BY <1>1, <1>2, <2>1 DEF Splitting
    <3> QED
      BY <3>2, <3>3, <3>4 DEF Splitting
  <2>3. ASSUME Len(args) # ARGS - 1, NEW b \in Begins(line) PROVE b < token
    <3>1. Len(args) < ARGS - 1
      BY <1>1, <2>3, CommandAssumption DEF Splitting
    <3>2. first = L + 1
      <4>1. CASE copy[first] = End
        BY <1>2, <1>3, <4>1
      <4>2. CASE ~MoreWords
        BY <1>2, <1>3, <3>1, <4>2 DEF MoreWords
      <4> QED
        BY <1>4, <4>1, <4>2
    <3>3. b \in 1..L /\ line[b] # Space
      BY <1>2 DEF Begins
    <3>4. ~(b >= token)
      BY <1>2, <1>3, <3>2, <3>3
    <3> QED
      BY <1>2, <3>3, <3>4
  <2> QED
    BY <2>0, <2>1, <2>2, <2>3 DEF SplitInv
<1>5. CASE ~(~MoreWords \/ copy[first] = End)
  <2>1. first \in 1..L /\ line[first] # Space
    BY <1>2, <1>3, <1>5
  <2>2. /\ after \in first..(L + 1) /\ copy[after] \in {Space, End}
        /\ \A m \in first..(after - 1) : copy[m] \notin {Space, End}
    <3>1. first \in Nat /\ Len(copy) \in Nat /\ L + 1 \in first..Len(copy)
      BY <1>2, <1>3
    <3>2. copy[L + 1] \in {Space, End}
      BY <1>2
    <3> QED
      BY <1>2, <3>1, <3>2, FindIs
  <2>3. /\ args' = Append(args, first) /\ copy' = Cut(after)
        /\ token' = IF copy[after] = End THEN after ELSE after + 1
        /\ stage' = stage
    BY <1>5 DEF SplitWord, first
  <2> HIDE DEF after
  <2>4. first < after
    BY <1>2, <1>3, <1>5, <2>1, <2>2
  <2>5. /\ copy[after] = End <=> after = L + 1
        /\ after # L + 1 => line[after] = Space /\ token' = after + 1
        /\ after = L + 1 => token' = after
        /\ token' \in 1..(L + 1) /\ token <= after /\ after <= token'
    <3>1. after \in 1..(L + 1) /\ token <= after
      BY <1>2, <1>3, <2>1, <2>2
    <3>2. copy[after] = Whole[after]
      BY <1>2, <3>1
    <3>3. CASE after = L + 1
      <4>1. copy[after] = End
        BY <1>2, <3>2, <3>3
      <4> QED
        BY <1>2, <2>3, <3>1, <3>3, <4>1
    <3>4. CASE after # L + 1
      <4>1. after \in 1..L
        BY <1>2, <3>1, <3>4
      <4>2. copy[after] # End /\ line[after] = Space
        BY <1>2, <2>2, <3>2, <4>1
      <4> QED
        BY <1>2, <2>3, <3>1, <3>4, <4>1, <4>2
    <3> QED
      BY <3>3, <3>4
  <2>6. /\ copy' \in Seq(Chars) /\ Len(copy') = L + 1 /\ copy'[after] = End
        /\ \A m \in 1..(L + 1) : m # after => copy'[m] = copy[m]
    BY <1>2, <2>1, <2>2, <2>3 DEF Cut
  <2>7. \A m \in token'..(L + 1) : copy'[m] = Whole'[m]
    BY <1>2, <2>2, <2>5, <2>6
  <2>8. token' = 1 \/ token' = L + 1 \/ line[token' - 1] = Space
    BY <2>2, <2>5, <1>2
  <2>9. first \in Begins(line)
    <3>1. first = 1 \/ line[first - 1] = Space
      <4>1. CASE first = token
        BY <1>1, <1>2, <2>1, <4>1 DEF Splitting
      <4>2. CASE first # token
        <5>1. first - 1 \in token..(first - 1) /\ first - 1 \in 1..L
          BY <1>2, <1>3, <2>1, <4>2
        <5>2. copy[first - 1] = Space /\ copy[first - 1] = Whole[first - 1]
          BY <1>2, <1>3, <5>1
        <5> QED
          BY <1>2, <5>1, <5>2
      <4> QED
        BY <4>1, <4>2
    <3> QED
      BY <1>2, <2>1, <3>1 DEF Begins
  <2>10. /\ args \in Seq(1..L) /\ Len(args) \in Nat /\ Len(args) < ARGS - 1
         /\ args' \in Seq(1..L) /\ Len(args') = Len(args) + 1
         /\ args'[Len(args) + 1] = first
         /\ \A i \in 1..Len(args) : args'[i] = args[i]
    <3>1. args \in Seq(1..L) /\ Len(args) < ARGS - 1
      BY <1>1, <1>5 DEF Splitting, MoreWords
    <3> QED
      BY <2>1, <2>3, <3>1
  <2>11. \E e \in first..L :
           /\ \A m \in first..e : copy'[m] = Whole'[m] /\ line[m] # Space
           /\ copy'[e + 1] = End
           /\ e = L \/ line[e + 1] = Space
           /\ e < token'
    <3>1. after - 1 \in first..L /\ after - 1 < token' /\ (after - 1) + 1 = after
      BY <1>2, <2>1, <2>2, <2>4, <2>5
    <3>2. \A m \in first..(after - 1) : copy'[m] = Whole'[m] /\ line[m] # Space
      <4> SUFFICES ASSUME NEW m \in first..(after - 1)
                   PROVE  copy'[m] = Whole'[m] /\ line[m] # Space
        OBVIOUS
      <4>1. m \in 1..L /\ m \in token..(L + 1) /\ m # after
        BY <1>2, <1>3, <2>1, <2>2
      <4>2. copy'[m] = copy[m] /\ copy[m] = Whole[m] /\ copy[m] # Space
        BY <1>2, <2>2, <2>6, <4>1
      <4> QED
        BY <1>2, <4>1, <4>2
    <3>3. copy'[(after - 1) + 1] = End
      BY <2>6, <3>1
    <3>4. after - 1 = L \/ line[(after - 1) + 1] = Space
      BY <1>2, <2>2, <2>5, <3>1
    <3> QED
      BY <3>1, <3>2, <3>3, <3>4
  <2>12. ASSUME NEW b \in 1..L, Whole_Word(b) PROVE Whole_Word(b)'
    <3>1. PICK e \in b..L : /\ \A m \in b..e : copy[m] = Whole[m] /\ line[m] # Space
                            /\ copy[e + 1] = End
                            /\ e = L \/ line[e + 1] = Space
                            /\ e < token
      BY <2>12 DEF Whole_Word
    <3>2. e + 1 \in 1..(L + 1) /\ e + 1 < after /\ e < token'
      <4>1. e \in 1..L /\ e < token /\ L \in Nat /\ token \in Nat
        <5>1. b \in 1..L /\ L \in Nat /\ token \in 1..(L + 1)
          BY <1>2
        <5>2. e \in b..L /\ e < token
          BY <3>1
        <5> QED
          BY <5>1, <5>2
      <4>2. first \in Nat /\ token <= first
        BY <1>2, <1>3
      <4>3. after \in Nat /\ token' \in Nat /\ first < after /\ after <= token'
        BY <1>2, <2>2, <2>4, <2>5, <4>2
      <4> QED
        BY <4>1, <4>2, <4>3
    <3>3. copy'[e + 1] = End
      BY <2>6, <3>1, <3>2, SMTT(30)
    <3>4. \A m \in b..e : copy'[m] = Whole'[m] /\ line[m] # Space
      <4> SUFFICES ASSUME NEW m \in b..e PROVE copy'[m] = Whole'[m] /\ line[m] # Space
        OBVIOUS
      <4>1. m \in 1..(L + 1) /\ m # after
        BY <1>2, <2>2, <3>2
      <4> QED
        BY <1>2, <2>6, <3>1, <4>1
    <3> QED
      BY <1>1, <3>1, <3>2, <3>3, <3>4 DEF Whole_Word
  <2>13. /\ first < token' /\ first >= token /\ token < token'
         /\ token \in Nat /\ token' \in Nat /\ first \in Nat
    BY <1>2, <1>3, <2>1, <2>2, <2>4, <2>5
  <2>14. ASSUME NEW i \in 1..Len(args')
         PROVE  /\ args'[i] \in Begins(line) /\ args'[i] < token'
                /\ \A j \in 1..(i - 1) : args'[j] < args'[i]
                /\ Whole_Word(args[i])'
    <3>1. \A q \in 1..Len(args) : /\ args[q] \in Begins(line) /\ args[q] < token
                                  /\ \A j \in 1..(q - 1) : args[j] < args[q]
                                  /\ Whole_Word(args[q]) /\ args[q] \in 1..L
      <4> SUFFICES ASSUME NEW q \in 1..Len(args)
                   PROVE  /\ args[q] \in Begins(line) /\ args[q] < token
                          /\ \A j \in 1..(q - 1) : args[j] < args[q]
                          /\ Whole_Word(args[q]) /\ args[q] \in 1..L
        OBVIOUS
      <4>1. args[q] \in 1..L
        BY <2>10
      <4> QED
        BY <1>1, <4>1 DEF Splitting
    <3>2. CASE i = Len(args) + 1
      <4>1. args'[i] = first
        BY <2>10, <3>2
      <4>2. \A j \in 1..(i - 1) : args'[j] < first
        <5> SUFFICES ASSUME NEW j \in 1..(i - 1) PROVE args'[j] < first
          OBVIOUS
        <5>1. j \in 1..Len(args) /\ args'[j] = args[j]
          BY <2>10, <3>2
        <5>2. args[j] \in 1..L /\ args[j] < token
          BY <3>1, <5>1
        <5> QED
          BY <1>2, <2>13, <5>1, <5>2
      <4>3. Whole_Word(args[i])'
        BY <1>1, <2>11, <4>1 DEF Whole_Word
      <4> QED
        BY <2>9, <2>13, <4>1, <4>2, <4>3
    <3>3. CASE i # Len(args) + 1
      <4>1. i \in 1..Len(args) /\ args'[i] = args[i] /\ args[i] \in 1..L
        BY <2>10, <3>1, <3>3
      <4>2. \A j \in 1..(i - 1) : args'[j] < args'[i]
        <5> SUFFICES ASSUME NEW j \in 1..(i - 1) PROVE args'[j] < args'[i]
          OBVIOUS
        <5>1. j \in 1..Len(args) /\ args'[j] = args[j]
          BY <2>10, <4>1
        <5> QED
          BY <3>1, <4>1, <5>1
      <4>3. Whole_Word(args[i])'
        <5> DEFINE b == args[i]
        <5>1. b \in 1..L /\ Whole_Word(b)
          BY <3>1, <4>1
        <5> HIDE DEF b
        <5>2. PICK e \in b..L : /\ \A m \in b..e : copy'[m] = Whole'[m] /\ line'[m] # Space
                                /\ copy'[e + 1] = End
                                /\ e = L \/ line'[e + 1] = Space
                                /\ e < token'
          BY <5>1, <2>12, <1>1 DEF Whole_Word
        <5>3. args'[i] = b /\ Len(line') = L
          BY <1>1, <4>1 DEF b
        <5> QED
          BY <5>2, <5>3 DEF Whole_Word
      <4> QED
        BY <1>2, <2>13, <3>1, <4>1, <4>2, <4>3
    <3> QED
      BY <3>2, <3>3
  <2>15. ASSUME NEW b \in Begins(line), b < token'
         PROVE  \E i \in 1..Len(args') : args'[i] = b
    <3>1. b \in 1..L /\ line[b] # Space /\ (b = 1 \/ line[b - 1] = Space)
      BY <1>2 DEF Begins
    <3>2. CASE b < token
      <4>1. PICK i \in 1..Len(args) : args[i] = b
        BY <1>1, <3>2 DEF Splitting
      <4> QED
        BY <2>10, <4>1
    <3>3. CASE b >= token
      <4>1. ~(b < first)
        <5>1. ASSUME b < first PROVE FALSE
          <6>1. b \in token..(first - 1) /\ b \in token..(L + 1)
            BY <1>2, <1>3, <3>1, <3>3, <5>1
          <6> QED
            BY <1>2, <1>3, <3>1, <6>1
        <5> QED
          BY <5>1
      <4>2. ~(b > first)
        <5>1. ASSUME b > first PROVE FALSE
          <6>1. b < after
            BY <1>2, <2>2, <2>5, <3>1, <2>15
          <6>2. b - 1 \in first..(after - 1) /\ b - 1 \in 1..L /\ b - 1 \in token..(L + 1)
            BY <1>2, <1>3, <2>1, <2>2, <3>1, <5>1, <6>1
          <6>3. copy[b - 1] # Space /\ copy[b - 1] = Whole[b - 1]
            BY <1>2, <2>2, <6>2
          <6>4. b # 1 /\ line[b - 1] = Space
            BY <2>1, <3>1, <5>1
          <6> QED
            BY <1>2, <6>2, <6>3, <6>4
        <5> QED
          BY <5>1
      <4>3. b = first
        BY <2>13, <3>1, <4>1, <4>2
      <4> QED
        BY <2>10, <4>3
    <3> QED
      BY <2>13, <3>1, <3>2, <3>3
  <2>16. Begins(line)' = Begins(line) /\ Len(line)' = L
    BY <1>1 DEF Begins
  <2>17. Splitting'
    <3>1. /\ line' \in CommandLines /\ original' \in BOOLEAN
          /\ copy' \in Seq(Chars) /\ Len(copy') = Len(line') + 1
          /\ token' \in 1..(Len(line') + 1)
      BY <1>1, <2>5, <2>6 DEF Splitting
    <3>2. /\ \A m \in token'..(Len(line') + 1) : copy'[m] = Whole'[m]
          /\ token' = 1 \/ token' = Len(line') + 1 \/ line'[token' - 1] = Space
      BY <1>1, <2>7, <2>8
    <3>3. args' \in Seq(1..Len(line')) /\ Len(args') < ARGS
      BY <1>1, <2>10, CommandAssumption
    <3>4. \A i \in 1..Len(args') :
            /\ args'[i] \in Begins(line)' /\ args'[i] < token'
            /\ \A j \in 1..(i - 1) : args'[j] < args'[i]
            /\ Whole_Word(args[i])'
      BY <2>14, <2>16
    <3>5. \A b \in Begins(line)' : b < token' => \E i \in 1..Len(args') : args'[i] = b
      BY <2>15, <2>16
    <3> QED
      BY <3>1, <3>2, <3>3, <3>4, <3>5 DEF Splitting
  <2>18. stage' = "split"
    BY <1>1, <2>3
  <2> QED
    BY <2>17, <2>18 DEF SplitInv
<1> QED
  BY <1>4, <1>5

\* The other steps split nothing, but for the two that begin to.
LEMMA SplitStep == SplitInv /\ [CommandNext]_vars => SplitInv'
<1> SUFFICES ASSUME SplitInv, [CommandNext]_vars PROVE SplitInv'
  OBVIOUS
<1> DEFINE Quiet == stage' \notin {"split", "run"}
<1>0. Quiet => SplitInv'
  BY DEF SplitInv
<1>1. CASE SplitWord
  BY <1>1, SplitWordInv
<1>2. ASSUME NEW l \in CommandLines, EnterLine(l) PROVE SplitInv'
  <2>1. line' \in CommandLines /\ original' \in BOOLEAN
    BY <1>2 DEF EnterLine
  <2>2. StartSplit(Split(line', original'))
    BY <1>2 DEF EnterLine, Split
  <2> QED
    BY <2>1, <2>2, StartSplits
<1>3. CASE execute_echo
  <2>1. CASE stage = "run" /\ original /\ Ready
    BY <1>0, <2>1 DEF Ready
  <2>2. CASE Runs("echo") /\ StartSplit(line) /\ original' = TRUE /\ UNCHANGED line
    <3>1. line' = line /\ original' = TRUE /\ StartSplit(line)
      BY <2>2
    <3>2. line \in CommandLines
      BY <2>2 DEF Runs, Dispatches, SplitInv, Splitting
    <3>3. StartSplit(Split(line', original'))
      BY <3>1 DEF Split
    <3> QED
      BY <3>1, <3>2, <3>3, StartSplits
  <2> QED
    BY <1>3, <2>1, <2>2 DEF execute_echo
<1>4. CASE RedirectEcho
  BY <1>0, <1>4 DEF RedirectEcho
<1>5. CASE RedirectCat
  BY <1>0, <1>5 DEF RedirectCat, Ready
<1>6. CASE Redirected
  BY <1>0, <1>6 DEF Redirected, WriteText, CopyName, Ends, Ready, terminal_printf
<1>7. CASE execute_cat
  BY <1>0, <1>7 DEF execute_cat, ShowFile, Ready, terminal_printf
<1>8. CASE execute_rm
  BY <1>0, <1>8 DEF execute_rm, ShowFile, Ends, Ready, terminal_printf
<1>9. CASE execute_mkfile
  BY <1>0, <1>9 DEF execute_mkfile, CopyName, Ready
<1>10. CASE CopyStep
  BY <1>0, <1>10 DEF CopyStep, Ready, terminal_printf
<1>11. CASE execute_clock
  BY <1>0, <1>11 DEF execute_clock, Prints
<1>12. CASE execute_kill
  BY <1>0, <1>12 DEF execute_kill, Prints, Ready
<1>13. CASE NumberStep
  BY <1>0, <1>13 DEF NumberStep, Ready, command_vars
<1>14. CASE execute_dhcpcd
  BY <1>0, <1>14 DEF execute_dhcpcd, Ready, terminal_printf, Prints
<1>15. CASE execute_ifconfig
  BY <1>0, <1>15 DEF execute_ifconfig, Ready, Prints
<1>16. CASE execute_ping
  BY <1>0, <1>16 DEF execute_ping, Ready, terminal_printf
<1>17. CASE RunNothing
  BY <1>0, <1>17 DEF RunNothing, Ready
<1>18. CASE PrintMessage
  BY <1>0, <1>18 DEF PrintMessage, Ends, Ready
<1>19. CASE UNCHANGED vars
  BY <1>19 DEF vars, command_vars, split_vars, SplitInv, Splitting, Whole_Word, Whole, Begins
<1> QED
  BY <1>1, <1>2, <1>3, <1>4, <1>5, <1>6, <1>7, <1>8, <1>9, <1>10, <1>11, <1>12,
     <1>13, <1>14, <1>15, <1>16, <1>17, <1>18, <1>19 DEF CommandNext, Step

\* A word of the line ends at the only place where it can.
LEMMA WordEnd ==
  ASSUME NEW l, Len(l) \in Nat, NEW b \in 1..Len(l), NEW e \in b..Len(l),
         \A m \in b..e : l[m] # Space, e = Len(l) \/ l[e + 1] = Space
  PROVE  WordAt(l, b) = SubSeq(l, b, e)
<1>0. Len(l) \in Nat
  OBVIOUS
<1> DEFINE P(j) == (\A m \in b..j : l[m] # Space) /\ (j = Len(l) \/ l[j + 1] = Space)
           f    == CHOOSE j \in b..Len(l) : P(j)
<1>1. f \in b..Len(l) /\ P(f)
  <2>1. P(e)
    OBVIOUS
  <2> QED
    BY <2>1
<1>2. WordAt(l, b) = SubSeq(l, b, f)
  BY DEF WordAt
<1> HIDE DEF f
<1>3. ~(f < e)
  <2>1. ASSUME f < e PROVE FALSE
    <3>1. f + 1 \in b..e /\ f # Len(l)
      BY <1>0, <1>1, <2>1
    <3> QED
      BY <1>1, <3>1
  <2> QED
    BY <2>1
<1>4. ~(e < f)
  <2>1. ASSUME e < f PROVE FALSE
    <3>1. e + 1 \in b..f /\ e # Len(l)
      BY <1>0, <1>1, <2>1
    <3> QED
      BY <1>1, <3>1
  <2> QED
    BY <2>1
<1>5. f = e
  BY <1>0, <1>1, <1>3, <1>4
<1> QED
  BY <1>2, <1>5

\* A word is read up to the zero that its end got.
LEMMA WordIs ==
  ASSUME Splitting, NEW i \in 1..Len(args)
  PROVE  /\ args[i] \in 1..Len(line) /\ Len(line) \in Nat
         /\ \E e \in args[i]..Len(line) :
              /\ \A m \in args[i]..e : copy[m] = Whole[m] /\ line[m] # Space
              /\ e = Len(line) \/ line[e + 1] = Space
              /\ Word(i) = SubSeq(copy, args[i], e)
<1> DEFINE L == Len(line)
           b == args[i]
<1>1. /\ line \in CommandLines /\ L \in Nat /\ b \in 1..L
      /\ copy \in Seq(Chars) /\ Len(copy) = L + 1 /\ token \in 1..(L + 1)
      /\ Whole_Word(b)
  <2>1. args \in Seq(1..L) /\ line \in CommandLines
    BY DEF Splitting
  <2>2. L \in Nat
    BY <2>1, WholeLine
  <2>3. b \in 1..L
    BY <2>1
  <2> QED
    BY <2>1, <2>2, <2>3 DEF Splitting
<1>2. \A m \in 1..L : Whole[m] # End
  BY <1>1, WholeLine DEF Whole
<1> HIDE DEF b
<1>4. PICK e \in b..L : /\ \A m \in b..e : copy[m] = Whole[m] /\ line[m] # Space
                        /\ copy[e + 1] = End
                        /\ e = L \/ line[e + 1] = Space
  BY <1>1 DEF Whole_Word
<1>5. b \in Nat /\ e \in 1..L /\ e + 1 \in b..Len(copy)
  BY <1>1
<1>6. Find(b, {End}) = e + 1
  <2>1. /\ Find(b, {End}) \in b..(e + 1) /\ copy[Find(b, {End})] \in {End}
    BY <1>1, <1>4, <1>5, FindIs
  <2>2. ~(Find(b, {End}) \in b..e)
    BY <1>1, <1>2, <1>4, <1>5, <2>1
  <2> QED
    BY <1>5, <2>1, <2>2
<1>7. Word(i) = SubSeq(copy, b, e)
  <2>1. Word(i) = SubSeq(copy, b, Find(b, {End}) - 1)
    BY DEF Word, b
  <2>2. Find(b, {End}) - 1 = e
    BY <1>5, <1>6
  <2> QED
    BY <2>1, <2>2
<1> QED
  BY <1>1, <1>4, <1>7 DEF b

\* So a word that ends with a zero is read as it was typed, or in lower case.
LEMMA WordRead ==
  ASSUME Splitting, NEW i \in 1..Len(args)
  PROVE  Word(i) = IF original THEN WordAt(line, args[i])
                   ELSE LowerCaseOf(WordAt(line, args[i]))
<1> DEFINE L == Len(line)
           b == args[i]
           w == Split(line, original)
<1>1. /\ line \in CommandLines /\ L \in Nat /\ b \in 1..L
      /\ copy \in Seq(Chars) /\ Len(copy) = L + 1 /\ token \in 1..(L + 1)
      /\ Whole_Word(b)
  <2>1. args \in Seq(1..L) /\ line \in CommandLines
    BY DEF Splitting
  <2>2. L \in Nat
    BY <2>1, WholeLine
  <2>3. b \in 1..L
    BY <2>1
  <2> QED
    BY <2>1, <2>2, <2>3 DEF Splitting
<1>2. /\ w \in Seq(Chars) /\ Len(w) = L
      /\ \A m \in 1..L : Whole[m] = w[m] /\ Whole[m] # End
  BY <1>1, WholeLine DEF Whole
<1>3. line \in Seq(Chars)
  BY <1>1, LowerLine
<1> HIDE DEF b, w
<1>4. PICK e \in b..L : /\ \A m \in b..e : copy[m] = Whole[m] /\ line[m] # Space
                        /\ e = L \/ line[e + 1] = Space
                        /\ Word(i) = SubSeq(copy, b, e)
  BY WordIs DEF b
<1>5. b \in Nat /\ e \in 1..L /\ e + 1 \in b..Len(copy)
  BY <1>1
<1>7. Word(i) = SubSeq(copy, b, e)
  BY <1>4
<1>8. SubSeq(copy, b, e) = SubSeq(w, b, e)
  <2>1. \A m \in b..e : copy[m] = w[m]
    BY <1>1, <1>2, <1>4, <1>5
  <2>2. /\ SubSeq(copy, b, e) = [q \in 1..(e - b + 1) |-> copy[q + b - 1]]
        /\ SubSeq(w, b, e) = [q \in 1..(e - b + 1) |-> w[q + b - 1]]
    <3>1. copy \in Seq(Chars) /\ w \in Seq(Chars)
      BY <1>1, <1>2
    <3>2. b \in Int /\ e \in Int /\ \A q \in Int : q + b - 1 = b + q - 1
      BY <1>1, <1>5
    <3>3. SubSeq(copy, b, e) = [q \in 1..(e - b + 1) |-> copy[b + q - 1]]
      BY <3>1, <3>2
    <3>4. SubSeq(w, b, e) = [q \in 1..(e - b + 1) |-> w[b + q - 1]]
      BY <3>1, <3>2
    <3> QED
      BY <3>2, <3>3, <3>4
  <2>3. ASSUME NEW q \in 1..(e - b + 1) PROVE copy[q + b - 1] = w[q + b - 1]
    <3>1. b \in Int /\ e \in Int
      BY <1>5
    <3>2. q + b - 1 \in b..e
      BY <3>1
    <3> QED
      BY <2>1, <3>2
  <2> QED
    BY <2>2, <2>3
<1>9. WordAt(line, b) = SubSeq(line, b, e)
  BY <1>1, <1>4, WordEnd
<1>10. CASE original
  BY <1>7, <1>8, <1>9, <1>10 DEF w, Split, b
<1>11. CASE ~original
  <2>1. w = LowerCaseOf(line)
    BY <1>11 DEF w, Split
  <2>2. /\ SubSeq(w, b, e) = [q \in 1..(e - b + 1) |-> w[q + b - 1]]
        /\ SubSeq(line, b, e) = [q \in 1..(e - b + 1) |-> line[q + b - 1]]
    BY <1>1, <1>2, <1>3, <1>5
  <2>3. \A m \in 1..L : w[m] = LowerCase(line[m])
    BY <1>1, <2>1, LowerLine
  <2>4. \A q \in 1..(e - b + 1) : w[q + b - 1] = LowerCase(line[q + b - 1])
    BY <1>1, <1>5, <2>3
  <2>5. LowerCaseOf(SubSeq(line, b, e)) = [q \in 1..(e - b + 1) |-> LowerCase(line[q + b - 1])]
    BY <2>2 DEF LowerCaseOf
  <2>6. SubSeq(w, b, e) = LowerCaseOf(SubSeq(line, b, e))
    BY <2>2, <2>4, <2>5
  <2> QED
    BY <1>7, <1>8, <1>9, <1>11, <2>6 DEF b
<1> QED
  BY <1>10, <1>11

\* A command is given the words that were typed, whole, in their order, in lower
\* case or for echo as they were typed, and no fewer than there is room for,
\* whatever line was entered: what execute_command does in place, cutting the
\* copy into words by zeroes, is what the line says.
THEOREM WordsCorrect == CommandSpec => []WordsAreTyped
<1>1. CommandInit => SplitInv
  BY DEF CommandInit, SplitInv
<1>2. SplitInv /\ [CommandNext]_vars => SplitInv'
  BY SplitStep
<1>3. SplitInv => WordsAreTyped
  <2> SUFFICES ASSUME SplitInv, stage = "run" PROVE WordsAreTyped
    BY DEF WordsAreTyped
  <2>1. Splitting /\ (Len(args) = ARGS - 1 \/ \A b \in Begins(line) : b < token)
    BY DEF SplitInv
  <2>2. \A i \in 1..Len(args) :
          Word(i) = IF original THEN WordAt(line, args[i]) ELSE LowerCaseOf(WordAt(line, args[i]))
    BY <2>1, WordRead
  <2>3. /\ Len(args) < ARGS
        /\ \A i \in 1..Len(args) : /\ args[i] \in Begins(line)
                                    /\ \A j \in 1..(i - 1) : args[j] < args[i]
    BY <2>1 DEF Splitting
  <2>4. ASSUME NEW b \in Begins(line)
        PROVE  \/ \E i \in 1..Len(args) : args[i] = b
               \/ Len(args) = ARGS - 1 /\ args[ARGS - 1] < b
    <3>1. CASE b < token
      BY <2>1, <3>1 DEF Splitting
    <3>2. CASE ~(b < token)
      <4>1. Len(args) = ARGS - 1 /\ ARGS - 1 \in 1..Len(args)
        BY <2>1, <3>2, CommandAssumption
      <4>2. args[ARGS - 1] < token
        BY <2>1, <4>1 DEF Splitting
      <4>3. b \in Nat /\ token \in Nat /\ args[ARGS - 1] \in Nat
        <5>1. Len(line) \in Nat /\ DOMAIN line = 1..Len(line)
          BY <2>1, WholeLine DEF Splitting
        <5>2. b \in 1..Len(line) /\ token \in 1..(Len(line) + 1)
          BY <2>1, <5>1 DEF Splitting, Begins
        <5>3. args[ARGS - 1] \in 1..Len(line)
          BY <2>1, <4>1 DEF Splitting
        <5> QED
          BY <5>1, <5>2, <5>3
      <4> QED
        BY <3>2, <4>1, <4>2, <4>3
    <3> QED
      BY <3>1, <3>2
  <2> QED
    BY <2>2, <2>3, <2>4 DEF WordsAreTyped
<1> QED
  BY <1>1, <1>2, <1>3, PTL DEF CommandSpec

-----------------------------------------------------------------------------
(* Definitions by recursion                                                *)

\* A set of numbers that has 0, and with each number the next, has them all.
LEMMA Induction ==
  ASSUME NEW S, 0 \in S, \A i \in Nat : i \in S => i + 1 \in S
  PROVE  \A i \in Nat : i \in S
<1> SUFFICES ASSUME NEW i \in Nat, i \notin S PROVE FALSE
  OBVIOUS
<1> DEFINE T == {j \in 0..i : j \notin S}
<1>1. T \subseteq 0..i /\ T # {}
  OBVIOUS
<1>2. PICK j \in T : \A m \in 0..(j - 1) : m \notin T
  BY <1>1, FirstPlace
<1>3. j # 0 /\ j - 1 \in 0..(j - 1) /\ j - 1 \in 0..i
  BY <1>2
<1>4. j - 1 \in S
  BY <1>2, <1>3
<1> QED
  BY <1>2, <1>3, <1>4

\* A function whose value at a place is computed from its value at an earlier place,
\* up to e.
Partial(S, F, earlier, z, e, g) ==
  /\ g \in [0..e -> S] /\ g[0] = z
  /\ \A m \in 1..e : g[m] = F[m][g[earlier[m]]]

\* Such a function exists up to every place,
LEMMA PartialExists ==
  ASSUME NEW S, NEW F \in [Nat -> [S -> S]], NEW earlier \in [Nat -> Nat],
         \A i \in Nat \ {0} : earlier[i] < i, NEW z \in S
  PROVE  \A i \in Nat : \E g : Partial(S, F, earlier, z, i, g)
<1> DEFINE T == {i \in Nat : \E g : Partial(S, F, earlier, z, i, g)}
<1>1. 0 \in T
  <2> DEFINE g == [m \in 0..0 |-> z]
  <2>1. Partial(S, F, earlier, z, 0, g)
    BY DEF Partial
  <2> QED
    BY <2>1
<1>2. ASSUME NEW i \in Nat, i \in T PROVE i + 1 \in T
  <2>1. PICK g : Partial(S, F, earlier, z, i, g)
    BY <1>2
  <2> DEFINE h == [m \in 0..(i + 1) |-> IF m <= i THEN g[m] ELSE F[i + 1][g[earlier[i + 1]]]]
  <2>2. earlier[i + 1] \in 0..i
    OBVIOUS
  <2>3. h \in [0..(i + 1) -> S]
    <3>1. g[earlier[i + 1]] \in S
      BY <2>1, <2>2 DEF Partial
    <3>2. F[i + 1][g[earlier[i + 1]]] \in S
      BY <3>1
    <3>3. \A m \in 0..i : g[m] \in S
      BY <2>1 DEF Partial
    <3> QED
      BY <3>2, <3>3
  <2>4. \A m \in 0..i : h[m] = g[m]
    OBVIOUS
  <2>5. h[0] = z
    BY <2>1, <2>4 DEF Partial
  <2>6. ASSUME NEW m \in 1..(i + 1) PROVE h[m] = F[m][h[earlier[m]]]
    <3>1. earlier[m] \in 0..i /\ h[earlier[m]] = g[earlier[m]]
      OBVIOUS
    <3>2. CASE m = i + 1
      BY <3>1, <3>2
    <3>3. CASE m # i + 1
      BY <2>1, <2>4, <3>1, <3>3 DEF Partial
    <3> QED
      BY <3>2, <3>3
  <2> HIDE DEF h
  <2>7. Partial(S, F, earlier, z, i + 1, h)
    BY <2>3, <2>5, <2>6 DEF Partial
  <2> QED
    BY <2>7
<1>3. \A i \in Nat : i \in T
  <2> HIDE DEF T
  <2> QED
    BY <1>1, <1>2, Induction
<1> QED
  BY <1>3

\* is the only one,
LEMMA PartialUnique ==
  ASSUME NEW S, NEW F, NEW earlier \in [Nat -> Nat],
         \A i \in Nat \ {0} : earlier[i] < i, NEW z,
         NEW i \in Nat, NEW g, Partial(S, F, earlier, z, i, g),
         NEW j \in Nat, NEW h, Partial(S, F, earlier, z, j, h)
  PROVE  \A m \in Nat : m <= i /\ m <= j => g[m] = h[m]
<1> SUFFICES ASSUME NEW q \in Nat, q <= i, q <= j, g[q] # h[q] PROVE FALSE
  OBVIOUS
<1> DEFINE T == {m \in 0..q : g[m] # h[m]}
<1>1. T \subseteq 0..q /\ T # {}
  OBVIOUS
<1> HIDE DEF T
<1>2. PICK m \in T : \A l \in 0..(m - 1) : l \notin T
  BY <1>1, FirstPlace
<1>3. m # 0 /\ m \in 1..i /\ m \in 1..j /\ earlier[m] \in 0..(m - 1)
  <2>1. m \in 0..q /\ g[m] # h[m] /\ g[0] = h[0]
    BY <1>2 DEF T, Partial
  <2>2. m \in Nat \ {0}
    BY <2>1
  <2> QED
    BY <2>1, <2>2
<1>4. g[earlier[m]] = h[earlier[m]]
  BY <1>2, <1>3 DEF T
<1>5. g[m] = h[m]
  BY <1>3, <1>4 DEF Partial
<1> QED
  BY <1>2, <1>5 DEF T

\* and so there is one for all numbers: a definition by recursion defines.
Recursive(S, F, earlier, z) ==
  /\ F \in [Nat -> [S -> S]] /\ z \in S
  /\ earlier \in [Nat -> Nat] /\ \A i \in Nat \ {0} : earlier[i] < i

Solves(S, F, earlier, z, f) ==
  f \in [Nat -> S] /\ f[0] = z /\ \A i \in Nat \ {0} : f[i] = F[i][f[earlier[i]]]

LEMMA Recursion ==
  ASSUME NEW S, NEW F, NEW earlier, NEW z, Recursive(S, F, earlier, z)
  PROVE  \E f : Solves(S, F, earlier, z, f)
<1>0. /\ F \in [Nat -> [S -> S]] /\ earlier \in [Nat -> Nat] /\ z \in S
      /\ \A i \in Nat \ {0} : earlier[i] < i
  BY DEF Recursive
<1> DEFINE G(i) == CHOOSE g : Partial(S, F, earlier, z, i, g)
           f == [i \in Nat |-> G(i)[i]]
<1>1. \A i \in Nat : Partial(S, F, earlier, z, i, G(i))
  BY <1>0, PartialExists
<1> HIDE DEF G
<1>2. f \in [Nat -> S]
  <2>1. ASSUME NEW i \in Nat PROVE G(i)[i] \in S
    <3>1. G(i) \in [0..i -> S]
      BY <1>1 DEF Partial
    <3> QED
      BY <3>1
  <2> QED
    BY <2>1
<1>3. f[0] = z
  BY <1>1 DEF Partial
<1>4. ASSUME NEW i \in Nat \ {0} PROVE f[i] = F[i][f[earlier[i]]]
  <2>1. earlier[i] \in Nat /\ earlier[i] < i /\ i \in 1..i
    BY <1>0
  <2>2. G(i)[i] = F[i][G(i)[earlier[i]]]
    BY <1>1, <2>1 DEF Partial
  <2>3. G(i)[earlier[i]] = G(earlier[i])[earlier[i]]
    <3>1. Partial(S, F, earlier, z, i, G(i)) /\ Partial(S, F, earlier, z, earlier[i], G(earlier[i]))
      BY <1>1, <2>1
    <3> DEFINE j == earlier[i]
               g == G(i)
               h == G(j)
    <3>2. /\ j \in Nat /\ j <= i /\ j <= j
          /\ Partial(S, F, earlier, z, i, g) /\ Partial(S, F, earlier, z, j, h)
      BY <2>1, <3>1
    <3> HIDE DEF j, g, h
    <3>3. g[j] = h[j]
      BY <1>0, <3>2, PartialUnique
    <3> QED
      BY <3>3 DEF g, h, j
  <2> QED
    BY <2>1, <2>2, <2>3
<1> QED
  BY <1>2, <1>3, <1>4 DEF Solves

\* Decimal is what it is defined to be.
LEMMA DecimalIs ==
  /\ Decimal \in [Nat -> Seq(0..9)]
  /\ \A a \in Nat : Decimal[a] = IF a < 10 THEN << a >> ELSE Append(Decimal[a \div 10], a % 10)
<1> DEFINE S == Seq(0..9)
           F == [i \in Nat |-> [s \in S |-> IF i < 10 THEN << i >> ELSE Append(s, i % 10)]]
           earlier == [i \in Nat |-> i \div 10]
           z == << 0 >>
<1>1. F \in [Nat -> [S -> S]]
  <2>1. ASSUME NEW i \in Nat, NEW s \in S
        PROVE  (IF i < 10 THEN << i >> ELSE Append(s, i % 10)) \in S
    <3>1. i % 10 \in 0..9
      OBVIOUS
    <3>2. CASE i < 10
      BY <3>2
    <3>3. CASE ~(i < 10)
      BY <3>1, <3>3
    <3> QED
      BY <3>2, <3>3
  <2> HIDE DEF S
  <2> QED
    BY <2>1
<1>2. earlier \in [Nat -> Nat] /\ \A i \in Nat \ {0} : earlier[i] < i
  OBVIOUS
<1>3. z \in S
  OBVIOUS
<1>4. \A i \in Nat, s \in S : F[i][s] = IF i < 10 THEN << i >> ELSE Append(s, i % 10)
  OBVIOUS
<1>5. \A i \in Nat : earlier[i] = i \div 10 /\ i \div 10 \in Nat
  OBVIOUS
<1> HIDE DEF S, F, earlier, z
<1>51. Recursive(S, F, earlier, z)
  BY <1>1, <1>2, <1>3 DEF Recursive
<1>52. PICK f : Solves(S, F, earlier, z, f)
  BY <1>51, Recursion
<1>6. f \in [Nat -> S] /\ f[0] = z /\ \A i \in Nat \ {0} : f[i] = F[i][f[earlier[i]]]
  BY <1>52 DEF Solves
<1>7. \A i \in Nat : f[i] = IF i < 10 THEN << i >> ELSE Append(f[i \div 10], i % 10)
  <2> SUFFICES ASSUME NEW i \in Nat
               PROVE  f[i] = IF i < 10 THEN << i >> ELSE Append(f[i \div 10], i % 10)
    OBVIOUS
  <2>1. CASE i = 0
    BY <1>6, <2>1 DEF z
  <2>2. CASE i # 0
    <3>1. f[i] = F[i][f[i \div 10]] /\ f[i \div 10] \in S
      BY <1>5, <1>6, <2>2
    <3> QED
      BY <1>4, <3>1
  <2> QED
    BY <2>1, <2>2
<1>8. f = [i \in Nat |-> IF i < 10 THEN << i >> ELSE Append(f[i \div 10], i % 10)]
  BY <1>6, <1>7
<1>9. Decimal = [i \in Nat |-> IF i < 10 THEN << i >> ELSE Append(Decimal[i \div 10], i % 10)]
  BY <1>8, Zenon DEF Decimal
<1>10. \A a \in Nat : Decimal[a] = IF a < 10 THEN << a >> ELSE Append(Decimal[a \div 10], a % 10)
  BY <1>9
<1>11. ASSUME NEW a \in Nat, Decimal[a] \notin S PROVE FALSE
  <2> DEFINE T == {i \in 0..a : Decimal[i] \notin S}
  <2>1. T \subseteq 0..a /\ T # {}
    BY <1>11
  <2> HIDE DEF T
  <2>2. PICK i \in T : \A m \in 0..(i - 1) : m \notin T
    BY <2>1, FirstPlace
  <2>3. /\ i \in 0..a /\ Decimal[i] \notin S /\ i \in Nat /\ i % 10 \in 0..9
        /\ Decimal[i] = IF i < 10 THEN << i >> ELSE Append(Decimal[i \div 10], i % 10)
    <3>1. i \in 0..a /\ Decimal[i] \notin S
      BY <2>2 DEF T
    <3>2. i \in Nat /\ i % 10 \in 0..9
      BY <3>1
    <3> QED
      BY <1>10, <3>1, <3>2
  <2>4. CASE i < 10
    <3>1. Decimal[i] = << i >> /\ i \in 0..9
      BY <2>3, <2>4
    <3>2. << i >> \in Seq(0..9)
      BY <3>1
    <3> QED
      BY <2>3, <3>1, <3>2 DEF S
  <2>5. CASE ~(i < 10)
    <3>1. i \div 10 \in 0..(i - 1) /\ i \div 10 \in 0..a
      BY <2>3, <2>5
    <3>2. Decimal[i \div 10] \in S
      BY <2>2, <3>1 DEF T
    <3>3. Decimal[i] = Append(Decimal[i \div 10], i % 10)
      BY <2>3, <2>5
    <3>4. Append(Decimal[i \div 10], i % 10) \in Seq(0..9)
      BY <2>3, <3>2 DEF S
    <3> QED
      BY <2>3, <3>3, <3>4 DEF S
  <2> QED
    BY <2>4, <2>5
<1> QED
  BY <1>9, <1>10, <1>11 DEF S

-----------------------------------------------------------------------------
(* Numbers as they are printed                                             *)

Magnitude(x) == IF x < 0 THEN -x ELSE x

\* The digits of what is left of a number.
Rest(a) == IF a = 0 THEN << >> ELSE Decimal[a]

\* From f on s has the last digits of D, the last one first; a has the others.
Backwards(s, f, D, a) ==
  /\ Len(D) = Len(Rest(a)) + Len(s) - f + 1
  /\ \A i \in 1..Len(Rest(a)) : D[i] = Rest(a)[i]
  /\ \A m \in f..Len(s) : s[m] = D[Len(D) + f - m]

\* From f on s has w, the last character first but for the outermost b pairs.
Exchanged(s, f, w, b) ==
  /\ Len(s) = f - 1 + Len(w)
  /\ \A m \in f..Len(s) :
       s[m] = IF m < f + b \/ m > Len(s) - b THEN w[m - f + 1] ELSE w[Len(s) + 1 - m]

\* Up to f s is p.
Follows(s, f, p) ==
  /\ f \in Nat /\ Len(p) = f - 1 /\ Len(p) <= Len(s)
  /\ \A i \in 1..Len(p) : s[i] = p[i]

LEMMA RestStep ==
  ASSUME NEW a \in Nat, a # 0
  PROVE  /\ Rest(a) \in Seq(0..9) /\ Rest(a \div 10) \in Seq(0..9)
         /\ Rest(a) = Append(Rest(a \div 10), a % 10)
         /\ a \div 10 \in Nat /\ a % 10 \in 0..9
<1>1. a \div 10 \in Nat /\ a % 10 \in 0..9
  OBVIOUS
<1>2. /\ Decimal[a] \in Seq(0..9) /\ Decimal[a \div 10] \in Seq(0..9)
      /\ Decimal[a] = IF a < 10 THEN << a >> ELSE Append(Decimal[a \div 10], a % 10)
  BY <1>1, DecimalIs
<1>3. CASE a < 10
  <2>1. a \div 10 = 0 /\ a % 10 = a
    BY <1>3
  <2>2. Rest(a) = << a >> /\ Rest(a \div 10) = << >>
    BY <1>2, <1>3, <2>1 DEF Rest
  <2>3. Append(<< >>, a) = << a >>
    OBVIOUS
  <2> QED
    BY <1>1, <1>2, <2>1, <2>2, <2>3 DEF Rest
<1>4. CASE ~(a < 10)
  <2>1. a \div 10 # 0
    BY <1>4
  <2> QED
    BY <1>1, <1>2, <1>4, <2>1 DEF Rest
<1> QED
  BY <1>3, <1>4

\* A digit more.
LEMMA BackwardsStep ==
  ASSUME NEW s \in Seq(Int), NEW f \in Nat \ {0}, NEW D \in Seq(0..9), NEW a \in Nat,
         a # 0, f <= Len(s) + 1, Backwards(s, f, D, a)
  PROVE  Backwards(Append(s, a % 10), f, D, a \div 10)
<1> DEFINE r == Rest(a)
           q == Rest(a \div 10)
           c == a % 10
           t == Append(s, c)
<1>1. r \in Seq(0..9) /\ q \in Seq(0..9) /\ r = Append(q, c) /\ c \in 0..9
  BY RestStep
<1>2. /\ Len(D) = Len(r) + Len(s) - f + 1
      /\ \A i \in 1..Len(r) : D[i] = r[i]
      /\ \A m \in f..Len(s) : s[m] = D[Len(D) + f - m]
  BY DEF Backwards
<1> HIDE DEF r, q, c
<1>3. /\ Len(r) = Len(q) + 1 /\ Len(q) \in Nat /\ r[Len(q) + 1] = c
      /\ \A i \in 1..Len(q) : r[i] = q[i]
  BY <1>1
<1>4. /\ Len(t) = Len(s) + 1 /\ Len(s) \in Nat /\ t[Len(s) + 1] = c
      /\ \A m \in 1..Len(s) : t[m] = s[m]
  BY <1>1
<1>5. Len(D) = Len(q) + Len(t) - f + 1
  BY <1>2, <1>3, <1>4
<1>6. ASSUME NEW i \in 1..Len(q) PROVE D[i] = q[i]
  <2>1. i \in 1..Len(r)
    BY <1>3
  <2> QED
    BY <1>2, <1>3, <2>1
<1>7. ASSUME NEW m \in f..Len(t) PROVE t[m] = D[Len(D) + f - m]
  <2>1. CASE m = Len(s) + 1
    <3>1. Len(D) + f - m = Len(q) + 1 /\ Len(q) + 1 \in 1..Len(r)
      BY <1>2, <1>3, <1>4, <2>1
    <3>2. D[Len(q) + 1] = c
      BY <1>2, <1>3, <3>1
    <3> QED
      BY <1>4, <2>1, <3>1, <3>2
  <2>2. CASE m # Len(s) + 1
    <3>1. m \in f..Len(s) /\ m \in 1..Len(s)
      BY <1>4, <2>2
    <3> QED
      BY <1>2, <1>4, <3>1
  <2> QED
    BY <2>1, <2>2
<1> HIDE DEF t
<1>8. Backwards(t, f, D, a \div 10)
  BY <1>5, <1>6, <1>7 DEF Backwards, q
<1> QED
  BY <1>8 DEF t, c

\* The sign comes last, and then nothing has been exchanged yet.
LEMMA SignStep ==
  ASSUME NEW s \in Seq(Int), NEW f \in Nat \ {0}, NEW x \in Int,
         f <= Len(s) + 1, Backwards(s, f, Decimal[Magnitude(x)], 0)
  PROVE  Exchanged(IF x < 0 THEN Append(s, Minus) ELSE s, f, Spelled(x), 0)
<1> DEFINE D == Decimal[Magnitude(x)]
           t == IF x < 0 THEN Append(s, Minus) ELSE s
           w == Spelled(x)
<1>1. D \in Seq(0..9) /\ Len(s) \in Nat /\ Minus \in Int
  <2>1. Magnitude(x) \in Nat
    BY DEF Magnitude
  <2> QED
    BY <2>1, DecimalIs DEF Minus
<1>2. /\ Len(D) = Len(s) - f + 1
      /\ \A m \in f..Len(s) : s[m] = D[Len(D) + f - m]
  BY <1>1 DEF Backwards, Rest
<1>3. CASE x < 0
  <2>1. t = Append(s, Minus) /\ w = << Minus >> \o D
    BY <1>3 DEF Spelled, Magnitude
  <2> HIDE DEF D, t, w
  <2>2. /\ Len(t) = Len(s) + 1 /\ t[Len(s) + 1] = Minus
        /\ \A m \in 1..Len(s) : t[m] = s[m]
    BY <1>1, <2>1
  <2>3. /\ Len(w) = Len(D) + 1 /\ w[1] = Minus
        /\ \A i \in 1..Len(D) : w[i + 1] = D[i]
    <3>1. << Minus >> \in Seq(Int) /\ D \in Seq(Int)
      BY <1>1
    <3> QED
      BY <2>1, <3>1
  <2>4. Len(t) = f - 1 + Len(w)
    BY <1>1, <1>2, <2>2, <2>3
  <2>5. ASSUME NEW m \in f..Len(t) PROVE t[m] = w[Len(t) + 1 - m]
    <3>1. CASE m = Len(s) + 1
      BY <1>1, <2>2, <2>3, <3>1
    <3>2. CASE m # Len(s) + 1
      <4>1. /\ m \in f..Len(s) /\ m \in 1..Len(s)
            /\ Len(D) + f - m \in 1..Len(D) /\ Len(t) + 1 - m = (Len(D) + f - m) + 1
        BY <1>1, <1>2, <2>2, <3>2
      <4> QED
        BY <1>2, <2>2, <2>3, <4>1
    <3> QED
      BY <3>1, <3>2
  <2>6. \A m \in f..Len(t) : ~(m < f + 0) /\ ~(m > Len(t) - 0)
    BY <1>1, <2>2
  <2> QED
    BY <2>4, <2>5, <2>6 DEF Exchanged, t, w
<1>4. CASE ~(x < 0)
  <2>1. t = s /\ w = D
    BY <1>4 DEF Spelled, Magnitude
  <2>2. \A m \in f..Len(s) : Len(D) + f - m = Len(s) + 1 - m /\ ~(m < f + 0) /\ ~(m > Len(s) - 0)
    BY <1>1, <1>2
  <2>3. Len(s) = f - 1 + Len(D)
    BY <1>1, <1>2
  <2> HIDE DEF D, t, w
  <2>4. Exchanged(t, f, w, 0)
    BY <1>2, <2>1, <2>2, <2>3 DEF Exchanged
  <2> QED
    BY <2>4 DEF t, w
<1> QED
  BY <1>3, <1>4

\* s with two of its characters exchanged.
Exchange(s, i, j) == [s EXCEPT ![i] = s[j], ![j] = s[i]]

\* One more pair,
LEMMA ExchangeStep ==
  ASSUME NEW s \in Seq(Int), NEW f \in Nat \ {0}, NEW w, NEW b \in Nat,
         Len(w) \in Nat, Exchanged(s, f, w, b), ~LastPair(f + b, Len(s) - b)
  PROVE  LET t == Exchange(s, f + b, Len(s) - b)
         IN  /\ Exchanged(t, f, w, b + 1) /\ t \in Seq(Int) /\ Len(t) = Len(s)
             /\ \A m \in 1..(f - 1) : t[m] = s[m]
<1> DEFINE i == f + b
           j == Len(s) - b
           t == Exchange(s, i, j)
<1>1. Len(s) \in Nat /\ i < j /\ i \in f..Len(s) /\ j \in f..Len(s) /\ i \in Nat /\ j \in Nat
  BY DEF LastPair
<1>2. /\ t \in Seq(Int) /\ Len(t) = Len(s) /\ t[i] = s[j] /\ t[j] = s[i]
      /\ \A m \in 1..Len(s) : m # i /\ m # j => t[m] = s[m]
  <2>1. i \in 1..Len(s) /\ j \in 1..Len(s) /\ i # j /\ s[i] \in Int /\ s[j] \in Int
    BY <1>1
  <2> HIDE DEF i, j
  <2> QED
    BY <2>1 DEF Exchange
<1>3. /\ Len(s) = f - 1 + Len(w)
      /\ \A m \in f..Len(s) :
           s[m] = IF m < f + b \/ m > Len(s) - b THEN w[m - f + 1] ELSE w[Len(s) + 1 - m]
  BY DEF Exchanged
<1> HIDE DEF t
<1>4. s[i] = w[Len(s) + 1 - i] /\ s[j] = w[Len(s) + 1 - j]
  <2>1. /\ ~(i < f + b \/ i > Len(s) - b)
        /\ ~(j < f + b \/ j > Len(s) - b)
    BY <1>1
  <2> HIDE DEF i, j
  <2> QED
    BY <1>1, <1>3, <2>1
<1>5. Len(s) + 1 - j = i - f + 1 /\ Len(s) + 1 - i = j - f + 1
  BY <1>1, <1>3
<1>6. ASSUME NEW m \in f..Len(t)
      PROVE  t[m] = IF m < f + (b + 1) \/ m > Len(t) - (b + 1) THEN w[m - f + 1]
                    ELSE w[Len(t) + 1 - m]
  <2>1. CASE m = i
    BY <1>1, <1>2, <1>4, <1>5, <2>1
  <2>2. CASE m = j
    BY <1>1, <1>2, <1>4, <1>5, <2>2
  <2>3. CASE m # i /\ m # j
    <3>1. m \in f..Len(s) /\ m \in 1..Len(s) /\ Len(t) = Len(s)
      BY <1>1, <1>2
    <3>2. t[m] = s[m]
      BY <1>2, <2>3, <3>1
    <3>3. (m < f + (b + 1) \/ m > Len(s) - (b + 1)) <=> (m < f + b \/ m > Len(s) - b)
      BY <1>1, <2>3, <3>1
    <3> QED
      BY <1>3, <3>1, <3>2, <3>3
  <2> QED
    BY <2>1, <2>2, <2>3
<1>7. ASSUME NEW m \in 1..(f - 1) PROVE t[m] = s[m]
  <2>1. m \in 1..Len(s) /\ m # i /\ m # j
    BY <1>1
  <2> QED
    BY <1>2, <2>1
<1>8. Exchanged(t, f, w, b + 1)
  BY <1>2, <1>3, <1>6 DEF Exchanged
<1> QED
  BY <1>2, <1>7, <1>8 DEF t

\* and when the pairs have met all of them are in their places.
LEMMA ExchangeEnds ==
  ASSUME NEW s \in Seq(Int), NEW f \in Nat \ {0}, NEW w, NEW b \in Nat,
         Len(w) \in Nat, Exchanged(s, f, w, b), LastPair(f + b, Len(s) - b)
  PROVE  \A m \in f..Len(s) : s[m] = w[m - f + 1]
<1> SUFFICES ASSUME NEW m \in f..Len(s) PROVE s[m] = w[m - f + 1]
  OBVIOUS
<1>1. Len(s) \in Nat /\ f + b >= Len(s) - b
  BY DEF LastPair
<1>2. s[m] = IF m < f + b \/ m > Len(s) - b THEN w[m - f + 1] ELSE w[Len(s) + 1 - m]
  BY DEF Exchanged
<1>3. CASE m < f + b \/ m > Len(s) - b
  BY <1>2, <1>3
<1>4. CASE ~(m < f + b \/ m > Len(s) - b)
  <2>0. /\ m \in Int /\ f \in Int /\ b \in Int /\ Len(s) \in Int
        /\ m >= f + b /\ m <= Len(s) - b /\ f + b >= Len(s) - b
    <3>1. m \in Int /\ f \in Int /\ b \in Int /\ Len(s) \in Int
      BY <1>1
    <3> QED
      BY <1>1, <1>4, <3>1
  <2>1. m = f + b /\ Len(s) - b = f + b
    BY <2>0
  <2>2. Len(s) + 1 - m = m - f + 1
    BY <2>0, <2>1
  <2> QED
    BY <1>2, <1>4, <2>2
<1> QED
  BY <1>3, <1>4

LEMMA SpelledType ==
  ASSUME NEW x \in Int
  PROVE  Spelled(x) \in Seq(Int)
<1>1. CASE x < 0
  <2>1. Decimal[-x] \in Seq(0..9)
    BY <1>1, DecimalIs
  <2>2. Decimal[-x] \in Seq(Int) /\ << Minus >> \in Seq(Int)
    BY <2>1 DEF Minus
  <2> QED
    BY <1>1, <2>2 DEF Spelled
<1>2. CASE ~(x < 0)
  <2>1. Decimal[x] \in Seq(0..9)
    BY <1>2, DecimalIs
  <2> QED
    BY <1>2, <2>1 DEF Spelled
<1> QED
  BY <1>1, <1>2

\* So is the list of the numbers asked for.
LEMMA ListedIs ==
  ASSUME asked \in Seq(Int), NEW i \in 1..Len(asked)
  PROVE  /\ Listed[i] \in Seq(Int)
         /\ i = 1 => Listed[i] = Spelled(asked[i])
         /\ i # 1 => /\ Listed[i - 1] \in Seq(Int)
                     /\ Listed[i] = Append(Listed[i - 1], Dot) \o Spelled(asked[i])
<1> DEFINE S == Seq(Int)
           L == Len(asked)
           F == [j \in Nat |-> [s \in S |->
                   IF j \in 2..L THEN Append(s, Dot) \o Spelled(asked[j])
                   ELSE IF j = 1 /\ j <= L THEN Spelled(asked[1]) ELSE << >>]]
           earlier == [j \in Nat |-> IF j = 0 THEN 0 ELSE j - 1]
           z == << >>
<1>0. L \in Nat /\ Dot \in Int /\ \A j \in 1..L : Spelled(asked[j]) \in Seq(Int)
  <2>1. \A j \in 1..L : asked[j] \in Int
    OBVIOUS
  <2>2. L \in Nat
    OBVIOUS
  <2>3. Dot \in Int
    BY DEF Dot
  <2> HIDE DEF L
  <2>4. \A j \in 1..L : Spelled(asked[j]) \in Seq(Int)
    BY <2>1, SpelledType
  <2> QED
    BY <2>2, <2>3, <2>4
<1>1. F \in [Nat -> [S -> S]]
  <2>1. ASSUME NEW j \in Nat, NEW s \in S
        PROVE  (IF j \in 2..L THEN Append(s, Dot) \o Spelled(asked[j])
                ELSE IF j = 1 /\ j <= L THEN Spelled(asked[1]) ELSE << >>) \in S
    <3>1. CASE j \in 2..L
      <4>1. Append(s, Dot) \in Seq(Int) /\ Spelled(asked[j]) \in Seq(Int)
        BY <1>0, <3>1
      <4> HIDE DEF L
      <4> QED
        BY <3>1, <4>1
    <3>2. CASE j \notin 2..L
      <4>1. << >> \in Seq(Int) /\ (j = 1 /\ j <= L => Spelled(asked[1]) \in Seq(Int))
        BY <1>0
      <4> HIDE DEF L
      <4> QED
        BY <3>2, <4>1
    <3> QED
      BY <3>1, <3>2
  <2> HIDE DEF S, L
  <2> QED
    BY <2>1
<1>2. earlier \in [Nat -> Nat] /\ \A j \in Nat \ {0} : earlier[j] < j /\ earlier[j] = j - 1
  OBVIOUS
<1>3. z \in S
  OBVIOUS
<1>4. \A j \in Nat, s \in S : F[j][s] =
        IF j \in 2..L THEN Append(s, Dot) \o Spelled(asked[j])
        ELSE IF j = 1 /\ j <= L THEN Spelled(asked[1]) ELSE << >>
  OBVIOUS
<1> HIDE DEF S, F, earlier, z, L
<1>5. Recursive(S, F, earlier, z)
  BY <1>1, <1>2, <1>3 DEF Recursive
<1>6. PICK f : Solves(S, F, earlier, z, f)
  BY <1>5, Recursion
<1>7. /\ f \in [Nat -> S] /\ f[0] = << >>
      /\ \A j \in Nat \ {0} : f[j] = F[j][f[j - 1]] /\ f[j - 1] \in S
  BY <1>2, <1>6 DEF Solves, z
<1> DEFINE g == [j \in 0..L |-> f[j]]
           Def(h) == [j \in 0..L |->
                        IF j = 0 THEN << >>
                        ELSE IF j = 1 THEN Spelled(asked[1])
                        ELSE Append(h[j - 1], Dot) \o Spelled(asked[j])]
<1>8. ASSUME NEW j \in 0..L
      PROVE  g[j] = IF j = 0 THEN << >>
                    ELSE IF j = 1 THEN Spelled(asked[1])
                    ELSE Append(g[j - 1], Dot) \o Spelled(asked[j])
  <2>1. CASE j = 0
    BY <1>7, <2>1
  <2>2. CASE j # 0
    <3>1. j - 1 \in 0..L /\ j \in Nat \ {0} /\ g[j] = f[j] /\ g[j - 1] = f[j - 1]
      BY <1>0, <2>2
    <3>2. f[j] = F[j][f[j - 1]] /\ f[j - 1] \in S
      BY <1>7, <3>1
    <3>3. j = 1 => j \notin 2..L /\ j <= L
      BY <1>0
    <3>4. j # 1 => j \in 2..L
      BY <1>0, <2>2
    <3> HIDE DEF g
    <3> QED
      BY <1>4, <2>2, <3>1, <3>2, <3>3, <3>4
  <2> QED
    BY <2>1, <2>2
<1>9. g = Def(g)
  BY <1>8
<1> HIDE DEF g
<1>10. Listed = Def(Listed)
  BY <1>9, Zenon DEF Listed, L
<1>11. \A j \in 0..L : Listed[j] = IF j = 0 THEN << >>
                                   ELSE IF j = 1 THEN Spelled(asked[1])
                                   ELSE Append(Listed[j - 1], Dot) \o Spelled(asked[j])
  BY <1>10
<1> HIDE DEF Def
<1> DEFINE T == {j \in Nat : j <= L => Listed[j] \in S}
<1>12. \A j \in Nat : j \in T
  <2>1. 0 \in T
    BY <1>0, <1>3, <1>11 DEF z
  <2>2. ASSUME NEW j \in Nat, j \in T PROVE j + 1 \in T
    <3> SUFFICES ASSUME j + 1 <= L PROVE Listed[j + 1] \in S
      OBVIOUS
    <3>1. Listed[j] \in S /\ j + 1 \in 0..L /\ j + 1 \in 1..L
      BY <1>0, <2>2
    <3>2. CASE j = 0
      BY <1>0, <1>11, <3>1, <3>2 DEF S
    <3>3. CASE j # 0
      <4>1. Listed[j + 1] = Append(Listed[j], Dot) \o Spelled(asked[j + 1])
        <5>1. j + 1 # 0 /\ j + 1 # 1 /\ (j + 1) - 1 = j
          BY <3>3
        <5> DEFINE i1 == j + 1
        <5>2. i1 \in 0..L /\ i1 # 0 /\ i1 # 1 /\ i1 - 1 = j
          BY <3>1, <5>1
        <5> HIDE DEF i1
        <5>3. Listed[i1] = Append(Listed[i1 - 1], Dot) \o Spelled(asked[i1])
          BY <1>11, <5>2
        <5> QED
          BY <5>2, <5>3 DEF i1
      <4>2. Append(Listed[j], Dot) \in Seq(Int) /\ Spelled(asked[j + 1]) \in Seq(Int)
        BY <1>0, <3>1 DEF S
      <4> QED
        BY <4>1, <4>2 DEF S
    <3> QED
      BY <3>2, <3>3
  <2> HIDE DEF T
  <2> QED
    BY <2>1, <2>2, Induction
<1>13. i \in Nat /\ i \in 1..L /\ i \in 0..L /\ (i # 1 => i - 1 \in Nat /\ i - 1 <= L)
  BY <1>0 DEF L
<1>14. Listed[i] \in Seq(Int) /\ (i # 1 => Listed[i - 1] \in Seq(Int))
  BY <1>12, <1>13 DEF S
<1>15. /\ i = 1 => Listed[i] = Spelled(asked[i])
       /\ i # 1 => Listed[i] = Append(Listed[i - 1], Dot) \o Spelled(asked[i])
  <2>1. i # 0
    BY <1>13
  <2>2. Listed[i] = IF i = 0 THEN << >>
                    ELSE IF i = 1 THEN Spelled(asked[1])
                    ELSE Append(Listed[i - 1], Dot) \o Spelled(asked[i])
    BY <1>11, <1>13
  <2> QED
    BY <2>1, <2>2
<1> QED
  BY <1>14, <1>15

\* What is in the buffer in front of the number that is being converted.
Before == IF k = 1 THEN << >> ELSE Append(Listed[k - 1], Dot)

ListableCalls ==
  {call \in [of : SUBSET Seq(Int), size : Nat] :
     \A a \in call.of : /\ Len(a) > 0
                        /\ a = << INT_MIN >> \/ \A i \in 1..Len(a) : a[i] # INT_MIN}

\* The digits that are written and those that are left are the number's; then
\* the characters that are exchanged, and those that are not, are.
Converting ==
  /\ asked \in Seq(Int) /\ k \in 1..Len(asked)
  /\ \A i \in 1..Len(asked) : asked[i] # INT_MIN
  /\ str \in Seq(Int) /\ from \in Nat \ {0} /\ Follows(str, from, Before)
  /\ phase \in {"digits", "reverse", "ready"}
  /\ phase = "digits" => /\ num \in Nat /\ start = 0 /\ negative = (asked[k] < 0)
                         /\ Backwards(str, from, Decimal[Magnitude(asked[k])], num)
  /\ phase = "reverse" => start \in Nat /\ Exchanged(str, from, Spelled(asked[k]), start)
  /\ phase = "ready" => str = Listed[k]

PrintInv ==
  /\ pending \in Seq(ListableCalls)
  /\ phase \notin {"idle", "overrun"} /\ asked # << INT_MIN >> => Converting

\* A call of int_to_str begins with all of the digits left, but for a zero.
LEMMA StartPrints ==
  ASSUME NEW x \in Int, x # INT_MIN, NEW b \in Seq(Int), int_to_str(x, b)
  PROVE  /\ num' \in Nat /\ start' = 0 /\ negative' = (x < 0)
         /\ str' \in Seq(Int) /\ from' \in Nat \ {0} /\ Follows(str', from', b)
         /\ Backwards(str', from', Decimal[Magnitude(x)], num')
         /\ phase' \in {"digits", "overrun"}
<1> DEFINE a == Magnitude(x)
           D == Decimal[a]
           s == IF x = 0 THEN Append(b, 0) ELSE b
           f == Len(b) + 1
<1>1. /\ num' = a /\ negative' = (x < 0) /\ from' = f /\ str' = s /\ start' = 0
      /\ phase' \in {"digits", "overrun"}
  BY DEF int_to_str, Negated, Magnitude
<1>2. a \in Nat /\ (a = 0 <=> x = 0) /\ Len(b) \in Nat
  BY DEF Magnitude
<1>3. D \in Seq(0..9) /\ (a = 0 => D = << 0 >>)
  BY <1>2, DecimalIs
<1>4. s \in Seq(Int) /\ f \in Nat \ {0}
  BY <1>2
<1> HIDE DEF a, D
<1>5. Follows(s, f, b)
  <2>1. CASE x = 0
    <3>1. s = Append(b, 0)
      BY <2>1
    <3>2. Len(s) = Len(b) + 1 /\ \A i \in 1..Len(b) : s[i] = b[i]
      BY <3>1
    <3> HIDE DEF s
    <3> QED
      BY <1>2, <3>2 DEF Follows
  <2>2. CASE x # 0
    BY <1>2, <2>2 DEF Follows
  <2> QED
    BY <2>1, <2>2
<1>6. Backwards(s, f, D, a)
  <2>1. CASE x = 0
    <3>1. s = Append(b, 0) /\ D = << 0 >> /\ a = 0
      BY <1>2, <1>3, <2>1
    <3>2. Len(s) = Len(b) + 1 /\ s[Len(b) + 1] = 0 /\ Len(D) = 1 /\ D[1] = 0
      BY <3>1
    <3>3. Rest(a) = << >> /\ Len(<< >>) = 0
      BY <3>1 DEF Rest
    <3> HIDE DEF s
    <3>4. Len(D) = Len(Rest(a)) + Len(s) - f + 1
      BY <1>2, <3>2, <3>3
    <3>5. \A m \in f..Len(s) : s[m] = D[Len(D) + f - m]
      <4> SUFFICES ASSUME NEW m \in f..Len(s) PROVE s[m] = D[Len(D) + f - m]
        OBVIOUS
      <4>1. m = Len(b) + 1 /\ Len(D) + f - m = 1
        BY <1>2, <3>2
      <4> QED
        BY <3>2, <4>1
    <3>6. \A i \in 1..Len(Rest(a)) : D[i] = Rest(a)[i]
      BY <3>3
    <3> QED
      BY <3>4, <3>5, <3>6 DEF Backwards
  <2>2. CASE x # 0
    <3>1. s = b /\ Rest(a) = D
      BY <1>2, <2>2 DEF Rest, D
    <3>2. Len(D) = Len(D) + Len(b) - f + 1 /\ f..Len(b) = {}
      BY <1>2, <1>3
    <3> HIDE DEF s, f
    <3> QED
      BY <3>1, <3>2 DEF Backwards
  <2> QED
    BY <2>1, <2>2
<1> HIDE DEF s, f
<1> QED
  BY <1>1, <1>2, <1>4, <1>5, <1>6 DEF D, a

LEMMA BeginNumbersPrints == PrintInv /\ BeginNumbers => PrintInv'
<1> SUFFICES ASSUME PrintInv, BeginNumbers PROVE PrintInv'
  OBVIOUS
<1>1. /\ pending \in Seq(ListableCalls) /\ pending # << >>
      /\ asked' \in Head(pending).of
      /\ k' = 1 /\ pending' = Tail(pending) /\ int_to_str(asked'[1], << >>)
  BY DEF PrintInv, BeginNumbers
<1>2. Head(pending) \in ListableCalls /\ pending' \in Seq(ListableCalls)
  BY <1>1
<1>3. /\ asked' \in Seq(Int) /\ Len(asked') > 0
      /\ asked' = << INT_MIN >> \/ \A i \in 1..Len(asked') : asked'[i] # INT_MIN
  BY <1>1, <1>2 DEF ListableCalls
<1>4. << INT_MIN >>' = << INT_MIN >>
  BY DEF INT_MIN
<1> SUFFICES ASSUME phase' \notin {"idle", "overrun"}, asked' # << INT_MIN >>
             PROVE  Converting'
  BY <1>2, <1>4 DEF PrintInv
<1>5. 1 \in 1..Len(asked') /\ asked'[1] \in Int /\ asked'[1] # INT_MIN
  BY <1>3
<1>6. << >> \in Seq(Int)
  OBVIOUS
<1>7. /\ num' \in Nat /\ start' = 0 /\ negative' = (asked'[1] < 0)
      /\ str' \in Seq(Int) /\ from' \in Nat \ {0} /\ Follows(str', from', << >>)
      /\ Backwards(str', from', Decimal[Magnitude(asked'[1])], num')
      /\ phase' \in {"digits", "overrun"}
  BY <1>1, <1>5, <1>6, StartPrints
<1>8. Before' = << >>
  BY <1>1 DEF Before
<1> QED
  BY <1>1, <1>3, <1>5, <1>7, <1>8 DEF Converting

\* The reference does not change while the numbers are printed.
LEMMA SameList ==
  ASSUME asked' = asked
  PROVE  Listed' = Listed
  BY DEF Listed

LEMMA NextNumberPrints == PrintInv /\ NextNumber => PrintInv'
<1> SUFFICES ASSUME PrintInv, NextNumber PROVE PrintInv'
  OBVIOUS
<1>1. /\ phase = "ready" /\ k < Len(asked) /\ k' = k + 1
      /\ asked' = asked /\ pending' = pending
      /\ int_to_str(asked[k + 1], Append(str, Dot))
  BY DEF NextNumber
<1> SUFFICES ASSUME phase' \notin {"idle", "overrun"}, asked # << INT_MIN >>
             PROVE  Converting'
  BY <1>1 DEF PrintInv, INT_MIN
<1>2. /\ asked \in Seq(Int) /\ k \in 1..Len(asked) /\ str \in Seq(Int) /\ str = Listed[k]
      /\ \A i \in 1..Len(asked) : asked[i] # INT_MIN
  BY <1>1 DEF PrintInv, Converting
<1>3. /\ k + 1 \in 1..Len(asked) /\ asked[k + 1] \in Int /\ asked[k + 1] # INT_MIN
      /\ k + 1 # 1 /\ (k + 1) - 1 = k
  BY <1>1, <1>2
<1>4. Dot \in Int
  BY DEF Dot
<1>5. Append(str, Dot) \in Seq(Int)
  BY <1>2, <1>4
<1>7. /\ num' \in Nat /\ start' = 0 /\ negative' = (asked[k + 1] < 0)
      /\ str' \in Seq(Int) /\ from' \in Nat \ {0} /\ Follows(str', from', Append(str, Dot))
      /\ Backwards(str', from', Decimal[Magnitude(asked[k + 1])], num')
      /\ phase' \in {"digits", "overrun"}
  BY <1>1, <1>3, <1>5, StartPrints
<1>8. Before' = Append(str, Dot)
  <2>1. Listed' = Listed
    BY <1>1, SameList
  <2>2. k' # 1 /\ k' - 1 = k
    BY <1>1, <1>3
  <2>3. Listed'[k' - 1] = str
    BY <1>2, <2>1, <2>2
  <2> QED
    BY <2>2, <2>3 DEF Before
<1>9. \A i \in 1..Len(asked) : asked[i] # INT_MIN'
  BY <1>2 DEF INT_MIN
<1> QED
  BY <1>1, <1>2, <1>3, <1>7, <1>8, <1>9 DEF Converting

\* Where the numbers asked for and the place in them are the same, so is what
\* they are compared with.
LEMMA SameBefore ==
  ASSUME asked' = asked, k' = k
  PROVE  Before' = Before /\ Listed'[k] = Listed[k]
  BY SameList DEF Before

LEMMA DigitPrints == PrintInv /\ Digit => PrintInv'
<1> SUFFICES ASSUME PrintInv, Digit PROVE PrintInv'
  OBVIOUS
<1>1. /\ phase = "digits" /\ num # 0 /\ num' = Quotient(num)
      /\ UNCHANGED <<asked, k, negative, from, start, pending>>
      /\ IF Len(str) < size THEN str' = Append(str, Remainder(num)) /\ UNCHANGED phase
         ELSE Overrun
  BY DEF Digit
<1> SUFFICES ASSUME phase' # "overrun", asked # << INT_MIN >> PROVE Converting'
  BY <1>1 DEF PrintInv, INT_MIN
<1>2. Converting
  BY <1>1 DEF PrintInv
<1>3. /\ asked \in Seq(Int) /\ k \in 1..Len(asked)
      /\ \A i \in 1..Len(asked) : asked[i] # INT_MIN
      /\ str \in Seq(Int) /\ from \in Nat \ {0} /\ Follows(str, from, Before)
      /\ num \in Nat /\ start = 0 /\ negative = (asked[k] < 0)
      /\ Backwards(str, from, Decimal[Magnitude(asked[k])], num)
  BY <1>1, <1>2 DEF Converting
<1>4. str' = Append(str, Remainder(num)) /\ phase' = "digits"
  BY <1>1 DEF Overrun
<1>5. /\ Quotient(num) = num \div 10 /\ Remainder(num) = num % 10
      /\ num \div 10 \in Nat /\ num % 10 \in Int
  <2>1. num \in Nat
    BY <1>3
  <2>2. Quotient(num) = num \div 10
    BY <2>1 DEF Quotient
  <2>3. num \div 10 \in Nat /\ num % 10 \in Int /\ num = 10 * (num \div 10) + (num % 10)
    BY <2>1
  <2>4. Remainder(num) = num - 10 * (num \div 10)
    BY <2>2 DEF Remainder
  <2> QED
    BY <2>1, <2>2, <2>3, <2>4
<1>6. Len(str) \in Nat /\ from <= Len(str) + 1
  BY <1>3 DEF Follows
<1>7. asked[k] \in Int /\ Magnitude(asked[k]) \in Nat
  <2>1. asked[k] \in Int
    BY <1>3
  <2> QED
    BY <2>1 DEF Magnitude
<1>8. Decimal[Magnitude(asked[k])] \in Seq(0..9)
  BY <1>7, DecimalIs
<1>9. Backwards(str', from, Decimal[Magnitude(asked[k])], num')
  <2>1. Backwards(Append(str, num % 10), from, Decimal[Magnitude(asked[k])], num \div 10)
    BY <1>1, <1>3, <1>6, <1>8, BackwardsStep
  <2> QED
    BY <1>1, <1>4, <1>5, <2>1
<1>10. str' \in Seq(Int) /\ Len(str') = Len(str) + 1 /\ \A i \in 1..Len(str) : str'[i] = str[i]
  BY <1>3, <1>4, <1>5
<1>11. Follows(str', from, Before)
  <2>1. from \in Nat /\ Len(Before) = from - 1 /\ Len(Before) <= Len(str)
        /\ \A i \in 1..Len(Before) : str[i] = Before[i]
    BY <1>3 DEF Follows
  <2>2. Len(Before) \in Int
    BY <2>1
  <2>3. Len(Before) <= Len(str')
    BY <1>6, <1>10, <2>1, <2>2
  <2>4. \A i \in 1..Len(Before) : str'[i] = Before[i]
    BY <1>6, <1>10, <2>1, <2>2
  <2> QED
    BY <2>1, <2>3, <2>4 DEF Follows
<1>12. Before' = Before
  BY <1>1, SameBefore
<1>13. INT_MIN' = INT_MIN
  BY DEF INT_MIN
<1> QED
  BY <1>1, <1>3, <1>4, <1>5, <1>9, <1>10, <1>11, <1>12, <1>13 DEF Converting

LEMMA TerminatePrints == PrintInv /\ Terminate => PrintInv'
<1> SUFFICES ASSUME PrintInv, Terminate PROVE PrintInv'
  OBVIOUS
<1> DEFINE signed == IF negative THEN Append(str, Minus) ELSE str
<1>1. /\ phase = "digits" /\ num = 0
      /\ UNCHANGED <<asked, k, num, negative, from, start, pending>>
      /\ IF Len(signed) < size THEN str' = signed /\ phase' = "reverse" ELSE Overrun
  BY DEF Terminate
<1> SUFFICES ASSUME phase' # "overrun", asked # << INT_MIN >> PROVE Converting'
  BY <1>1 DEF PrintInv, INT_MIN
<1>2. Converting
  BY <1>1 DEF PrintInv
<1>3. /\ asked \in Seq(Int) /\ k \in 1..Len(asked)
      /\ \A i \in 1..Len(asked) : asked[i] # INT_MIN
      /\ str \in Seq(Int) /\ from \in Nat \ {0} /\ Follows(str, from, Before)
      /\ num \in Nat /\ start = 0 /\ negative = (asked[k] < 0)
      /\ Backwards(str, from, Decimal[Magnitude(asked[k])], num)
  BY <1>1, <1>2 DEF Converting
<1>4. str' = signed /\ phase' = "reverse"
  BY <1>1 DEF Overrun
<1>6. Len(str) \in Nat /\ from <= Len(str) + 1
  BY <1>3 DEF Follows
<1>7. asked[k] \in Int /\ Minus \in Int
  BY <1>3 DEF Minus
<1>8. signed = IF asked[k] < 0 THEN Append(str, Minus) ELSE str
  BY <1>3
<1>9. Exchanged(signed, from, Spelled(asked[k]), 0)
  BY <1>1, <1>3, <1>6, <1>7, <1>8, SignStep
<1>10. signed \in Seq(Int) /\ Len(signed) >= Len(str) /\ Len(signed) \in Nat
       /\ \A i \in 1..Len(str) : signed[i] = str[i]
  BY <1>3, <1>6, <1>7
<1> HIDE DEF signed
<1>11. Follows(signed, from, Before)
  <2>1. from \in Nat /\ Len(Before) = from - 1 /\ Len(Before) <= Len(str)
        /\ \A i \in 1..Len(Before) : str[i] = Before[i]
    BY <1>3 DEF Follows
  <2>2. Len(Before) \in Int
    BY <2>1
  <2>3. Len(Before) <= Len(signed)
    BY <1>6, <1>10, <2>1, <2>2
  <2>4. \A i \in 1..Len(Before) : signed[i] = Before[i]
    BY <1>6, <1>10, <2>1, <2>2
  <2> QED
    BY <2>1, <2>3, <2>4 DEF Follows
<1>12. Before' = Before
  BY <1>1, SameBefore
<1>13. INT_MIN' = INT_MIN
  BY DEF INT_MIN
<1> QED
  BY <1>1, <1>3, <1>4, <1>9, <1>10, <1>11, <1>12, <1>13 DEF Converting

\* A string that has b up to f, and w from there on, is the two of them.
LEMMA TwoParts ==
  ASSUME NEW s \in Seq(Int), NEW b \in Seq(Int), NEW w \in Seq(Int), NEW f \in Nat \ {0},
         Follows(s, f, b), Len(s) = f - 1 + Len(w), \A m \in f..Len(s) : s[m] = w[m - f + 1]
  PROVE  s = b \o w
<1>1. Len(b) = f - 1 /\ \A i \in 1..Len(b) : s[i] = b[i]
  BY DEF Follows
<1>2. b \o w \in Seq(Int) /\ Len(b \o w) = Len(b) + Len(w) /\ Len(b) \in Nat /\ Len(w) \in Nat
  OBVIOUS
<1>3. ASSUME NEW m \in 1..Len(s) PROVE s[m] = (b \o w)[m]
  <2>1. CASE m <= Len(b)
    <3>1. m \in 1..Len(b) /\ (b \o w)[m] = b[m]
      BY <1>2, <2>1
    <3> QED
      BY <1>1, <3>1
  <2>2. CASE ~(m <= Len(b))
    <3>1. m \in f..Len(s) /\ m - Len(b) = m - f + 1 /\ m \in Len(b) + 1 .. Len(b) + Len(w)
      BY <1>1, <1>2, <2>2
    <3>2. (b \o w)[m] = w[m - Len(b)]
      BY <1>2, <3>1
    <3> QED
      BY <3>1, <3>2
  <2> QED
    BY <2>1, <2>2
<1> DEFINE t == b \o w
<1>4. t \in Seq(Int) /\ Len(t) = Len(s) /\ \A m \in 1..Len(s) : s[m] = t[m]
  BY <1>1, <1>2, <1>3
<1> HIDE DEF t
<1>5. s = t
  <2>1. s \in [1..Len(s) -> Int] /\ t \in [1..Len(s) -> Int]
    BY <1>4
  <2> QED
    BY <1>4, <2>1
<1> QED
  BY <1>5 DEF t

LEMMA ReversePrints == PrintInv /\ Reverse => PrintInv'
<1> SUFFICES ASSUME PrintInv, Reverse PROVE PrintInv'
  OBVIOUS
<1>1. /\ phase = "reverse"
      /\ UNCHANGED <<asked, k, num, negative, from, pending>>
      /\ IF LastPair(from + start, Len(str) - start)
         THEN phase' = "ready" /\ UNCHANGED <<str, start>>
         ELSE /\ str' = [str EXCEPT ![from + start] = str[Len(str) - start],
                                    ![Len(str) - start] = str[from + start]]
              /\ start' = start + 1 /\ UNCHANGED phase
  BY DEF Reverse
<1> SUFFICES ASSUME asked # << INT_MIN >> PROVE Converting'
  BY <1>1 DEF PrintInv, INT_MIN
<1>2. Converting
  BY <1>1 DEF PrintInv
<1> DEFINE w == Spelled(asked[k])
<1>3. /\ asked \in Seq(Int) /\ k \in 1..Len(asked)
      /\ \A i \in 1..Len(asked) : asked[i] # INT_MIN
      /\ str \in Seq(Int) /\ from \in Nat \ {0} /\ Follows(str, from, Before)
      /\ start \in Nat /\ Exchanged(str, from, w, start)
  BY <1>1, <1>2 DEF Converting
<1>4. w \in Seq(Int) /\ Len(w) \in Nat
  <2>1. asked[k] \in Int
    BY <1>3
  <2>2. w \in Seq(Int)
    BY <2>1, SpelledType
  <2> QED
    BY <2>2
<1>5. Before' = Before /\ Listed'[k] = Listed[k] /\ INT_MIN' = INT_MIN
  BY <1>1, SameBefore DEF INT_MIN
<1>6. from \in Nat /\ Len(Before) = from - 1 /\ Len(Before) <= Len(str)
      /\ \A i \in 1..Len(Before) : str[i] = Before[i]
  BY <1>3 DEF Follows
<1>7. CASE LastPair(from + start, Len(str) - start)
  <2>1. phase' = "ready" /\ str' = str
    BY <1>1, <1>7
  <2>2. Len(str) = from - 1 + Len(w)
    BY <1>3 DEF Exchanged
  <2> HIDE DEF w
  <2>3. \A m \in from..Len(str) : str[m] = w[m - from + 1]
    BY <1>3, <1>4, <1>7, ExchangeEnds, ZenonT(40)
  <2>4. Before \in Seq(Int) /\ Listed[k] = Before \o w
    <3>1. /\ Listed[k] \in Seq(Int)
          /\ k = 1 => Listed[k] = Spelled(asked[k])
          /\ k # 1 => /\ Listed[k - 1] \in Seq(Int)
                      /\ Listed[k] = Append(Listed[k - 1], Dot) \o Spelled(asked[k])
      BY <1>3, ListedIs
    <3>2. CASE k = 1
      <4>1. << >> \o w = w
        BY <1>4
      <4> QED
        BY <3>1, <3>2, <4>1 DEF Before, w
    <3>3. CASE k # 1
      <4>1. Dot \in Int
        BY DEF Dot
      <4>2. Append(Listed[k - 1], Dot) \in Seq(Int)
        BY <3>1, <3>3, <4>1
      <4> QED
        BY <3>1, <3>3, <4>2 DEF Before, w
    <3> QED
      BY <3>2, <3>3
  <2>5. str = Before \o w
    BY <1>3, <1>4, <2>2, <2>3, <2>4, TwoParts
  <2> QED
    BY <1>1, <1>3, <1>5, <2>1, <2>4, <2>5 DEF Converting
<1>8. CASE ~LastPair(from + start, Len(str) - start)
  <2> HIDE DEF w
  <2>1. /\ Exchanged(str', from, w, start + 1) /\ str' \in Seq(Int) /\ Len(str') = Len(str)
        /\ \A m \in 1..(from - 1) : str'[m] = str[m]
    <3> DEFINE t == Exchange(str, from + start, Len(str) - start)
    <3>1. /\ Exchanged(t, from, w, start + 1) /\ t \in Seq(Int) /\ Len(t) = Len(str)
          /\ \A m \in 1..(from - 1) : t[m] = str[m]
      BY <1>3, <1>4, <1>8, ExchangeStep
    <3>2. str' = t
      BY <1>1, <1>8 DEF Exchange
    <3> HIDE DEF t
    <3> QED
      BY <3>1, <3>2
  <2>2. phase' = "reverse" /\ start' = start + 1 /\ start' \in Nat
    BY <1>1, <1>3, <1>8
  <2>3. Follows(str', from, Before)
    <3>1. \A i \in 1..Len(Before) : str'[i] = Before[i]
      BY <1>6, <2>1
    <3> QED
      BY <1>6, <2>1, <3>1 DEF Follows
  <2> QED
    BY <1>1, <1>3, <1>5, <2>1, <2>2, <2>3 DEF Converting, w
<1> QED
  BY <1>7, <1>8

LEMMA FormatStepPrints == PrintInv /\ FormatStep => PrintInv'
<1>1. PrintInv /\ WriteString => PrintInv'
  BY DEF PrintInv, WriteString, INT_MIN
<1> QED
  BY <1>1, BeginNumbersPrints, NextNumberPrints, DigitPrints, TerminatePrints, ReversePrints
     DEF FormatStep

\* A call for one of some numbers.
LEMMA NumberListable ==
  ASSUME NEW room \in Nat, NEW S \in SUBSET Int
  PROVE  Number(S, room) \in ListableCalls
<1>1. ASSUME NEW x \in S
      PROVE  /\ << x >> \in Seq(Int) /\ Len(<< x >>) > 0
             /\ << x >> = << INT_MIN >> \/ \A i \in 1..Len(<< x >>) : << x >>[i] # INT_MIN
  OBVIOUS
<1>2. Number(S, room) = [of |-> {<< x >> : x \in S}, size |-> room]
  BY DEF Number
<1>3. {<< x >> : x \in S} \in SUBSET Seq(Int)
  BY <1>1
<1>4. \A a \in {<< x >> : x \in S} :
        Len(a) > 0 /\ (a = << INT_MIN >> \/ \A i \in 1..Len(a) : a[i] # INT_MIN)
  BY <1>1
<1> QED
  BY <1>2, <1>3, <1>4 DEF ListableCalls

\* Whatever the clock counts in,
LEMMA ClockListable == execute_time \in Seq(ListableCalls) /\ execute_date \in Seq(ListableCalls)
<1>1. ASSUME NEW b \in ClockBytes PROVE bcd_to_bin(b) \in Nat
  <2>1. b \in Nat
    BY FormatAssumption, SMT
  <2>2. b % 16 \in Nat /\ b \div 16 \in Nat
    BY <2>1
  <2> QED
    BY <2>2 DEF bcd_to_bin
<1>2. /\ {bcd_to_bin(b) : b \in ClockBytes} \in SUBSET Int
      /\ {2000 + bcd_to_bin(b) : b \in ClockBytes} \in SUBSET Int
  BY <1>1
<1>3. ClockField \in ListableCalls /\ Year \in ListableCalls
  BY <1>2, NumberListable DEF ClockField, Year
<1>4. /\ << ClockField, ClockField, ClockField >> \in Seq(ListableCalls)
      /\ << ClockField, ClockField, Year >> \in Seq(ListableCalls)
  BY <1>3
<1> QED
  BY <1>4 DEF execute_time, execute_date

\* the process numbers and the addresses.
LEMMA OthersListable ==
  /\ << Number(Pids, 16) >> \in Seq(ListableCalls)
  /\ << Address(net_dev[1]) >> \in Seq(ListableCalls)
  /\ [i \in 1..3 |-> Address(net_dev[i])] \in Seq(ListableCalls)
<1>1. Number(Pids, 16) \in ListableCalls
  <2>1. Pids \in SUBSET Int
    BY FormatAssumption, CommandAssumption, SMT DEF INT_MIN
  <2> QED
    BY <2>1, NumberListable
<1>2. INT_MIN < 0
  BY FormatAssumption, SMT DEF INT_MIN
<1>3. ASSUME NEW i \in 1..3 PROVE Address(net_dev[i]) \in ListableCalls
  <2>1. /\ net_dev[i] \in Seq(Int) /\ Len(net_dev[i]) = 4
        /\ \A j \in 1..4 : net_dev[i][j] >= 0
    <3>1. CASE i = 1
      <4>1. net_dev[i] = << 192, 168, 0, 100 >>
        BY <3>1 DEF net_dev
      <4> QED
        BY <4>1
    <3>2. CASE i = 2
      <4>1. net_dev[i] = << 192, 168, 0, 1 >>
        BY <3>2 DEF net_dev
      <4> QED
        BY <4>1
    <3>3. CASE i = 3
      <4>1. net_dev[i] = << 255, 255, 255, 0 >>
        BY <3>3 DEF net_dev
      <4> QED
        BY <4>1
    <3> QED
      BY <3>1, <3>2, <3>3
  <2>2. Len(net_dev[i]) > 0 /\ \A j \in 1..Len(net_dev[i]) : net_dev[i][j] # INT_MIN
    BY <1>2, <2>1
  <2> QED
    BY <2>1, <2>2 DEF Address, ListableCalls
<1>4. << Address(net_dev[1]) >> \in Seq(ListableCalls)
  BY <1>3
<1>5. [i \in 1..3 |-> Address(net_dev[i])] \in Seq(ListableCalls)
  BY <1>3
<1> QED
  BY <1>1, <1>4, <1>5

\* Whatever the clock holds and whatever numbers are given to kill, what date,
\* time, kill, dhcpcd and ifconfig print is the number, or the address, in
\* decimals: int_to_str's digits, its sign and their reversal, behind what
\* ip_to_str has in the buffer.
THEOREM PrintedCorrect == CommandSpec => []NumbersPrinted
<1>1. CommandInit => PrintInv
  BY DEF CommandInit, FormatInit, PrintInv
<1>2. ASSUME PrintInv, [CommandNext]_vars PROVE PrintInv'
  <2>1. CASE UNCHANGED format_vars
    <3>1. /\ UNCHANGED <<asked, k, num, negative, str, from, start, phase, pending>>
          /\ INT_MIN' = INT_MIN
      BY <2>1 DEF format_vars, number_vars, INT_MIN
    <3>2. Before' = Before /\ Listed'[k] = Listed[k]
      BY <3>1, SameBefore
    <3>3. ListableCalls' = ListableCalls
      BY DEF ListableCalls, INT_MIN
    <3> QED
      BY <1>2, <3>1, <3>2, <3>3 DEF PrintInv, Converting
  <2>2. ASSUME NEW numbers \in Seq(ListableCalls), Prints(numbers) PROVE PrintInv'
    <3>1. /\ UNCHANGED <<asked, k, num, negative, str, from, start, phase>>
          /\ INT_MIN' = INT_MIN /\ pending' = numbers
      BY <2>2 DEF Prints, number_vars, INT_MIN
    <3>2. Before' = Before /\ Listed'[k] = Listed[k]
      BY <3>1, SameBefore
    <3>3. ListableCalls' = ListableCalls
      BY DEF ListableCalls, INT_MIN
    <3> QED
      BY <1>2, <3>1, <3>2, <3>3 DEF PrintInv, Converting
  <2>3. CASE NumberStep
    BY <1>2, <2>1, <2>3, FormatStepPrints DEF NumberStep
  <2>4. CASE execute_clock
    BY <2>2, <2>4, ClockListable DEF execute_clock
  <2>5. CASE execute_kill
    BY <2>1, <2>2, <2>5, OthersListable DEF execute_kill
  <2>6. CASE execute_dhcpcd
    BY <2>1, <2>2, <2>6, OthersListable DEF execute_dhcpcd
  <2>7. CASE execute_ifconfig
    BY <2>1, <2>2, <2>7, OthersListable DEF execute_ifconfig
  <2>8. ASSUME NEW l \in CommandLines, EnterLine(l) PROVE UNCHANGED format_vars
    BY <2>8 DEF EnterLine
  <2>9. CASE SplitWord \/ RedirectEcho \/ RedirectCat \/ Redirected \/ execute_echo
             \/ execute_cat \/ execute_rm \/ execute_mkfile \/ CopyStep \/ execute_ping
             \/ RunNothing \/ PrintMessage
    BY <2>1, <2>9 DEF SplitWord, RedirectEcho, RedirectCat, Redirected, execute_echo,
       execute_cat, execute_rm, execute_mkfile, CopyStep, execute_ping, RunNothing,
       PrintMessage
  <2>10. CASE UNCHANGED vars
    BY <2>1, <2>10 DEF vars
  <2> QED
    BY <1>2, <2>1, <2>3, <2>4, <2>5, <2>6, <2>7, <2>8, <2>9, <2>10 DEF CommandNext, Step
<1>3. PrintInv => NumbersPrinted
  BY DEF PrintInv, Converting, NumbersPrinted
<1> QED
  BY <1>1, <1>2, <1>3, PTL DEF CommandSpec

-----------------------------------------------------------------------------
(* Redirections                                                            *)

\* How many elements of S come before b.
Place(S, b) == Cardinality({m \in S : m < b})

\* at has the elements of S in ascending order.
Ascending(at, m) ==
  at \in [1..m -> Nat] /\ \A j \in 1..m : \A i \in 1..(j - 1) : at[i] < at[j]

Among(at, i) == {at[j] : j \in 1..i}

\* There are as many of them as places,
LEMMA Counted ==
  ASSUME NEW m \in Nat, NEW at, Ascending(at, m), NEW i \in 0..m
  PROVE  Cardinality(Among(at, i)) = i
<1> DEFINE S == Among(at, i)
           f == [j \in 1..i |-> at[j]]
<1>1. ASSUME NEW a \in 1..i, NEW b \in 1..i, f[a] = f[b] PROVE a = b
  <2>1. a \in 1..m /\ b \in 1..m /\ at[a] \in Nat /\ at[b] \in Nat /\ at[a] = at[b]
    BY <1>1 DEF Ascending
  <2>2. ~(a < b)
    <3>1. a < b => a \in 1..(b - 1)
      BY <2>1
    <3> QED
      BY <2>1, <3>1 DEF Ascending
  <2>3. ~(b < a)
    <3>1. b < a => b \in 1..(a - 1)
      BY <2>1
    <3> QED
      BY <2>1, <3>1 DEF Ascending
  <2> QED
    BY <2>1, <2>2, <2>3
<1>2. f \in [1..i -> S] /\ \A t \in S : \E a \in 1..i : f[a] = t
  BY DEF Among
<1> HIDE DEF f, S
<1>3. ExistsBijection(1..i, S)
  BY <1>1, <1>2 DEF ExistsBijection, Bijection, Injection, Surjection, IsInjective
<1>4. i \in Nat
  OBVIOUS
<1>5. Cardinality(S) = i
  BY <1>3, <1>4, FS_CountingElements
<1> QED
  BY <1>5 DEF S

\* and i - 1 of them before the i-th, if S has nothing else before it.
LEMMA PlaceOf ==
  ASSUME NEW m \in Nat, NEW at, Ascending(at, m), NEW S, NEW i \in 1..m,
         \A j \in 1..i : at[j] \in S,
         \A b \in S : b < at[i] => \E j \in 1..m : at[j] = b
  PROVE  Place(S, at[i]) = i - 1
<1>1. {b \in S : b < at[i]} = Among(at, i - 1)
  <2>1. ASSUME NEW b \in S, b < at[i] PROVE b \in Among(at, i - 1)
    <3>1. PICK j \in 1..m : at[j] = b
      BY <2>1
    <3>2. ~(i <= j)
      <4>1. i < j => i \in 1..(j - 1)
        OBVIOUS
      <4>2. at[i] \in Nat /\ at[j] \in Nat
        BY DEF Ascending
      <4> QED
        BY <2>1, <3>1, <4>1, <4>2 DEF Ascending
    <3>3. j \in 1..(i - 1)
      BY <3>2
    <3> QED
      BY <3>1, <3>3 DEF Among
  <2>2. ASSUME NEW j \in 1..(i - 1) PROVE at[j] \in S /\ at[j] < at[i]
    BY DEF Ascending
  <2> QED
    BY <2>1, <2>2 DEF Among
<1>2. i - 1 \in 0..m
  OBVIOUS
<1> QED
  BY <1>1, <1>2, Counted DEF Place

\* A later element has more before it.
LEMMA PlaceOrder ==
  ASSUME NEW l \in Nat, NEW S \in SUBSET (1..l), NEW b \in S, NEW c \in S, b < c
  PROVE  Place(S, b) \in Nat /\ Place(S, c) \in Nat /\ Place(S, b) < Place(S, c)
<1> DEFINE B == {m \in S : m < b}
           C == {m \in S : m < c}
<1>1. IsFiniteSet(1..l)
  BY FS_Interval
<1>2. B \in SUBSET (1..l) /\ C \in SUBSET (1..l) /\ B \in SUBSET C /\ B # C
  <2>1. \A m \in S : m \in Nat
    OBVIOUS
  <2>2. b \in C /\ b \notin B
    BY <2>1
  <2>3. \A m \in B : m \in C
    BY <2>1
  <2> QED
    BY <2>2, <2>3
<1> HIDE DEF B, C
<1>3. IsFiniteSet(C) /\ IsFiniteSet(B)
  BY <1>1, <1>2, FS_Subset
<1>4. Cardinality(B) <= Cardinality(C) /\ Cardinality(C) # Cardinality(B)
  BY <1>2, <1>3, FS_Subset
<1>5. Cardinality(B) \in Nat /\ Cardinality(C) \in Nat
  BY <1>3, FS_CardinalityType
<1>6. Cardinality(B) < Cardinality(C)
  BY <1>4, <1>5
<1> QED
  BY <1>5, <1>6 DEF Place, B, C

\* So the i-th word is the one that begins with i - 1 others before it.
LEMMA TypedIs ==
  ASSUME NEW s, NEW l \in Nat, Begins(s) \in SUBSET (1..l), NEW i,
         NEW b \in Begins(s), Place(Begins(s), b) = i - 1
  PROVE  TypedWord(s, i) = WordAt(s, b)
<1> DEFINE P(c) == Cardinality({m \in Begins(s) : m < c}) = i - 1
           f    == CHOOSE c \in Begins(s) : P(c)
<1>1. P(b)
  BY DEF Place
<1>2. f \in Begins(s) /\ P(f)
  BY <1>1
<1>3. TypedWord(s, i) = WordAt(s, f)
  BY DEF TypedWord
<1>4. Place(Begins(s), f) = Place(Begins(s), b)
  BY <1>2 DEF Place
<1> HIDE DEF f, P
<1> DEFINE S == Begins(s)
<1>5. S \in SUBSET (1..l) /\ f \in S /\ b \in S /\ f \in Nat /\ b \in Nat
  BY <1>2
<1> HIDE DEF S
<1>6. ~(f < b)
  <2>1. f < b => Place(S, f) \in Nat /\ Place(S, b) \in Nat /\ Place(S, f) < Place(S, b)
    BY <1>5, PlaceOrder
  <2> QED
    BY <1>4, <2>1 DEF S
<1>7. ~(b < f)
  <2>1. b < f => Place(S, f) \in Nat /\ Place(S, b) \in Nat /\ Place(S, b) < Place(S, f)
    BY <1>5, PlaceOrder
  <2> QED
    BY <1>4, <2>1 DEF S
<1> QED
  BY <1>3, <1>5, <1>6, <1>7

-----------------------------------------------------------------------------
(* The words of the line                                                   *)

\* Where the line is split, the i-th word is the i-th that was typed.
LEMMA LineWords ==
  ASSUME Splitting, NEW i \in 1..Len(args)
  PROVE  /\ args[i] \in Begins(line) /\ Place(Begins(line), args[i]) = i - 1
         /\ TypedWord(line, i) = WordAt(line, args[i])
<1> DEFINE m == Len(args)
           S == Begins(line)
<1>1. Len(line) \in Nat /\ DOMAIN line = 1..Len(line)
  BY WholeLine DEF Splitting
<1>2. S \in SUBSET (1..Len(line))
  BY <1>1 DEF Begins
<1>3. m \in Nat /\ args \in [1..m -> 1..Len(line)] /\ token \in Nat
  BY <1>1 DEF Splitting
<1>4. Ascending(args, m)
  BY <1>3 DEF Splitting, Ascending
<1>5. \A j \in 1..m : args[j] \in S /\ args[j] < token
  BY DEF Splitting
<1>6. ASSUME NEW b \in S, b < args[i] PROVE \E j \in 1..m : args[j] = b
  <2>1. b < token
    BY <1>1, <1>2, <1>3, <1>5, <1>6
  <2> QED
    BY <2>1 DEF Splitting
<1> HIDE DEF m, S
<1>7. i \in 1..m
  BY DEF m
<1>8. \A j \in 1..i : args[j] \in S
  BY <1>3, <1>5, <1>7
<1>9. Place(S, args[i]) = i - 1
  BY <1>3, <1>4, <1>6, <1>7, <1>8, PlaceOf, ZenonT(40)
<1>10. TypedWord(line, i) = WordAt(line, args[i])
  BY <1>1, <1>2, <1>5, <1>7, <1>9, TypedIs DEF S
<1> QED
  BY <1>5, <1>7, <1>9, <1>10 DEF S

\* A word of a line: characters, none of them a space.
IsWord(w) == w \in Seq(Chars) /\ Len(w) > 0 /\ \A x \in 1..Len(w) : w[x] # Space

\* The word that begins in s at b is w.
HasWord(s, b, w) ==
  /\ b \in 1..Len(s) /\ b + Len(w) - 1 <= Len(s)
  /\ \A x \in 1..Len(w) : s[b + x - 1] = w[x]
  /\ b + Len(w) - 1 = Len(s) \/ s[b + Len(w)] = Space

LEMMA HasWordAt ==
  ASSUME NEW s \in Seq(Chars), NEW b, NEW w, IsWord(w), HasWord(s, b, w)
  PROVE  WordAt(s, b) = w
<1> DEFINE e == b + Len(w) - 1
<1>1. /\ w \in Seq(Chars) /\ Len(w) \in Nat /\ Len(w) > 0 /\ Len(s) \in Nat /\ b \in 1..Len(s)
      /\ e \in b..Len(s)
  BY DEF IsWord, HasWord
<1>2. ASSUME NEW m \in b..e PROVE s[m] # Space
  <2>1. m - b + 1 \in 1..Len(w) /\ b + (m - b + 1) - 1 = m
    BY <1>1
  <2>2. s[b + (m - b + 1) - 1] = w[m - b + 1]
    BY <2>1 DEF HasWord
  <2> QED
    BY <2>1, <2>2 DEF IsWord
<1>3. e = Len(s) \/ s[e + 1] = Space
  <2>1. e + 1 = b + Len(w)
    BY <1>1
  <2> QED
    BY <2>1 DEF HasWord
<1>4. SubSeq(s, b, e) = w
  <2>1. SubSeq(s, b, e) = [x \in 1..(e - b + 1) |-> s[b + x - 1]]
    BY <1>1
  <2>2. e - b + 1 = Len(w) /\ w = [x \in 1..Len(w) |-> w[x]]
    BY <1>1
  <2>3. \A x \in 1..Len(w) : s[b + x - 1] = w[x]
    BY DEF HasWord
  <2> HIDE DEF e
  <2> QED
    BY <2>1, <2>2, <2>3
<1> HIDE DEF e
<1> QED
  BY <1>1, <1>2, <1>3, <1>4, WordEnd

\* One more word,
Extended(s, w) == Append(s, Space) \o w

LEMMA ExtendedIs ==
  ASSUME NEW s \in Seq(Chars), NEW w, IsWord(w)
  PROVE  /\ Extended(s, w) \in Seq(Chars) /\ Len(s) \in Nat /\ Len(w) \in Nat \ {0}
         /\ Len(Extended(s, w)) = Len(s) + 1 + Len(w)
         /\ \A x \in 1..Len(s) : Extended(s, w)[x] = s[x]
         /\ Extended(s, w)[Len(s) + 1] = Space
         /\ \A x \in 1..Len(w) : Extended(s, w)[Len(s) + 1 + x] = w[x]
<1> DEFINE a == Append(s, Space)
<1>1. w \in Seq(Chars) /\ Len(w) > 0 /\ Space \in Chars
  BY DEF IsWord, Chars
<1>2. /\ a \in Seq(Chars) /\ Len(a) = Len(s) + 1 /\ a[Len(s) + 1] = Space
      /\ \A x \in 1..Len(s) : a[x] = s[x]
  BY <1>1
<1>3. Len(s) \in Nat /\ Len(w) \in Nat \ {0}
  BY <1>1
<1> HIDE DEF a
<1>4. /\ a \o w \in Seq(Chars) /\ Len(a \o w) = Len(a) + Len(w)
      /\ \A x \in 1..Len(a) : (a \o w)[x] = a[x]
      /\ \A x \in 1..Len(w) : (a \o w)[Len(a) + x] = w[x]
  <2>1. a \o w \in Seq(Chars) /\ Len(a \o w) = Len(a) + Len(w)
    BY <1>1, <1>2
  <2>2. \A x \in 1..Len(a) : (a \o w)[x] = a[x]
    BY <1>1, <1>2
  <2>3. ASSUME NEW x \in 1..Len(w) PROVE (a \o w)[Len(a) + x] = w[x]
    <3>1. Len(a) + x \in 1..Len(a) + Len(w) /\ ~(Len(a) + x <= Len(a)) /\ (Len(a) + x) - Len(a) = x
      BY <1>2, <1>3
    <3> QED
      BY <1>1, <1>2, <3>1
  <2> QED
    BY <2>1, <2>2, <2>3
<1>5. \A x \in 1..Len(s) : x \in 1..Len(a)
  BY <1>2, <1>3
<1>6. Len(s) + 1 \in 1..Len(a)
  BY <1>2, <1>3
<1> DEFINE t == a \o w
<1>7. Extended(s, w) = t
  BY DEF Extended, a
<1> HIDE DEF t
<1>8. t \in Seq(Chars) /\ Len(t) = Len(s) + 1 + Len(w)
  BY <1>2, <1>4 DEF t
<1>9. \A x \in 1..Len(s) : t[x] = s[x]
  BY <1>2, <1>4, <1>5 DEF t
<1>10. t[Len(s) + 1] = Space
  BY <1>2, <1>4, <1>6 DEF t
<1>11. \A x \in 1..Len(w) : t[Len(s) + 1 + x] = w[x]
  BY <1>2, <1>4 DEF t
<1> QED
  BY <1>3, <1>7, <1>8, <1>9, <1>10, <1>11

\* which begins behind the space; the others are what they were.
LEMMA ExtendedWords ==
  ASSUME NEW s \in Seq(Chars), NEW v, IsWord(v)
  PROVE  /\ Begins(Extended(s, v)) = Begins(s) \cup {Len(s) + 2}
         /\ HasWord(Extended(s, v), Len(s) + 2, v)
         /\ \A b, w : IsWord(w) /\ HasWord(s, b, w) => HasWord(Extended(s, v), b, w)
<1> DEFINE t == Extended(s, v)
<1>1. /\ t \in Seq(Chars) /\ Len(s) \in Nat /\ Len(v) \in Nat \ {0}
      /\ Len(t) = Len(s) + 1 + Len(v)
      /\ \A x \in 1..Len(s) : t[x] = s[x]
      /\ t[Len(s) + 1] = Space
      /\ \A x \in 1..Len(v) : t[Len(s) + 1 + x] = v[x]
  BY ExtendedIs
<1>2. DOMAIN t = 1..Len(t) /\ DOMAIN s = 1..Len(s)
  BY <1>1
<1> HIDE DEF t
<1>3. ASSUME NEW x \in 1..Len(v) PROVE t[Len(s) + 1 + x] # Space
  BY <1>1 DEF IsWord
<1>4. ASSUME NEW i \in 1..Len(t)
      PROVE  i \in Begins(t) <=> i \in Begins(s) \cup {Len(s) + 2}
  <2>0. i \in Begins(t) <=> t[i] # Space /\ (i = 1 \/ t[i - 1] = Space)
    BY <1>2 DEF Begins
  <2>1. CASE i <= Len(s)
    <3>1. i \in 1..Len(s) /\ i # Len(s) + 2 /\ (i # 1 => i - 1 \in 1..Len(s))
      BY <1>1, <2>1
    <3>2. i \in Begins(s) <=> s[i] # Space /\ (i = 1 \/ s[i - 1] = Space)
      BY <1>2, <3>1 DEF Begins
    <3>3. t[i] = s[i] /\ (i # 1 => t[i - 1] = s[i - 1])
      BY <1>1, <3>1
    <3> QED
      BY <2>0, <3>1, <3>2, <3>3
  <2>2. CASE i = Len(s) + 1
    <3>1. i \notin 1..Len(s) /\ i # Len(s) + 2
      BY <1>1, <2>2
    <3>2. i \notin Begins(s)
      BY <1>2, <3>1 DEF Begins
    <3> QED
      BY <1>1, <2>0, <2>2, <3>1, <3>2
  <2>3. CASE i = Len(s) + 2
    <3>1. 1 \in 1..Len(v) /\ Len(s) + 1 + 1 = i /\ i - 1 = Len(s) + 1
      BY <1>1, <2>3
    <3>2. t[i] # Space
      BY <1>3, <3>1
    <3> QED
      BY <1>1, <2>0, <2>3, <3>1, <3>2
  <2>4. CASE i > Len(s) + 2
    <3>1. /\ i \notin 1..Len(s) /\ i # Len(s) + 2 /\ i # 1
          /\ i - 1 - (Len(s) + 1) \in 1..Len(v)
          /\ Len(s) + 1 + (i - 1 - (Len(s) + 1)) = i - 1
      BY <1>1, <2>4
    <3>2. i \notin Begins(s)
      BY <1>2, <3>1 DEF Begins
    <3>3. t[Len(s) + 1 + (i - 1 - (Len(s) + 1))] # Space
      BY <1>3, <3>1
    <3>4. t[i - 1] # Space
      BY <3>1, <3>3
    <3> QED
      BY <2>0, <3>1, <3>2, <3>4
  <2> QED
    BY <1>1, <2>1, <2>2, <2>3, <2>4
<1>5. Begins(t) = Begins(s) \cup {Len(s) + 2}
  <2>1. Begins(t) \subseteq 1..Len(t)
    BY <1>2 DEF Begins
  <2>2. Begins(s) \subseteq 1..Len(s) /\ 1..Len(s) \subseteq 1..Len(t) /\ Len(s) + 2 \in 1..Len(t)
    BY <1>1, <1>2 DEF Begins
  <2> QED
    BY <1>4, <2>1, <2>2
<1>6. HasWord(t, Len(s) + 2, v)
  <2>1. /\ Len(s) + 2 \in 1..Len(t) /\ (Len(s) + 2) + Len(v) - 1 = Len(t)
        /\ \A x \in 1..Len(v) : (Len(s) + 2) + x - 1 = Len(s) + 1 + x
    BY <1>1
  <2>2. \A x \in 1..Len(v) : t[(Len(s) + 2) + x - 1] = v[x]
    BY <1>1, <2>1
  <2>3. (Len(s) + 2) + Len(v) - 1 <= Len(t)
    BY <1>1
  <2> QED
    BY <2>1, <2>2, <2>3 DEF HasWord
<1>7. ASSUME NEW b, NEW w, IsWord(w), HasWord(s, b, w) PROVE HasWord(t, b, w)
  <2>1. /\ Len(w) \in Nat \ {0} /\ b \in 1..Len(s) /\ b + Len(w) - 1 <= Len(s)
        /\ \A x \in 1..Len(w) : s[b + x - 1] = w[x]
        /\ b + Len(w) - 1 = Len(s) \/ s[b + Len(w)] = Space
    BY <1>7 DEF IsWord, HasWord
  <2>2. b \in 1..Len(t) /\ b + Len(w) - 1 <= Len(t)
    BY <1>1, <2>1
  <2>3. \A x \in 1..Len(w) : t[b + x - 1] = w[x]
    <3>1. \A x \in 1..Len(w) : b + x - 1 \in 1..Len(s)
      BY <1>1, <2>1
    <3> QED
      BY <1>1, <2>1, <3>1
  <2>4. t[b + Len(w)] = Space
    <3>1. CASE b + Len(w) - 1 = Len(s)
      <4>1. b + Len(w) = Len(s) + 1
        BY <1>1, <2>1, <3>1
      <4> QED
        BY <1>1, <4>1
    <3>2. CASE b + Len(w) - 1 # Len(s)
      <4>0. /\ Len(w) \in Nat \ {0} /\ b \in Nat \ {0} /\ Len(s) \in Nat
            /\ b + Len(w) - 1 <= Len(s) /\ b + Len(w) - 1 # Len(s)
        BY <1>1, <2>1, <3>2
      <4>1. b + Len(w) \in 1..Len(s)
        BY <4>0
      <4> QED
        BY <1>1, <2>1, <3>2, <4>1
    <3> QED
      BY <3>1, <3>2
  <2> QED
    BY <2>2, <2>3, <2>4 DEF HasWord
<1> QED
  BY <1>5, <1>6, <1>7 DEF t

\* s consists of the first m words of W, with single spaces between them.
Sentence(s, m, W) ==
  /\ s \in Seq(Chars) /\ Len(s) > 0 /\ s[Len(s)] # Space
  /\ \A i \in 1..Len(s) : s[i] = Space => i \in 2..(Len(s) - 1) /\ s[i - 1] # Space
  /\ \E at : /\ Ascending(at, m) /\ Begins(s) = Among(at, m)
             /\ \A j \in 1..m : HasWord(s, at[j], W[j])

LEMMA OneWord ==
  ASSUME NEW W, IsWord(W[1])
  PROVE  Sentence(W[1], 1, W)
<1> DEFINE s == W[1]
           at == [j \in 1..1 |-> 1]
<1>1. s \in Seq(Chars) /\ Len(s) \in Nat /\ Len(s) > 0 /\ \A x \in 1..Len(s) : s[x] # Space
  BY DEF IsWord
<1>2. DOMAIN s = 1..Len(s)
  BY <1>1
<1> HIDE DEF s
<1>3. Begins(s) = {1}
  <2>1. ASSUME NEW i \in Begins(s) PROVE i = 1
    <3>1. i \in 1..Len(s) /\ (i = 1 \/ s[i - 1] = Space)
      BY <1>2 DEF Begins
    <3>2. i # 1 => i - 1 \in 1..Len(s)
      BY <1>1, <3>1
    <3> QED
      BY <1>1, <3>1, <3>2
  <2>2. 1 \in Begins(s)
    <3>1. 1 \in 1..Len(s)
      BY <1>1
    <3> QED
      BY <1>1, <1>2, <3>1 DEF Begins
  <2> QED
    BY <2>1, <2>2
<1>4. Ascending(at, 1) /\ Among(at, 1) = {1}
  BY DEF Ascending, Among
<1>5. HasWord(s, 1, s)
  <2>1. 1 \in 1..Len(s) /\ 1 + Len(s) - 1 = Len(s) /\ \A x \in 1..Len(s) : 1 + x - 1 = x
    BY <1>1
  <2>2. \A x \in 1..Len(s) : s[1 + x - 1] = s[x]
    BY <2>1
  <2>3. 1 + Len(s) - 1 <= Len(s)
    BY <1>1
  <2> QED
    BY <2>1, <2>2, <2>3 DEF HasWord
<1>6. \A j \in 1..1 : HasWord(s, at[j], W[j])
  <2>1. \A j \in 1..1 : j = 1 /\ at[j] = 1
    OBVIOUS
  <2> QED
    BY <1>5, <2>1 DEF s
<1>7. s[Len(s)] # Space
  BY <1>1
<1> HIDE DEF at
<1>8. Sentence(s, 1, W)
  BY <1>1, <1>3, <1>4, <1>6, <1>7 DEF Sentence
<1> QED
  BY <1>8 DEF s

LEMMA MoreSentence ==
  ASSUME NEW W, NEW m \in Nat \ {0}, NEW s, Sentence(s, m, W),
         \A j \in 1..(m + 1) : IsWord(W[j])
  PROVE  Sentence(Extended(s, W[m + 1]), m + 1, W)
<1> DEFINE v == W[m + 1]
           t == Extended(s, v)
<1>0. IsWord(v) /\ \A j \in 1..m : IsWord(W[j])
  <2>1. m + 1 \in 1..(m + 1) /\ \A j \in 1..m : j \in 1..(m + 1)
    OBVIOUS
  <2> QED
    BY <2>1
<1>1. s \in Seq(Chars) /\ Len(s) > 0 /\ s[Len(s)] # Space
      /\ \A i \in 1..Len(s) : s[i] = Space => i \in 2..(Len(s) - 1) /\ s[i - 1] # Space
  BY DEF Sentence
<1>2. PICK at : /\ Ascending(at, m) /\ Begins(s) = Among(at, m)
                /\ \A j \in 1..m : HasWord(s, at[j], W[j])
  BY DEF Sentence
<1> HIDE DEF v
<1>3. /\ t \in Seq(Chars) /\ Len(s) \in Nat /\ Len(v) \in Nat \ {0}
      /\ Len(t) = Len(s) + 1 + Len(v)
      /\ \A x \in 1..Len(s) : t[x] = s[x]
      /\ t[Len(s) + 1] = Space
      /\ \A x \in 1..Len(v) : t[Len(s) + 1 + x] = v[x]
  <2>1. s \in Seq(Chars)
    BY <1>1
  <2> QED
    BY <1>0, <2>1, ExtendedIs, ZenonT(60)
<1>4. /\ Begins(t) = Begins(s) \cup {Len(s) + 2}
      /\ HasWord(t, Len(s) + 2, v)
      /\ \A b, w : IsWord(w) /\ HasWord(s, b, w) => HasWord(t, b, w)
  BY <1>0, <1>1, ExtendedWords
<1> HIDE DEF t
<1> DEFINE to == [j \in 1..(m + 1) |-> IF j <= m THEN at[j] ELSE Len(s) + 2]
<1>5. /\ \A j \in 1..m : to[j] = at[j] /\ at[j] \in Nat /\ at[j] \in 1..Len(s)
      /\ to[m + 1] = Len(s) + 2
  <2>1. \A j \in 1..m : at[j] \in 1..Len(s)
    BY <1>2 DEF HasWord
  <2> QED
    BY <2>1
<1>6. Ascending(to, m + 1)
  <2>1. to \in [1..(m + 1) -> Nat]
    <3>1. Len(s) + 2 \in Nat
      BY <1>3
    <3>2. ASSUME NEW j \in 1..(m + 1) PROVE (IF j <= m THEN at[j] ELSE Len(s) + 2) \in Nat
      <4>1. j <= m => j \in 1..m
        OBVIOUS
      <4> QED
        BY <1>5, <3>1, <4>1
    <3> QED
      BY <3>2
  <2>2. ASSUME NEW j \in 1..(m + 1), NEW i \in 1..(j - 1) PROVE to[i] < to[j]
    <3>1. i \in 1..m /\ to[i] = at[i] /\ at[i] \in 1..Len(s)
      BY <1>5
    <3>2. CASE j = m + 1
      BY <1>3, <1>5, <3>1, <3>2
    <3>3. CASE j # m + 1
      <4>1. j \in 1..m
        BY <3>3
      <4> QED
        BY <1>2, <1>5, <3>1, <4>1 DEF Ascending
    <3> QED
      BY <3>2, <3>3
  <2> HIDE DEF to
  <2> QED
    BY <2>1, <2>2 DEF Ascending
<1>7. Begins(t) = Among(to, m + 1)
  <2>1. Among(to, m + 1) = Among(at, m) \cup {Len(s) + 2}
    <3>1. \A j \in 1..(m + 1) : j \in 1..m \/ j = m + 1
      OBVIOUS
    <3>2. \A j \in 1..m : j \in 1..(m + 1)
      OBVIOUS
    <3>3. m + 1 \in 1..(m + 1)
      OBVIOUS
    <3> HIDE DEF to
    <3> QED
      BY <1>5, <3>1, <3>2, <3>3 DEF Among
  <2> QED
    BY <1>2, <1>4, <2>1
<1>8. ASSUME NEW j \in 1..(m + 1) PROVE HasWord(t, to[j], W[j])
  <2>1. CASE j = m + 1
    BY <1>4, <1>5, <2>1 DEF v
  <2>2. CASE j # m + 1
    <3>1. j \in 1..m
      BY <2>2
    <3> QED
      BY <1>0, <1>2, <1>4, <1>5, <3>1
  <2> QED
    BY <2>1, <2>2
<1>9. \A x \in 1..Len(v) : v[x] # Space
  BY <1>0 DEF IsWord
<1>10. t[Len(t)] # Space
  <2>1. Len(v) \in 1..Len(v)
    BY <1>3
  <2> QED
    BY <1>3, <1>9, <2>1
<1>11. ASSUME NEW i \in 1..Len(t), t[i] = Space PROVE i \in 2..(Len(t) - 1) /\ t[i - 1] # Space
  <2>1. CASE i <= Len(s)
    <3>1. i \in 1..Len(s) /\ s[i] = Space
      BY <1>3, <1>11, <2>1
    <3>2. i \in 2..(Len(s) - 1) /\ s[i - 1] # Space
      BY <1>1, <3>1
    <3>3. i - 1 \in 1..Len(s)
      BY <1>3, <3>2
    <3> QED
      BY <1>3, <3>2, <3>3
  <2>2. CASE i = Len(s) + 1
    <3>1. i - 1 = Len(s) /\ Len(s) \in 1..Len(s) /\ i \in 2..(Len(t) - 1)
      BY <1>1, <1>3, <2>2
    <3> QED
      BY <1>1, <1>3, <3>1
  <2>3. CASE i > Len(s) + 1
    <3>1. i - (Len(s) + 1) \in 1..Len(v) /\ Len(s) + 1 + (i - (Len(s) + 1)) = i
      BY <1>3, <2>3
    <3>2. t[Len(s) + 1 + (i - (Len(s) + 1))] = v[i - (Len(s) + 1)]
      BY <1>3, <3>1
    <3> QED
      BY <1>9, <1>11, <3>1, <3>2
  <2> QED
    BY <1>3, <2>1, <2>2, <2>3
<1>12. Len(t) > 0
  BY <1>3
<1> HIDE DEF to
<1>13. Sentence(t, m + 1, W)
  BY <1>3, <1>6, <1>7, <1>8, <1>10, <1>11, <1>12 DEF Sentence
<1> QED
  BY <1>13 DEF t, v

\* The words that are read: behind each but the last there is a space at least.
LEMMA WordShape ==
  ASSUME Splitting, NEW i \in 1..Len(args)
  PROVE  /\ IsWord(Word(i)) /\ args[i] \in Nat \ {0} /\ Len(line) \in Nat
         /\ args[i] + Len(Word(i)) - 1 <= Len(line)
         /\ \A j \in 1..Len(args) : i < j => args[i] + Len(Word(i)) < args[j]
<1> DEFINE b == args[i]
           w == Word(i)
<1>1. /\ line \in CommandLines /\ copy \in Seq(Chars) /\ Len(copy) = Len(line) + 1
      /\ b \in 1..Len(line) /\ Len(line) \in Nat
  BY WordIs DEF Splitting
<1>2. PICK e \in b..Len(line) : /\ \A m \in b..e : copy[m] = Whole[m] /\ line[m] # Space
                                /\ e = Len(line) \/ line[e + 1] = Space
                                /\ w = SubSeq(copy, b, e)
  BY WordIs
<1>3. \A m \in 1..Len(line) : Whole[m] = Space <=> line[m] = Space
  BY <1>1, WholeLine DEF Whole
<1>4. \A j \in 1..Len(args) : /\ args[j] \in 1..Len(line) /\ args[j] \in Begins(line)
                              /\ i < j => b < args[j]
  <2>1. \A j \in 1..Len(args) : args[j] \in 1..Len(line)
    BY WordIs
  <2>2. \A j \in 1..Len(args) : i < j => i \in 1..(j - 1)
    OBVIOUS
  <2> QED
    BY <2>1, <2>2 DEF Splitting
<1> HIDE DEF w, b
<1>5. w = [x \in 1..(e - b + 1) |-> copy[b + x - 1]]
  BY <1>1, <1>2
<1>6. ASSUME NEW x \in 1..(e - b + 1) PROVE copy[b + x - 1] \in Chars /\ copy[b + x - 1] # Space
  <2>1. b + x - 1 \in b..e /\ b + x - 1 \in 1..Len(line) /\ b + x - 1 \in 1..Len(copy)
    BY <1>1
  <2>2. copy[b + x - 1] \in Chars
    BY <1>1, <2>1
  <2>3. copy[b + x - 1] = Whole[b + x - 1] /\ line[b + x - 1] # Space
    BY <1>2, <2>1
  <2> QED
    BY <1>3, <2>1, <2>2, <2>3
<1>7. e - b + 1 \in Nat \ {0}
  BY <1>1
<1>8. w \in Seq(Chars) /\ Len(w) = e - b + 1 /\ \A x \in 1..Len(w) : w[x] # Space
  <2> DEFINE l == e - b + 1
  <2>1. l \in Nat /\ w = [x \in 1..l |-> copy[b + x - 1]]
        /\ \A x \in 1..l : copy[b + x - 1] \in Chars /\ copy[b + x - 1] # Space
    BY <1>5, <1>6, <1>7
  <2> HIDE DEF l
  <2>2. w \in Seq(Chars) /\ Len(w) = l
    BY <2>1
  <2>3. \A x \in 1..l : w[x] # Space
    BY <2>1
  <2> QED
    BY <2>2, <2>3 DEF l
<1>9. IsWord(w)
  BY <1>7, <1>8 DEF IsWord
<1>10. b + Len(w) - 1 = e
  BY <1>1, <1>8
<1>11. ASSUME NEW j \in 1..Len(args), i < j PROVE b + Len(w) < args[j]
  <2> DEFINE c == args[j]
  <2>1. c \in 1..Len(line) /\ b < c /\ line[c] # Space /\ (c = 1 \/ line[c - 1] = Space)
    <3>1. c \in Begins(line)
      BY <1>4
    <3> QED
      BY <1>4, <1>11, <3>1 DEF Begins
  <2> HIDE DEF c
  <2>2. b + Len(w) = e + 1 /\ c \in Nat /\ b \in Nat /\ e \in Nat /\ b >= 1
    BY <1>1, <1>10, <2>1
  <2>3. ~(c <= e)
    <3>1. c <= e => c - 1 \in b..e /\ c # 1
      BY <2>1, <2>2
    <3> QED
      BY <1>2, <2>1, <3>1
  <2>4. c # e + 1
    <3>1. c = e + 1 => e # Len(line)
      BY <1>1, <2>1, <2>2
    <3> QED
      BY <1>2, <2>1, <3>1
  <2>5. e + 1 < c
    BY <2>2, <2>3, <2>4
  <2> QED
    BY <2>2, <2>5 DEF c
<1>12. b \in Nat \ {0} /\ b + Len(w) - 1 <= Len(line)
  BY <1>1, <1>10
<1> QED
  BY <1>1, <1>9, <1>11, <1>12 DEF b, w

\* What echo puts together is what it is defined to be.
LEMMA JoinedIs ==
  ASSUME Splitting, NEW i \in 1..Len(args)
  PROVE  /\ i = 1 => Joined[i] = << >>
         /\ i = 2 => Joined[i] = Word(i)
         /\ i > 2 => Joined[i] = Extended(Joined[i - 1], Word(i))
<1> DEFINE S == Seq(Chars)
           L == Len(args)
           F == [j \in Nat |-> [s \in S |->
                   IF j \in 3..L THEN Extended(s, Word(j))
                   ELSE IF j \in 2..L THEN Word(j) ELSE << >>]]
           earlier == [j \in Nat |-> IF j = 0 THEN 0 ELSE j - 1]
           z == << >>
<1>0. L \in Nat /\ \A j \in 1..L : IsWord(Word(j)) /\ Word(j) \in S
  <2>1. L \in Nat
    BY DEF Splitting
  <2>2. \A j \in 1..L : IsWord(Word(j))
    BY WordShape
  <2> QED
    BY <2>1, <2>2 DEF IsWord
<1>3. z \in S
  OBVIOUS
<1> HIDE DEF L, z
<1>1. F \in [Nat -> [S -> S]]
  <2>1. ASSUME NEW j \in Nat, NEW s \in S
        PROVE  (IF j \in 3..L THEN Extended(s, Word(j))
                ELSE IF j \in 2..L THEN Word(j) ELSE << >>) \in S
    <3>1. CASE j \in 3..L
      <4>1. IsWord(Word(j))
        BY <1>0, <3>1
      <4>2. Extended(s, Word(j)) \in S
        BY <4>1, ExtendedIs
      <4> QED
        BY <3>1, <4>2
    <3>2. CASE j \notin 3..L /\ j \in 2..L
      <4>1. Word(j) \in S
        BY <1>0, <3>2
      <4> QED
        BY <3>2, <4>1
    <3>3. CASE j \notin 2..L
      <4>1. j \notin 3..L
        BY <1>0, <3>3
      <4> QED
        BY <1>3, <3>3, <4>1 DEF z
    <3> QED
      BY <3>1, <3>2, <3>3
  <2> HIDE DEF S
  <2> QED
    BY <2>1
<1>2. earlier \in [Nat -> Nat] /\ \A j \in Nat \ {0} : earlier[j] < j /\ earlier[j] = j - 1
  OBVIOUS
<1>4. \A j \in Nat, s \in S : F[j][s] =
        IF j \in 3..L THEN Extended(s, Word(j)) ELSE IF j \in 2..L THEN Word(j) ELSE << >>
  OBVIOUS
<1> HIDE DEF S, F, earlier
<1>5. Recursive(S, F, earlier, z)
  BY <1>1, <1>2, <1>3 DEF Recursive
<1>6. PICK f : Solves(S, F, earlier, z, f)
  BY <1>5, Recursion
<1>7. /\ f \in [Nat -> S] /\ f[0] = << >>
      /\ \A j \in Nat \ {0} : f[j] = F[j][f[j - 1]] /\ f[j - 1] \in S
  BY <1>2, <1>6 DEF Solves, z
<1> DEFINE g == [j \in 0..L |-> f[j]]
           Def(h) == [j \in 0..L |->
                        IF j < 2 THEN << >>
                        ELSE IF j = 2 THEN Word(2)
                        ELSE Append(h[j - 1], Space) \o Word(j)]
<1>8. ASSUME NEW j \in 0..L
      PROVE  g[j] = IF j < 2 THEN << >>
                    ELSE IF j = 2 THEN Word(2)
                    ELSE Append(g[j - 1], Space) \o Word(j)
  <2>1. CASE j = 0
    BY <1>7, <2>1
  <2>2. CASE j # 0
    <3>1. j - 1 \in 0..L /\ j \in Nat \ {0} /\ g[j] = f[j] /\ g[j - 1] = f[j - 1]
      BY <1>0, <2>2
    <3>2. f[j] = F[j][f[j - 1]] /\ f[j - 1] \in S
      BY <1>7, <3>1
    <3>3. j < 2 => j \notin 2..L /\ j \notin 3..L
      BY <1>0
    <3>4. j = 2 => j \in 2..L /\ j \notin 3..L
      BY <1>0
    <3>5. ~(j < 2) /\ j # 2 => j \in 3..L
      BY <1>0
    <3> HIDE DEF g
    <3>6. f[j] = IF j \in 3..L THEN Extended(f[j - 1], Word(j))
                 ELSE IF j \in 2..L THEN Word(j) ELSE << >>
      BY <1>4, <3>1, <3>2
    <3> QED
      BY <3>1, <3>3, <3>4, <3>5, <3>6 DEF Extended
  <2> QED
    BY <2>1, <2>2
<1>9. g = Def(g)
  BY <1>8
<1> HIDE DEF g
<1>10. Joined = Def(Joined)
  BY <1>9, Zenon DEF Joined, L
<1>11. \A j \in 0..L : Joined[j] = IF j < 2 THEN << >>
                                   ELSE IF j = 2 THEN Word(2)
                                   ELSE Append(Joined[j - 1], Space) \o Word(j)
  BY <1>10
<1> HIDE DEF Def
<1>12. i \in 0..L /\ (i > 2 => ~(i < 2) /\ i # 2) /\ (i = 1 => i < 2) /\ (i = 2 => ~(i < 2))
  BY <1>0 DEF L
<1>13. Joined[i] = IF i < 2 THEN << >>
                   ELSE IF i = 2 THEN Word(2)
                   ELSE Append(Joined[i - 1], Space) \o Word(i)
  BY <1>11, <1>12
<1> QED
  BY <1>12, <1>13 DEF Extended

\* Up to each word it is those from the second on, with single spaces between
\* them, and no longer than the line up to there.
LEMMA JoinedSentence ==
  ASSUME Splitting, NEW i \in 2..Len(args)
  PROVE  /\ Sentence(Joined[i], i - 1, [j \in Nat |-> Word(j + 1)])
         /\ Len(Joined[i]) <= args[i] + Len(Word(i)) - 1
<1> DEFINE W == [j \in Nat |-> Word(j + 1)]
           L == Len(args)
           T == {j \in Nat : j + 2 <= L =>
                   /\ Sentence(Joined[j + 2], j + 1, W)
                   /\ Len(Joined[j + 2]) <= args[j + 2] + Len(Word(j + 2)) - 1}
<1>0. L \in Nat /\ \A j \in 1..L : IsWord(Word(j)) /\ Len(Word(j)) \in Nat /\ args[j] \in Nat \ {0}
  <2>1. L \in Nat
    BY DEF Splitting
  <2>2. \A j \in 1..L : IsWord(Word(j)) /\ args[j] \in Nat \ {0}
    BY WordShape
  <2> QED
    BY <2>1, <2>2 DEF IsWord
<1>1. \A j \in Nat : W[j] = Word(j + 1)
  OBVIOUS
<1> HIDE DEF W
<1>2. 0 \in T
  <2> SUFFICES ASSUME 0 + 2 <= L
               PROVE  /\ Sentence(Joined[2], 1, W)
                      /\ Len(Joined[2]) <= args[2] + Len(Word(2)) - 1
    OBVIOUS
  <2>1. 2 \in 1..L /\ 1 + 1 = 2
    BY <1>0
  <2>2. W[1] = Word(2) /\ IsWord(Word(2)) /\ Len(Word(2)) \in Nat /\ args[2] \in Nat \ {0}
    BY <1>0, <1>1, <2>1
  <2>3. Joined[2] = W[1]
    BY <2>1, <2>2, JoinedIs
  <2>4. Sentence(Joined[2], 1, W)
    BY <2>2, <2>3, OneWord
  <2> QED
    BY <2>2, <2>3, <2>4
<1>3. ASSUME NEW j \in Nat, j \in T PROVE j + 1 \in T
  <2> DEFINE q == j + 2
             r == j + 3
             s == Joined[q]
  <2> SUFFICES ASSUME r <= L
               PROVE  /\ Sentence(Joined[r], j + 2, W)
                      /\ Len(Joined[r]) <= args[r] + Len(Word(r)) - 1
    <3>1. (j + 1) + 2 = r /\ (j + 1) + 1 = j + 2
      OBVIOUS
    <3> HIDE DEF r
    <3> QED
      BY <3>1
  <2>1. q \in 1..L /\ r \in 1..L /\ q < r /\ r - 1 = q /\ r > 2 /\ (j + 1) + 1 = q
    BY <1>0
  <2>2. Sentence(s, j + 1, W) /\ Len(s) <= args[q] + Len(Word(q)) - 1
    BY <1>3, <2>1
  <2>3. Joined[r] = Extended(s, Word(r))
    <3> HIDE DEF r, q
    <3> QED
      BY <2>1, JoinedIs
  <2>4. W[(j + 1) + 1] = Word(r) /\ j + 1 \in Nat \ {0} /\ j + 2 = (j + 1) + 1
    <3>1. W[j + 2] = Word((j + 2) + 1)
      BY <1>1
    <3>2. (j + 2) + 1 = j + 3 /\ (j + 1) + 1 = j + 2
      OBVIOUS
    <3> QED
      BY <3>1, <3>2
  <2>5. \A m \in 1..((j + 1) + 1) : IsWord(W[m])
    <3>1. \A m \in 1..((j + 1) + 1) : m \in Nat /\ m + 1 \in 1..L
      BY <1>0, <2>1
    <3> QED
      BY <1>0, <1>1, <3>1
  <2> HIDE DEF s, q, r
  <2>6. Sentence(Extended(s, W[(j + 1) + 1]), (j + 1) + 1, W)
    <3> DEFINE u == j + 1
    <3>1. u \in Nat \ {0} /\ Sentence(s, u, W) /\ \A m \in 1..(u + 1) : IsWord(W[m])
      BY <2>2, <2>4, <2>5
    <3> HIDE DEF u
    <3>2. Sentence(Extended(s, W[u + 1]), u + 1, W)
      BY <3>1, MoreSentence
    <3> QED
      BY <3>2 DEF u
  <2>7. Len(Joined[r]) = Len(s) + 1 + Len(Word(r)) /\ Len(s) \in Nat
    <3>1. s \in Seq(Chars) /\ IsWord(Word(r))
      BY <1>0, <2>1, <2>2 DEF Sentence
    <3> QED
      BY <2>3, <3>1, ExtendedIs
  <2>8. args[q] + Len(Word(q)) < args[r]
    BY <2>1, WordShape DEF L
  <2>9. /\ args[q] \in Nat /\ args[r] \in Nat
        /\ Len(Word(q)) \in Nat /\ Len(Word(r)) \in Nat
    BY <1>0, <2>1
  <2>10. Len(Joined[r]) <= args[r] + Len(Word(r)) - 1
    <3>1. Len(s) <= args[q] + Len(Word(q)) - 1
      BY <2>2
    <3> QED
      BY <2>7, <2>8, <2>9, <3>1
  <2> QED
    BY <2>3, <2>4, <2>6, <2>10
<1>4. \A j \in Nat : j \in T
  <2> HIDE DEF T
  <2> QED
    BY <1>2, <1>3, Induction
<1>5. i - 2 \in Nat /\ (i - 2) + 2 = i /\ (i - 2) + 1 = i - 1 /\ i <= L
  BY <1>0
<1>6. Sentence(Joined[i], i - 1, W) /\ Len(Joined[i]) <= args[i] + Len(Word(i)) - 1
  BY <1>4, <1>5
<1> QED
  BY <1>6 DEF W

\* The operator is the first, and not the last word.
LEMMA OperatorPlace ==
  ASSUME Len(args) \in Nat
  PROVE  /\ redirect_pos # 0 => /\ redirect_pos \in 2..(Len(args) - 1)
                                /\ Word(redirect_pos) \in {To, Onto}
         /\ redirect_pos = 0 => \A i \in 2..(Len(args) - 1) : Word(i) \notin {To, Onto}
<1> DEFINE ops == {i \in 2..Len(args) : Word(i) \in {To, Onto}}
           P(j) == \A m \in ops : j <= m
           i == CHOOSE j \in ops : P(j)
<1>1. redirect_pos = IF ops # {} /\ i < Len(args) THEN i ELSE 0
  BY DEF redirect_pos
<1>2. CASE ops = {}
  <2>1. redirect_pos = 0
    BY <1>1, <1>2
  <2>2. \A j \in 2..(Len(args) - 1) : j \in 2..Len(args)
    OBVIOUS
  <2> QED
    BY <1>2, <2>1, <2>2
<1>3. CASE ops # {}
  <2>1. ops \subseteq 2..Len(args) /\ \A j \in ops : Word(j) \in {To, Onto}
    OBVIOUS
  <2>2. \A j \in 2..Len(args) : Word(j) \in {To, Onto} => j \in ops
    OBVIOUS
  <2> HIDE DEF ops, P
  <2>3. PICK j \in ops : \A m \in 2..(j - 1) : m \notin ops
    BY <1>3, <2>1, FirstPlace
  <2>4. P(j)
    <3>1. ASSUME NEW m \in ops PROVE j <= m
      <4>1. m \in 2..Len(args) /\ j \in 2..Len(args)
        BY <2>1
      <4>2. ~(m \in 2..(j - 1))
        BY <2>3
      <4> QED
        BY <4>1, <4>2
    <3> QED
      BY <3>1 DEF P
  <2>5. i \in ops /\ P(i)
    BY <2>4
  <2> HIDE DEF i
  <2>6. i \in 2..Len(args) /\ Word(i) \in {To, Onto}
    BY <2>1, <2>5
  <2>7. CASE i < Len(args)
    <3>1. redirect_pos = i /\ i # 0 /\ i \in 2..(Len(args) - 1)
      BY <1>1, <1>3, <2>6, <2>7
    <3> QED
      BY <2>6, <3>1
  <2>8. CASE ~(i < Len(args))
    <3>1. redirect_pos = 0
      BY <1>1, <2>8
    <3>2. ASSUME NEW m \in 2..(Len(args) - 1) PROVE m \notin ops
      <4>1. m < i
        BY <2>6, <2>8
      <4>2. m \in ops => i <= m
        BY <2>5 DEF P
      <4> QED
        BY <2>6, <4>1, <4>2
    <3>3. \A m \in 2..(Len(args) - 1) : m \in 2..Len(args)
      OBVIOUS
    <3> QED
      BY <2>2, <3>1, <3>2, <3>3
  <2> QED
    BY <2>7, <2>8
<1> QED
  BY <1>2, <1>3

\* The text of a redirected echo, however many words it has.
LEMMA EchoGiven ==
  ASSUME Splitting, ~original, redirect_pos # 0
  PROVE  /\ Len(EchoText) < MAX_CMD_LEN
         /\ \A i \in DOMAIN EchoText : EchoText[i] = Space =>
              i \in 2..(Len(EchoText) - 1) /\ EchoText[i - 1] # Space
         /\ Cardinality(Begins(EchoText)) = redirect_pos - 2
         /\ \A i \in 2..(redirect_pos - 1) :
              TypedWord(EchoText, i - 1) = LowerCaseOf(TypedWord(line, i))
<1> DEFINE r == redirect_pos
           s == EchoText
           W == [j \in Nat |-> Word(j + 1)]
<1>1. Len(args) \in Nat /\ r \in 2..(Len(args) - 1) /\ Len(line) \in Nat
  <2>1. Len(args) \in Nat
    BY DEF Splitting
  <2>2. r \in 2..(Len(args) - 1)
    BY <2>1, OperatorPlace
  <2> QED
    BY <2>1, <2>2, WholeLine DEF Splitting
<1>2. MAX_CMD_LEN \in Nat /\ Len(line) <= MAX_CMD_LEN - 2
  BY CommandAssumption DEF Splitting
<1>3. s = Joined[r - 1]
  BY DEF EchoText
<1> HIDE DEF r, s
<1>4. CASE r = 2
  <2>1. s = << >>
    <3>1. 1 \in 1..Len(args) /\ r - 1 = 1
      BY <1>1, <1>4
    <3> QED
      BY <1>3, <3>1, JoinedIs
  <2>2. Len(s) = 0 /\ DOMAIN s = {} /\ Begins(s) = {}
    <3>1. Len(s) = 0 /\ DOMAIN s = {}
      BY <2>1
    <3> QED
      BY <3>1 DEF Begins
  <2>3. Cardinality(Begins(s)) = 0
    BY <2>2, FS_EmptySet
  <2>4. r - 2 = 0 /\ 2..(r - 1) = {} /\ 0 < MAX_CMD_LEN
    BY <1>1, <1>2, <1>4
  <2> QED
    BY <2>2, <2>3, <2>4 DEF r, s
<1>5. CASE r # 2
  <2>1. r - 1 \in 2..Len(args) /\ r - 1 \in 1..Len(args) /\ (r - 1) - 1 = r - 2 /\ r - 2 \in Nat
    BY <1>1, <1>5
  <2>2. Sentence(s, r - 2, W) /\ Len(s) <= args[r - 1] + Len(Word(r - 1)) - 1
    <3> DEFINE q == r - 1
    <3>1. q \in 2..Len(args) /\ q - 1 = r - 2
      BY <2>1
    <3> HIDE DEF q
    <3>2. Sentence(Joined[q], q - 1, W) /\ Len(Joined[q]) <= args[q] + Len(Word(q)) - 1
      BY <3>1, JoinedSentence
    <3> QED
      BY <1>3, <3>1, <3>2 DEF q
  <2>3. s \in Seq(Chars) /\ Len(s) \in Nat /\ DOMAIN s = 1..Len(s)
    BY <2>2 DEF Sentence
  <2>4. Len(s) < MAX_CMD_LEN
    <3>1. /\ args[r - 1] + Len(Word(r - 1)) - 1 <= Len(line)
          /\ args[r - 1] \in Nat /\ Len(Word(r - 1)) \in Nat
      BY <2>1, WordShape DEF IsWord
    <3> DEFINE e == args[r - 1] + Len(Word(r - 1)) - 1
    <3>2. e \in Int
      BY <3>1
    <3>3. e <= Len(line)
      BY <3>1
    <3>4. Len(s) <= e
      BY <2>2
    <3> HIDE DEF e
    <3> QED
      BY <1>1, <1>2, <2>3, <3>2, <3>3, <3>4
  <2>5. \A i \in DOMAIN s : s[i] = Space => i \in 2..(Len(s) - 1) /\ s[i - 1] # Space
    BY <2>2, <2>3 DEF Sentence
  <2> DEFINE m == r - 2
  <2>6. PICK at : /\ Ascending(at, m) /\ Begins(s) = Among(at, m)
                  /\ \A j \in 1..m : HasWord(s, at[j], W[j])
    BY <2>2 DEF Sentence
  <2>7. m \in Nat /\ m \in 0..m
    BY <2>1
  <2>8. Cardinality(Begins(s)) = m
    <3> HIDE DEF m
    <3> QED
      BY <2>6, <2>7, Counted
  <2>9. ASSUME NEW i \in 2..(r - 1)
        PROVE  TypedWord(s, i - 1) = LowerCaseOf(TypedWord(line, i))
    <3> DEFINE j == i - 1
    <3>1. j \in 1..m /\ j + 1 = i /\ i \in 1..Len(args) /\ j \in Nat
      BY <1>1
    <3>2. IsWord(Word(i))
      BY <3>1, WordShape
    <3>3. W[j] = Word(i)
      BY <3>1
    <3> HIDE DEF j, m
    <3>4. HasWord(s, at[j], Word(i))
      BY <2>6, <3>1, <3>3
    <3>5. WordAt(s, at[j]) = Word(i)
      BY <2>3, <3>2, <3>4, HasWordAt
    <3>6. Begins(s) \in SUBSET (1..Len(s))
      BY <2>3 DEF Begins
    <3>7. \A l \in 1..m : at[l] \in Begins(s)
      BY <2>6 DEF Among
    <3>8. \A b \in Begins(s) : \E l \in 1..m : at[l] = b
      BY <2>6 DEF Among
    <3>9. \A l \in 1..j : l \in 1..m
      BY <2>7, <3>1
    <3>10. Place(Begins(s), at[j]) = j - 1
      <4> DEFINE S == Begins(s)
      <4>1. (\A l \in 1..j : at[l] \in S) /\ \A b \in S : b < at[j] => \E l \in 1..m : at[l] = b
        BY <3>7, <3>8, <3>9
      <4> HIDE DEF S
      <4>2. Place(S, at[j]) = j - 1
        BY <2>6, <2>7, <3>1, <4>1, PlaceOf
      <4> QED
        BY <4>2 DEF S
    <3>11. TypedWord(s, j) = WordAt(s, at[j])
      BY <2>3, <3>1, <3>6, <3>7, <3>10, TypedIs
    <3>12. /\ Word(i) = LowerCaseOf(WordAt(line, args[i]))
           /\ TypedWord(line, i) = WordAt(line, args[i])
      BY <3>1, WordRead, LineWords
    <3> QED
      BY <3>5, <3>11, <3>12 DEF j
  <2> QED
    BY <2>4, <2>5, <2>8, <2>9 DEF r, s
<1> QED
  BY <1>4, <1>5

\* What is redirected was put together from the words in lower case.
RedirectInv ==
  /\ SplitInv
  /\ stage = "redirect" =>
       \/ Handler = "cat" /\ text \in {To, Onto}
       \/ /\ Handler = "echo" /\ Splitting /\ ~original
          /\ redirect_pos # 0 /\ text = EchoText

\* What is read of a line that is not split any further stays.
LEMMA SameWords ==
  ASSUME UNCHANGED split_vars
  PROVE  /\ redirect_pos' = redirect_pos /\ Handler' = Handler /\ EchoText' = EchoText
         /\ Splitting => Splitting'
<1>1. /\ line' = line /\ copy' = copy /\ token' = token /\ args' = args /\ original' = original
  BY DEF split_vars
<1>2. redirect_pos' = redirect_pos
  BY <1>1 DEF redirect_pos, Word, Find
<1>3. Handler' = Handler
  BY <1>1 DEF Handler, Word, Find
<1>4. Joined' = Joined
  BY <1>1 DEF Joined, Word, Find
<1>5. EchoText' = EchoText
  BY <1>2, <1>4 DEF EchoText
<1>6. Splitting => Splitting'
  BY <1>1 DEF Splitting, Whole_Word, Whole, Begins
<1> QED
  BY <1>2, <1>3, <1>5, <1>6

LEMMA RedirectStep == RedirectInv /\ [CommandNext]_vars => RedirectInv'
<1> SUFFICES ASSUME RedirectInv, [CommandNext]_vars PROVE RedirectInv'
  OBVIOUS
<1>0. SplitInv /\ SplitInv'
  BY SplitStep DEF RedirectInv
<1> DEFINE Quiet == stage' # "redirect"
<1>1. Quiet => RedirectInv'
  BY <1>0 DEF RedirectInv
<1>2. CASE SplitWord
  BY <1>1, <1>2 DEF SplitWord
<1>3. ASSUME NEW l \in CommandLines, EnterLine(l) PROVE RedirectInv'
  BY <1>1, <1>3 DEF EnterLine, StartSplit
<1>4. CASE execute_echo
  BY <1>1, <1>4 DEF execute_echo, StartSplit, Ready
<1>5. CASE RedirectEcho
  <2>1. /\ stage = "run" /\ ~original /\ Handler = "echo" /\ redirect_pos # 0
        /\ text' = EchoText /\ stage' = "redirect" /\ UNCHANGED split_vars
    BY <1>5 DEF RedirectEcho, Dispatches
  <2>2. Splitting
    BY <1>0, <2>1 DEF SplitInv
  <2>3. /\ redirect_pos' = redirect_pos /\ Handler' = Handler /\ EchoText' = EchoText
        /\ Splitting' /\ original' = original
    BY <2>1, <2>2, SameWords DEF split_vars
  <2> QED
    BY <1>0, <2>1, <2>3 DEF RedirectInv
<1>6. CASE RedirectCat
  <2>1. CASE redirect_pos = 2 /\ Len(args) = 3
    <3>1. /\ Handler = "cat" /\ text' = Word(2)
          /\ stage' = "redirect" /\ UNCHANGED split_vars
      BY <1>6, <2>1 DEF RedirectCat
    <3>2. Word(2) \in {To, Onto}
      BY <2>1, OperatorPlace
    <3>3. Handler' = Handler
      BY <3>1, SameWords
    <3> QED
      BY <1>0, <3>1, <3>2, <3>3 DEF RedirectInv
  <2>2. CASE ~(redirect_pos = 2 /\ Len(args) = 3)
    BY <1>1, <1>6, <2>2 DEF RedirectCat, Ready
  <2> QED
    BY <2>1, <2>2
<1>7. CASE Redirected
  BY <1>1, <1>7 DEF Redirected, WriteText, CopyName, Ends, Ready, terminal_printf
<1>8. CASE execute_cat
  BY <1>1, <1>8 DEF execute_cat, ShowFile, Ready, terminal_printf
<1>9. CASE execute_rm
  BY <1>1, <1>9 DEF execute_rm, ShowFile, Ends, Ready, terminal_printf
<1>10. CASE execute_mkfile
  BY <1>1, <1>10 DEF execute_mkfile, CopyName, Ready
<1>11. CASE CopyStep
  BY <1>1, <1>11 DEF CopyStep, Ready, terminal_printf
<1>12. CASE execute_clock
  BY <1>1, <1>12 DEF execute_clock, Prints
<1>13. CASE execute_kill
  BY <1>1, <1>13 DEF execute_kill, Prints, Ready
<1>14. CASE NumberStep
  BY <1>1, <1>14 DEF NumberStep, Ready, command_vars
<1>15. CASE execute_dhcpcd
  BY <1>1, <1>15 DEF execute_dhcpcd, Ready, terminal_printf, Prints
<1>16. CASE execute_ifconfig
  BY <1>1, <1>16 DEF execute_ifconfig, Ready, Prints
<1>17. CASE execute_ping
  BY <1>1, <1>17 DEF execute_ping, Ready, terminal_printf
<1>18. CASE RunNothing
  BY <1>1, <1>18 DEF RunNothing, Ready
<1>19. CASE PrintMessage
  BY <1>1, <1>19 DEF PrintMessage, Ends, Ready
<1>20. CASE UNCHANGED vars
  <2>1. UNCHANGED split_vars /\ text' = text /\ stage' = stage /\ original' = original
    BY <1>20 DEF vars, command_vars, split_vars
  <2> QED
    BY <1>0, <2>1, SameWords DEF RedirectInv
<1> QED
  BY <1>2, <1>3, <1>4, <1>5, <1>6, <1>7, <1>8, <1>9, <1>10, <1>11, <1>12, <1>13,
     <1>14, <1>15, <1>16, <1>17, <1>18, <1>19, <1>20 DEF CommandNext, Step

\* Whatever line was entered, the text that a redirected echo hands on fits its
\* buffer and has the words between the command and the operator, in their
\* order, in lower case and with one space between them, and a redirected cat
\* copies the file that its operator names: what execute_command puts together
\* with strcat is what the line says.
THEOREM RedirectsCorrect == CommandSpec => []RedirectsGiven
<1>1. CommandInit => RedirectInv
  BY DEF CommandInit, SplitInv, RedirectInv
<1>2. RedirectInv /\ [CommandNext]_vars => RedirectInv'
  BY RedirectStep
<1>3. RedirectInv => RedirectsGiven
  <2> SUFFICES ASSUME RedirectInv, stage = "redirect" PROVE RedirectsGiven
    BY DEF RedirectsGiven
  <2>1. CASE Handler = "cat" /\ text \in {To, Onto}
    BY <2>1 DEF RedirectsGiven
  <2>2. CASE /\ Handler = "echo" /\ Splitting /\ ~original
             /\ redirect_pos # 0 /\ text = EchoText
    BY <2>2, EchoGiven DEF RedirectsGiven
  <2> QED
    BY <2>1, <2>2 DEF RedirectInv
<1> QED
  BY <1>1, <1>2, <1>3, PTL DEF CommandSpec
=============================================================================
