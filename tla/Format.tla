------------------------------- MODULE Format -------------------------------
(***************************************************************************)
(* int_to_str, a digit and an exchange of two characters at a time, and    *)
(* the numbers the kernel prints with it: those of the clock, of the       *)
(* terminals and processes, and addresses, whose four numbers ip_to_str    *)
(* puts into one buffer.  Every buffer is on the stack and has the size    *)
(* its caller gave it; nothing checks that a number fits.                  *)
(*                                                                         *)
(* Characters are counted from '0', as the code does.                      *)
(***************************************************************************)
EXTENDS Integers, Sequences

CONSTANTS
  INT_MAX,     \* the largest int                                  (2^31 - 1)
  ClockBytes   \* what the registers of the clock hold

ASSUME FormatAssumption ==
  /\ INT_MAX \in Nat /\ INT_MAX > 2099 /\ INT_MAX <= 2147483647
  /\ ClockBytes \subseteq 0..255

VARIABLES
  asked,     \* the numbers that go into the buffer
  size,      \* its size
  k,         \* which of them is being converted
  num, negative,
  str,       \* what is in the buffer
  from,      \* where the number begins in it
  start,     \* as in the code, counted from `from'
  phase,     \* "idle", "digits", "reverse", "ready" or "overrun"
  pending    \* the calls still to be made: a size, and the possible numbers

number_vars == <<asked, size, k, num, negative, str, from, start, phase>>
format_vars == <<number_vars, pending>>

INT_MIN == -INT_MAX - 1
Minus   == -3         \* '-' - '0'
Dot     == -2         \* '.' - '0'

FormatInit ==
  /\ asked = << >> /\ size = 0 /\ k = 0 /\ num = 0 /\ negative = FALSE
  /\ str = << >> /\ from = 0 /\ start = 0 /\ phase = "idle" /\ pending = << >>

-----------------------------------------------------------------------------
(* Numbers                                                                 *)

bcd_to_bin_Binary(bcd) == bcd

bcd_to_bin(bcd) == (bcd % 16) + (bcd \div 16) * 10

Negated(x) == IF x = INT_MIN THEN INT_MIN ELSE -x

\* Quotients and remainders of a negative number are negative.
Quotient(x)  == IF x < 0 THEN -((-x) \div 10) ELSE x \div 10
Remainder(x) == x - 10 * Quotient(x)

\* A call of int_to_str for x, at the end of the buffer b.
int_to_str(x, b) ==
  /\ num' = IF x < 0 THEN Negated(x) ELSE x
  /\ negative' = (x < 0)
  /\ from' = Len(b) + 1
  /\ str' = IF x = 0 THEN Append(b, 0) ELSE b
  /\ start' = 0
  /\ phase' = IF Len(str') > size' THEN "overrun" ELSE "digits"

BeginNumbers ==
  /\ phase = "idle" /\ pending # << >>
  /\ asked' \in Head(pending).of /\ size' = Head(pending).size
  /\ k' = 1
  /\ int_to_str(asked'[1], << >>)
  /\ pending' = Tail(pending)

Overrun == phase' = "overrun" /\ UNCHANGED str

Digit ==
  /\ phase = "digits" /\ num # 0
  /\ IF Len(str) < size
     THEN str' = Append(str, Remainder(num)) /\ UNCHANGED phase
     ELSE Overrun
  /\ num' = Quotient(num)
  /\ UNCHANGED <<asked, size, k, negative, from, start, pending>>

\* The sign and the zero at the end.
Terminate ==
  /\ phase = "digits" /\ num = 0
  /\ LET signed == IF negative THEN Append(str, Minus) ELSE str
     IN  IF Len(signed) < size THEN str' = signed /\ phase' = "reverse" ELSE Overrun
  /\ UNCHANGED <<asked, size, k, num, negative, from, start, pending>>

LastPair_Middle(i, j) == i + 1 >= j

LastPair(i, j) == i >= j

\* One pass of the loop that reverses the digits.
Reverse ==
  /\ phase = "reverse"
  /\ LET i == from + start
         j == Len(str) - start
     IN  IF LastPair(i, j) THEN phase' = "ready" /\ UNCHANGED <<str, start>>
         ELSE /\ str' = [str EXCEPT ![i] = str[j], ![j] = str[i]]
              /\ start' = start + 1
              /\ UNCHANGED phase
  /\ UNCHANGED <<asked, size, k, num, negative, from, pending>>

\* ip_to_str goes on behind what is there, a dot in place of its zero.
NextNumber ==
  /\ phase = "ready" /\ k < Len(asked)
  /\ k' = k + 1
  /\ UNCHANGED <<asked, size, pending>>
  /\ int_to_str(asked[k + 1], Append(str, Dot))

\* The caller writes the string on the screen.
WriteString ==
  /\ phase = "ready" /\ k = Len(asked)
  /\ asked' = << >> /\ size' = 0 /\ k' = 0 /\ num' = 0 /\ negative' = FALSE
  /\ str' = << >> /\ from' = 0 /\ start' = 0 /\ phase' = "idle"
  /\ UNCHANGED pending

FormatStep ==
  BeginNumbers \/ Digit \/ Terminate \/ Reverse \/ NextNumber \/ WriteString

-----------------------------------------------------------------------------
(* What the callers ask for                                                *)

Number(of, room) == [of |-> {<< x >> : x \in of}, size |-> room]
Address(a)       == [of |-> {a}, size |-> 16]

ClockField == Number({bcd_to_bin(b) : b \in ClockBytes}, 3)
Year       == Number({2000 + bcd_to_bin(b) : b \in ClockBytes}, 5)

execute_time == << ClockField, ClockField, ClockField >>
execute_date == execute_time \o << ClockField, ClockField, Year >>

\* dhcp_discover's answer, which never differs: the address, the gateway and
\* the netmask.
net_dev == << <<192, 168, 0, 100>>, <<192, 168, 0, 1>>, <<255, 255, 255, 0>> >>

-----------------------------------------------------------------------------
(* Properties                                                              *)

\* The decimal digits of n, the first one first.
Decimal[n \in Nat] ==
  IF n < 10 THEN << n >> ELSE Append(Decimal[n \div 10], n % 10)

Spelled(x) == IF x < 0 THEN << Minus >> \o Decimal[-x] ELSE Decimal[x]

\* The first i of the numbers asked for, with dots between them.
Listed[i \in 0..Len(asked)] ==
  IF i = 0 THEN << >>
  ELSE IF i = 1 THEN Spelled(asked[1])
  ELSE Append(Listed[i - 1], Dot) \o Spelled(asked[i])

\* What is written is the number, or the address, in decimals: the digits come
\* out in their order, signs and zeroes included, whatever is in front of them
\* in the buffer.  Only INT_MIN, which has no opposite, is excepted.
NumbersPrinted ==
  phase = "ready" => asked = << INT_MIN >> \/ str = Listed[k]

\* No number is too long for the buffer its caller has for it, the zero at its
\* end included, while the clock counts in decimals.  With the bit that marks
\* the afternoon an hour has two digits still.
NumbersFit == phase # "overrun"
=============================================================================
