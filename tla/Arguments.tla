------------------------------ MODULE Arguments ------------------------------
(* What the SDK checks of the arguments of a call before it sends anything   *)
(* (utils/validator.py, utils/converter.py).  The strings of a program are    *)
(* abstracted to what those checks tell apart: None, the empty string and     *)
(* other values; a number is its form and its value; a date its layout and    *)
(* its day.  An operation denotes the set of requests it sends: none when a   *)
(* check raises ValidationError.                                              *)
EXTENDS Integers, Sequences, FiniteSets

None == "None"
\* Texts that stand for a whole class: too long a key, a list of names.
TooLong  == "too long"
Wildcard == "*"

\* Numbers: an int, a float with a fraction, a Decimal, a text of digits, a
\* word such as ATO, None.
Number(form, value) == [form |-> form, value |-> value]
NoNumber == Number("none", 0)
Whole(n)   == Number("int", n)
Forms    == {"none", "int", "fraction", "decimal", "text", "word"}

Given(number) == number.form # "none"

\* Dates: "day" is YYYY/MM/DD, "unpadded" a day whose month or day of the month
\* has one digit, "stamp" adds HH:MM:SS, "bad" is anything else.
Date(layout, day) == [layout |-> layout, day |-> day]
NoDate == Date("none", 0)

\* The requests of a call, unless one of its checks refuses the arguments.
Checked(ok, requests) == IF ok THEN requests ELSE {}

NonEmpty(text)        == text \notin {None, ""}
Truthy(text)          == NonEmpty(text)
Positive(number)      == number.value > 0
NonNegative(number)   == number.value >= 0
ExactlyOne(one, other) == Truthy(one) # Truthy(other)
IsSymbol(text)        == NonEmpty(text) /\ text \notin {Wildcard, TooLong}

\* to_price_decimal: every finite number, and a text of digits, is a price.
IsPrice(number) == number.form \notin {"none", "word"}

\* parse_date_arg accepts the layouts an endpoint takes; strptime does not ask for
\* two digits.
DayOnly   == {"day", "unpadded"}
TimeOnly  == {"stamp"}
DayOrTime == DayOnly \union TimeOnly
IsDate(date, layouts) == date.layout \in layouts

Unlimited == 1000000
DateRange(from, to, layouts, maxDays) ==
  /\ IsDate(from, layouts)
  /\ IsDate(to, layouts)
  /\ from.day <= to.day
  /\ to.day - from.day <= maxDays
=============================================================================
