------------------------------- MODULE Duration -------------------------------
(***************************************************************************)
(* The duration parser (duration.rs) that reads the cadence and the grace  *)
(* period of every manifest, and a writer of duration texts: one component *)
(* after the other in any order, and a few slips.                          *)
(*                                                                         *)
(* A text is a sequence of characters.  A number that may be missing, for  *)
(* want of a well-formed text or of room in a u64, is a set of at most one *)
(* number: what `?` passes on in the code is the empty set here.           *)
(***************************************************************************)
EXTENDS Texts

CONSTANTS
  MaxU64,            \* u64::MAX
  FractionDigits,    \* digits of a fraction of a second: 9 in the code
  SecondsPerMinute, SecondsPerHour, SecondsPerDay,
  Numerals,          \* the whole numbers that may stand in a text
  Fractions,         \* the fractions that may stand in a text, as written
  Components,        \* components a writer writes, each at most once
  Slips,             \* what a writer may add beside them
  MaxSlips

ASSUME DurationAssumption ==
  /\ MaxU64 \in Nat /\ FractionDigits \in Nat
  /\ {SecondsPerMinute, SecondsPerHour, SecondsPerDay} \subseteq Nat \ {0}
  /\ \A n \in Numerals \cup Fractions : n \in Seq(STRING) /\ AllDigits(n)
  /\ \A f \in Fractions : Len(f) <= FractionDigits
  /\ \A c \in Components \cup Slips : c \in Seq(STRING)

NanosPerSecond == TenTo(FractionDigits)

-----------------------------------------------------------------------------
(* Numbers *)

Fits(A) == {n \in A : n <= MaxU64}

\* Fault: the product wraps.
FaultWraps(A, k) == {(a * k) % (MaxU64 + 1) : a \in A}

CheckedMul(A, k) == Fits({a * k : a \in A})
CheckedAdd(A, B) == Fits({a + b : a \in A, b \in B})

ParseDigits(s) == IF AllDigits(s) THEN Fits({NumberOf(s)}) ELSE {}

\* u64::from_str, which takes a plus sign.
ParseU64(s) == IF Len(s) > 1 /\ s[1] = "+" THEN ParseDigits(Tail(s)) ELSE ParseDigits(s)

-----------------------------------------------------------------------------
(* The parser *)

DatePart(rest) == IF Holds(rest, "T") THEN Before(rest, "T") ELSE rest

\* A year anywhere or a calendar month: ProhibitedDurationComponent.
Prohibited(t) ==
  /\ Len(t) > 1 /\ t[1] = "P"
  /\ Holds(t, "Y") \/ Holds(DatePart(Tail(t)), "M")

\* take_component: the seconds it stands for and what is left; an absent
\* component counts for nothing.
TakeComponent(s, unit, seconds) ==
  IF Holds(s, unit)
  THEN [seconds |-> CheckedMul(ParseDigits(Before(s, unit)), seconds), left |-> After(s, unit)]
  ELSE [seconds |-> {0}, left |-> s]

\* The fraction, in nanoseconds: filled up with zeros and read as a number.
Padded(f) == f \o [i \in 1..(FractionDigits - Len(f)) |-> "0"]
Fraction(f) ==
  IF AllDigits(f) /\ Len(f) <= FractionDigits THEN ParseDigits(Padded(f)) ELSE {}

\* What is left once hours and minutes are taken: nothing, or seconds.
TakeSeconds(s) ==
  IF s = <<>> THEN [seconds |-> {0}, nanos |-> {0}]
  ELSE IF s[Len(s)] # "S" THEN [seconds |-> {}, nanos |-> {}]
  ELSE IF Holds(Front(s), ".")
  THEN [seconds |-> ParseU64(Before(Front(s), ".")), nanos |-> Fraction(After(Front(s), "."))]
  ELSE [seconds |-> ParseU64(Front(s)), nanos |-> {0}]

DateSeconds(date) ==
  LET days == TakeComponent(date, "D", SecondsPerDay)
  IN IF days.left = <<>> THEN days.seconds ELSE {}

TimeNanos(date, time) ==
  LET hours == TakeComponent(time, "H", SecondsPerHour)
      minutes == TakeComponent(hours.left, "M", SecondsPerMinute)
      rest == TakeSeconds(minutes.left)
      seconds == CheckedAdd(CheckedAdd(CheckedAdd(DateSeconds(date), hours.seconds),
                                       minutes.seconds), rest.seconds)
  IN CheckedAdd(CheckedMul(seconds, NanosPerSecond), rest.nanos)

\* parse_iso8601_duration_nanos: the nanoseconds, {} for an error.
Parse(t) ==
  IF Len(t) < 2 \/ t[1] # "P" \/ Prohibited(t) THEN {}
  ELSE LET rest == Tail(t)
       IN IF ~Holds(rest, "T") THEN CheckedMul(DateSeconds(rest), NanosPerSecond)
          ELSE IF After(rest, "T") = <<>> THEN {}
          ELSE TimeNanos(Before(rest, "T"), After(rest, "T"))

-----------------------------------------------------------------------------
(* A writer *)

VARIABLES text,     \* the text so far
          written   \* the components it was meant to have, and the slips

durationVars == <<text, written>>

DurationInit == text = <<"P">> /\ written = [components |-> {}, slips |-> 0]

UnitOf(component) == component[Len(component)]

Write(c) ==
  /\ \A d \in written.components : UnitOf(d) # UnitOf(c)
  /\ text' = text \o c
  /\ written' = [written EXCEPT !.components = @ \cup {c}]

Slip(s) ==
  /\ written.slips < MaxSlips
  /\ text' = text \o s
  /\ written' = [written EXCEPT !.slips = @ + 1]

DurationNext == (\E c \in Components : Write(c)) \/ (\E s \in Slips : Slip(s))

DurationSpec == DurationInit /\ [][DurationNext]_durationVars

-----------------------------------------------------------------------------
(* What a duration means *)

\* The texts of the grammar P[n]DT[n]H[n]M[n]S and the nanoseconds they mean:
\* <<>> for a component left out, no T without a component after it.
Fields ==
  {f \in [days : Numerals \cup {<<>>}, hours : Numerals \cup {<<>>},
          minutes : Numerals \cup {<<>>}, seconds : Numerals \cup {<<>>},
          fraction : Fractions \cup {<<>>}] :
     /\ \E member \in {"days", "hours", "minutes", "seconds"} : f[member] # <<>>
     /\ f.fraction # <<>> => f.seconds # <<>>}

Component(numeral, unit) == IF numeral = <<>> THEN <<>> ELSE Append(numeral, unit)

Rendered(f) ==
  LET point == IF f.fraction = <<>> THEN <<>> ELSE <<".">>
      time == Component(f.hours, "H") \o Component(f.minutes, "M")
                \o Component(f.seconds \o point \o f.fraction, "S")
  IN <<"P">> \o Component(f.days, "D") \o (IF time = <<>> THEN <<>> ELSE <<"T">> \o time)

Meant(f) ==
  (NumberOf(f.days) * SecondsPerDay + NumberOf(f.hours) * SecondsPerHour
     + NumberOf(f.minutes) * SecondsPerMinute + NumberOf(f.seconds)) * NanosPerSecond
  + NumberOf(f.fraction) * TenTo(FractionDigits - Len(f.fraction))

Meaning == [t \in {Rendered(f) : f \in Fields} |-> Meant(CHOOSE f \in Fields : Rendered(f) = t)]

WellFormed(t) == t \in DOMAIN Meaning

\* A text less its first sign.
Unsigned(t) == IF Holds(t, "+") THEN Before(t, "+") \o After(t, "+") ELSE t

\* A duration is parsed to exactly what it means, or refused because u64
\* nanoseconds cannot hold it: nothing wraps, saturates or is truncated, in
\* whatever order its parts are multiplied and added.  And nothing else is taken
\* for a duration, unless by a sign before its seconds.
DurationExact ==
  /\ WellFormed(text) => Parse(text) = Fits({Meaning[text]})
  /\ Parse(text) # {} => WellFormed(Unsigned(text)) /\ Parse(text) = {Meaning[Unsigned(text)]}

\* parse_iso8601_duration_nanos: "Returns BadDuration if `value` is otherwise not a
\* well-formed duration of the `P[n]DT[n]H[n]M[n]S` grammar".
OnlyWellFormed == Parse(text) # {} => WellFormed(text)

=============================================================================
