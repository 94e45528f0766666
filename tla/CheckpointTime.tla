---------------------------- MODULE CheckpointTime ----------------------------
(***************************************************************************)
(* The text of a checkpoint's time (checkpoint.rs): rendered from an       *)
(* instant, parsed back when a checkpoint is verified, and stored in a     *)
(* column that the store compares as text.  The bytes a log signs hold the *)
(* instant, so the text is bound to a signature only through the parser.   *)
(*                                                                         *)
(* The calendar is a smaller one: fields of fixed width, months of their   *)
(* own lengths, and parts of a day.  Its conversions are the time crate's. *)
(***************************************************************************)
EXTENDS Texts

CONSTANTS
  Epoch,       \* the year in which instant 0 begins
  FirstYear,   \* the calendar's years
  LastYear,
  DaysIn,      \* the length of each month
  PartsOfDay,
  MaxInstant,  \* u64::MAX nanoseconds
  Characters,  \* what a text may hold
  MaxTypos

ASSUME CalendarAssumption ==
  /\ Epoch \in Int
  /\ FirstYear \in Nat /\ LastYear \in Nat /\ LastYear <= 9999
  /\ DaysIn \in Seq(Nat) /\ DaysIn # <<>> /\ Len(DaysIn) <= 99
  /\ PartsOfDay \in Nat /\ PartsOfDay > 0 /\ PartsOfDay <= 10

Months == DOMAIN DaysIn
Dates ==
  {d \in [year : FirstYear..LastYear, month : Months, day : 1..99, part : 0..(PartsOfDay - 1)] :
     d.day <= DaysIn[d.month]}

-----------------------------------------------------------------------------
(* The calendar *)

DaysBefore(month) ==
  LET days[m \in 1..Len(DaysIn)] == IF m = 1 THEN 0 ELSE days[m - 1] + DaysIn[m - 1]
  IN days[month]

DaysInYear == DaysBefore(Len(DaysIn)) + DaysIn[Len(DaysIn)]

\* unix_timestamp_nanos: negative before the epoch.
InstantOf(d) ==
  PartsOfDay * ((d.year - Epoch) * DaysInYear + DaysBefore(d.month) + d.day - 1) + d.part

-----------------------------------------------------------------------------
(* Texts *)

TwoDigits(n) == <<Digit(n \div 10), Digit(n)>>

\* Fault: the last digit of the fraction is dropped.
FaultCoarse(d) == <<"0">>

Subsecond(d) == <<Digit(d.part)>>

\* The format description; years have four digits, a part of a day has one.
Render(d) ==
  TwoDigits(d.year \div 100) \o TwoDigits(d.year % 100) \o <<"-">> \o TwoDigits(d.month)
    \o <<"-">> \o TwoDigits(d.day) \o <<"T">> \o Subsecond(d) \o <<"Z">>

\* CHECKPOINT_TIME_MASK.
Mask == <<"0", "0", "0", "0", "-", "0", "0", "-", "0", "0", "T", "0", "Z">>

HasProfileLayout(t) ==
  /\ Len(t) = Len(Mask)
  /\ \A i \in DOMAIN Mask : IF Mask[i] = "0" THEN t[i] \in ToSet(Digits) ELSE t[i] = Mask[i]

\* PrimitiveDateTime::parse on a text of that layout: no date is out of range.
ParseDateTime(t) ==
  LET number(i, j) == 10 * ValueOf(t[i]) + ValueOf(t[j])
  IN {d \in Dates : /\ d.year = 100 * number(1, 2) + number(3, 4)
                    /\ d.month = number(6, 7)
                    /\ d.day = number(9, 10)
                    /\ d.part = ValueOf(t[12])}

\* u64::try_from.
InRange(d) == InstantOf(d) \in 0..MaxInstant

\* render_checkpoint_time.
RenderInstant(n) == {Render(d) : d \in {e \in Dates : InstantOf(e) = n}}

\* parse_checkpoint_time: the instant, {} for BadCheckpointTime.
ParseTime(t) ==
  IF HasProfileLayout(t)
  THEN {n \in {InstantOf(d) : d \in {e \in ParseDateTime(t) : InRange(e)}} :
          t \in RenderInstant(n)}
  ELSE {}

-----------------------------------------------------------------------------
(* Texts a submission may carry: renderings, and what a slip makes of them *)

VARIABLES stamp,  \* the text
          typos   \* slips so far

timeVars == <<stamp, typos>>

TimeInit == stamp \in {Render(d) : d \in Dates} /\ typos = 0

Typo == typos < MaxTypos /\ typos' = typos + 1

Mistype == Typo /\ \E i \in DOMAIN stamp, c \in Characters : stamp' = [stamp EXCEPT ![i] = c]
Shorten == Typo /\ stamp # <<>> /\ stamp' = Front(stamp)
Lengthen == Typo /\ \E c \in Characters : stamp' = Append(stamp, c)

TimeNext == Mistype \/ Shorten \/ Lengthen

TimeSpec == TimeInit /\ [][TimeNext]_timeVars

-----------------------------------------------------------------------------
(* Properties *)

\* A text that is accepted and an instant stand for each other: no two texts are
\* accepted for one instant, so a signature over the instant covers the text, and
\* the order in which the store sorts texts is the order of their instants.
TimeTextExact ==
  \A n \in ParseTime(stamp) :
    \A d \in Dates : InRange(d) =>
      /\ InstantOf(d) = n <=> Render(d) = stamp
      /\ InstantOf(d) < n <=> TextBefore(Render(d), stamp)

=============================================================================
