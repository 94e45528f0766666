-------------------------------- MODULE Texts --------------------------------
(***************************************************************************)
(* Decimal texts, as the parsers of duration.rs and checkpoint.rs read     *)
(* them: a text is a sequence of characters.                               *)
(***************************************************************************)
EXTENDS Integers, Sequences, SequencesExt

Digits == <<"0", "1", "2", "3", "4", "5", "6", "7", "8", "9">>

Digit(n) == Digits[(n % 10) + 1]
ValueOf(c) == (CHOOSE i \in 1..10 : Digits[i] = c) - 1

AllDigits(s) == s # <<>> /\ \A i \in DOMAIN s : s[i] \in ToSet(Digits)

\* 0 for the text without digits.
NumberOf(s) ==
  LET value[n \in 0..Len(s)] == IF n = 0 THEN 0 ELSE 10 * value[n - 1] + ValueOf(s[n])
  IN value[Len(s)]

TenTo(n) ==
  LET power[m \in 0..n] == IF m = 0 THEN 1 ELSE 10 * power[m - 1]
  IN power[n]

Holds(s, c) == c \in ToSet(s)

\* split_once, for a character the text holds.
Before(s, c) == SubSeq(s, 1, SelectInSeq(s, LAMBDA x : x = c) - 1)
After(s, c) == SubSeq(s, SelectInSeq(s, LAMBDA x : x = c) + 1, Len(s))

\* Texts of digits and fixed separators in the order of a TEXT column: the first
\* difference decides.
TextBefore(s, t) ==
  \E i \in DOMAIN s \cap DOMAIN t :
    /\ \A j \in 1..(i - 1) : s[j] = t[j]
    /\ SelectInSeq(Digits, LAMBDA c : c = s[i]) < SelectInSeq(Digits, LAMBDA c : c = t[i])

=============================================================================
