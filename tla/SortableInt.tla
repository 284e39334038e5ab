----------------------------- MODULE SortableInt -----------------------------
(***************************************************************************)
(* The numbers that the database keeps as strings and compares as strings: *)
(* heights, balances, supplies.  A string is the sequence of its           *)
(* characters, each by its place in the collation, where the minus sign is *)
(* before the digits.                                                      *)
(***************************************************************************)
EXTENDS Integers, Sequences, FiniteSetsExt

CONSTANTS
  Base,   \* of the numerals: 10 in the code
  Digits  \* to which they are padded: 80 in the code

ASSUME BaseAssumption == Base \in Nat \ {0, 1}
ASSUME DigitsAssumption == Digits \in Nat \ {0}

Minus == 0
Character(digit) == digit + 1

\* n without its last i digits
Rest(n) ==
  LET rest[i \in Nat] == IF i = 0 THEN n ELSE rest[i - 1] \div Base
  IN  rest

\* How many digits n has
Length(n) == Min({k \in 1..(n + 1) : Rest(n)[k] = 0})

Numeral(n, length) == [i \in 1..length |-> Character(Rest(n)[length - i] % Base)]

\* Mutant: padEnd for padStart
PaddedAtEnd(n) ==
  Numeral(n, Length(n)) \o [i \in 1..(Digits - Length(n)) |-> Character(0)]

\* padStart: what is longer stays as it is.
Padded(n) == Numeral(n, Max({Length(n), Digits}))

FormatSortableInt(n) == IF n < 0 THEN <<Minus>> \o Padded(-n) ELSE Padded(n)

Value(numeral) ==
  LET upTo[i \in 0..Len(numeral)] ==
        IF i = 0 THEN 0 ELSE upTo[i - 1] * Base + (numeral[i] - Character(0))
  IN  upTo[Len(numeral)]

ParseSortableInt(s) == IF s[1] = Minus THEN -Value(Tail(s)) ELSE Value(s)

\* s < t in SQL
Below(s, t) ==
  \/ Len(s) < Len(t) /\ s = SubSeq(t, 1, Len(s))
  \/ \E i \in 1..Min({Len(s), Len(t)}) :
       s[i] < t[i] /\ \A j \in 1..(i - 1) : s[j] = t[j]

=============================================================================
