------------------------------- MODULE Batch --------------------------------
(***************************************************************************)
(* CBatch: the list of texts behind a pattern such as x[1-9]y.  DoNewTask  *)
(* applies it to the address, to the name and to the selected file name of *)
(* the dialog, so its text need not be a pattern.                          *)
(*                                                                         *)
(* Positions count from 0 and are kept in an unsigned int: npos, the       *)
(* position of what is not there, is the greatest value of a size_t, and   *)
(* where size_t is wider the unsigned int holds another number (Far), that *)
(* is compared with npos in vain and becomes 0 when 1 is added.            *)
(***************************************************************************)
EXTENDS Integers, Sequences, SequencesExt, FiniteSetsExt, Functions

CONSTANTS
  Inputs,  \* texts, as records of head, left, right, tail and the marks between
  Builds   \* subset of BOOLEAN: is size_t wider than unsigned int?

BatchAssumption == Builds \subseteq BOOLEAN

VARIABLES
  wide,   \* the build
  input,  \* the last text, in parts
  m_List  \* what CBatch made of it

vars == <<wide, input, m_List>>

Far == 100  \* 2^32 - 1: beyond every position of a text

Digits == <<"0", "1", "2", "3", "4", "5", "6", "7", "8", "9">>
IsDigit(c) == c \in Range(Digits)
DigitOf(n) == Digits[n + 1]
Value(s) == FoldLeft(LAMBDA n, c : 10 * n + (CHOOSE i \in 0 .. 9 : DigitOf(i) = c), 0, s)

(* atoi: the digits up to the first other character. *)
Atoi(s) ==
  LET stops == {i \in DOMAIN s : ~IsDigit(s[i])}
  IN Value(IF stops = {} THEN s ELSE SubSeq(s, 1, Min(stops) - 1))

(* %d, %02d and %03d. *)
Decimal(n) ==
  IF n < 10 THEN <<DigitOf(n)>>
  ELSE IF n < 100 THEN <<DigitOf(n \div 10), DigitOf(n % 10)>>
  ELSE <<DigitOf(n \div 100), DigitOf((n \div 10) % 10), DigitOf(n % 10)>>
Padded(n, digit) == [i \in 1 .. digit - Len(Decimal(n)) |-> "0"] \o Decimal(n)

(* find_last_of, the sum of two unsigned numbers, and substr. *)
FindLast(s, c) ==
  LET found == {i \in DOMAIN s : s[i] = c} IN IF found = {} THEN Far ELSE Max(found) - 1
Plus(a, b) == (a + b) % (Far + 1)
Substr(s, from, len) ==
  SubSeq(s, from + 1, IF from + len > Len(s) THEN Len(s) ELSE from + len)

Trim(s) ==
  LET kept == {i \in DOMAIN s : s[i] # " "}
  IN IF kept = {} THEN << >> ELSE SubSeq(s, Min(kept), Max(kept))
-----------------------------------------------------------------------------
Missing(pos) == pos = Far /\ ~wide   \* the test for npos

OutsideMutant(left, mid, right) == left > mid
Outside(left, mid, right) == left > mid \/ right < mid

LessMutant(a, b) == a
Less(a, b) == IF a > b THEN b ELSE a

IsDigital(s) == TRUE

(* The texts for the numbers from the smaller to the greater one; with a   *)
(* leading zero and equal lengths the numbers are padded.                  *)
Numbers(left, right) ==
  LET a == Atoi(left)
      b == Atoi(right)
      less == Less(a, b)
      more == IF a > b THEN a ELSE b
      ext == (left[1] = "0" \/ right[1] = "0") /\ Len(left) = Len(right)
  IN [i \in 1 .. more - less + 1 |->
        IF ext THEN Padded(less + i - 1, Len(left)) ELSE Decimal(less + i - 1)]

CBatch(s) ==
  LET mid == FindLast(s, "-")
      right == FindLast(s, "]")
      left == FindLast(s, "[")
      leftstr == Substr(s, Plus(left, 1), Plus(mid, Far - left))
      rightstr == Substr(s, Plus(mid, 1), Plus(right, Far - mid))
      head == Substr(s, 0, left)
      tail == Substr(s, Plus(right, 1), Len(s))
  IN IF \/ Missing(mid) \/ Missing(right) \/ Missing(left)
        \/ Outside(left, mid, right)
        \/ Len(leftstr) > 3 \/ Len(rightstr) > 3
        \/ Trim(leftstr) = << >> \/ Trim(rightstr) = << >>
        \/ ~IsDigital(leftstr) \/ ~IsDigital(rightstr)
     THEN <<s>>
     ELSE LET numbers == Numbers(Trim(leftstr), Trim(rightstr))
          IN [i \in DOMAIN numbers |-> head \o numbers[i] \o tail]
-----------------------------------------------------------------------------
Join(x) == x.head \o x.open \o x.left \o x.dash \o x.right \o x.close \o x.tail

Init == wide \in Builds /\ input \in Inputs /\ m_List = << >>

Apply == m_List = << >> /\ m_List' = CBatch(Join(input)) /\ UNCHANGED <<wide, input>>

Next == Apply

Spec == Init /\ [][Next]_vars
-----------------------------------------------------------------------------
AllDigits(s) == s # << >> /\ \A i \in DOMAIN s : IsDigit(s[i])

(* A '-' between the last '[' and the last ']', with something short on    *)
(* both sides.                                                             *)
HasPattern(x) == x.open # << >> /\ x.dash # << >> /\ x.close # << >>
IsPattern(x) ==
  /\ HasPattern(x) /\ "-" \notin Range(x.tail)
  /\ Len(x.left) <= 3 /\ Len(x.right) <= 3

(* The numbers between the two of a pattern in ascending order, whichever  *)
(* is the first: of the same length as these if both have one length, else *)
(* without leading zeros (the table at the head of CBatch).                *)
PatternExpanded ==
  LET x == input
      l == Trim(x.left)
      r == Trim(x.right)
      low == Min({Value(l), Value(r)})
      number(t) == SubSeq(t, Len(x.head) + 1, Len(t) - Len(x.tail))
  IN (m_List # << >> /\ IsPattern(x) /\ AllDigits(l) /\ AllDigits(r)) =>
       /\ Len(m_List) = Value(l) + Value(r) - 2 * low + 1
       /\ \A i \in DOMAIN m_List :
            LET n == number(m_List[i])
            IN /\ m_List[i] = x.head \o n \o x.tail
               /\ AllDigits(n) /\ Value(n) = low + i - 1
               /\ IF Len(l) = Len(r) THEN Len(n) = Len(l) ELSE Len(n) = 1 \/ n[1] # "0"

(* What is no pattern is kept as it is, where size_t is no wider.          *)
PlainKept ==
  (m_List # << >> /\ ~wide /\ ~IsPattern(input)) => m_List = <<Join(input)>>

(* batch.cpp 40: "find if there have '-' and it's in []".                  *)
PlainKeptWide ==
  (m_List # << >> /\ wide /\ ~IsPattern(input)) => m_List = <<Join(input)>>

(* batch.cpp 110: "confirm all char is digit, else return".                *)
OnlyDigits ==
  (m_List # << >> /\ ~(AllDigits(Trim(input.left)) /\ AllDigits(Trim(input.right))))
     => m_List = <<Join(input)>>
=============================================================================
