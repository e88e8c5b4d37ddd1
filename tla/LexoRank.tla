------------------------------ MODULE LexoRank ------------------------------
(***************************************************************************)
(* Rank strings (src/apps/web/src/lib/lexorank.ts, which mirrors           *)
(* src/services/api/app/shared/lexorank.py) and a column of the board      *)
(* whose stories get their ranks from them.  A rank is the sequence of its *)
(* letters' indexes; Base letters stand for the alphabet.                  *)
(***************************************************************************)
EXTENDS Integers, Sequences

CONSTANTS
    Base,      \* letters of the alphabet
    MaxMoves   \* bound: drops onto one column

ASSUME LexoAssumption == Base \in Nat /\ Base > 3 /\ MaxMoves \in Nat

VARIABLES
    column,    \* the column's ranks in the order the user put the stories
    moves

rankVars == <<column, moves>>

MidIdx == Base \div 2

LongerLen(a, b) == IF Len(a) > Len(b) THEN Len(a) ELSE Len(b)
PadEnd(s, n) == [i \in 1..n |-> IF i <= Len(s) THEN s[i] ELSE 0]

\* JavaScript's string order: at the first difference, or the prefix first.
RankLess(a, b) ==
    \E n \in 1..Len(b) :
        /\ \A j \in 1..(n - 1) : j <= Len(a) /\ a[j] = b[j]
        /\ n > Len(a) \/ a[n] < b[n]

\* The digits as one number and back: midpointDigits adds with a carry and divides
\* by two digit by digit.
ValueOf(digits) ==
    LET v[n \in 0..Len(digits)] == IF n = 0 THEN 0 ELSE v[n - 1] * Base + digits[n]
    IN  v[Len(digits)]
DigitsOf(value, len) ==
    LET rest[n \in 0..len] == IF n = 0 THEN value ELSE rest[n - 1] \div Base
    IN  [i \in 1..len |-> rest[len - i] % Base]

\* Mutant: the digits are halved without a carry.
HalvedDigits(a, b) == [i \in 1..Len(a) |-> (a[i] + b[i]) \div 2]

MidpointDigits(a, b) == DigitsOf((ValueOf(a) + ValueOf(b)) \div 2, Len(a))

StripTrailingMin(s) ==
    IF \A i \in 1..Len(s) : s[i] = 0 THEN <<>>
    ELSE SubSeq(s, 1, CHOOSE n \in 1..Len(s) : s[n] # 0 /\ \A m \in (n + 1)..Len(s) : s[m] = 0)

RankBetween(before, after) ==
    LET len == LongerLen(before, after)
        a == PadEnd(before, len)
        mid == MidpointDigits(a, PadEnd(after, len))
        result == StripTrailingMin(mid)
    IN  IF mid = a THEN Append(before, MidIdx)
        ELSE IF result = <<>> THEN <<0>> ELSE result

RankBefore(existing) ==
    IF existing = <<0>> \/ RankLess(existing, <<0>>) THEN <<0, MidIdx>>
    ELSE RankBetween(<<0>>, existing)

RankAfter(existing) == Append(existing, MidIdx)

\* computeReorderRank: between the neighbours, after the upper one when their ranks are
\* equal or inverted, before the first, after the last, the midpoint when alone.
ComputeReorderRank(upper, lower) ==
    CASE upper # <<>> /\ lower # <<>> ->
            IF RankLess(upper, lower) THEN RankBetween(upper, lower) ELSE RankAfter(upper)
      [] upper # <<>> /\ lower = <<>> -> RankAfter(upper)
      [] upper = <<>> /\ lower # <<>> -> RankBefore(lower)
      [] OTHER                        -> <<MidIdx>>

-----------------------------------------------------------------------------
(* Drops onto the column, by slot: slot n is below the n-th card *)

RankInit == column = <<>> /\ moves = 0

Neighbour(n) == IF n \in 1..Len(column) THEN column[n] ELSE <<>>

DropAt(slot) ==
    /\ moves < MaxMoves
    /\ moves' = moves + 1
    /\ column' = SubSeq(column, 1, slot)
                   \o <<ComputeReorderRank(Neighbour(slot), Neighbour(slot + 1))>>
                   \o SubSeq(column, slot + 1, Len(column))

RankNext == \E slot \in 0..Len(column) : DropAt(slot)
RankSpec == RankInit /\ [][RankNext]_rankVars

-----------------------------------------------------------------------------
(* Properties *)

\* Types: a rank is a non-empty sequence of letters.
RanksWellFormed ==
    \A i \in 1..Len(column) :
        column[i] # <<>> /\ \A j \in 1..Len(column[i]) : column[i][j] \in 0..(Base - 1)

\* Between two ranks of a column that leave a number between them, at the length of the
\* longer one, a drop gets a rank strictly between them; and in any case one above the
\* upper neighbour.
RoomMeansBetween ==
    \A i, j \in 1..Len(column) :
        LET a == column[i]
            b == column[j]
            n == LongerLen(a, b)
            new == ComputeReorderRank(a, b)
        IN  RankLess(a, b) =>
              /\ RankLess(a, new)
              /\ ValueOf(PadEnd(b, n)) - ValueOf(PadEnd(a, n)) > 1 => RankLess(new, b)

\* The ranks sort the stories as the user dropped them: each drop gives a rank
\* between the neighbours ("Return a rank lexicographically between *before* and
\* *after*", lexorank.py:28).
DroppedWhereAsked == \A i \in 1..(Len(column) - 1) : RankLess(column[i], column[i + 1])
=============================================================================
