------------------------------- MODULE VerCmp ------------------------------
(***************************************************************************)
(* vercmp (vercmp.cpp): the comparison of versions, by which releases are  *)
(* sorted and tests evaluated.  A version is a sequence of characters.     *)
(***************************************************************************)
EXTENDS Integers, Sequences, SequencesExt

CONSTANTS Digits, Letters   \* characters, both in ascending order

Digit == ToSet(Digits)
Alpha == ToSet(Letters)
Alnum == Digit \cup Alpha

\* Digits come before letters.
Rank(c) == CHOOSE r \in DOMAIN (Digits \o Letters) : (Digits \o Letters)[r] = c

\* The number of characters in front that are of a kind, and the version without them.
Span(s, kind) == LET others == {i \in DOMAIN s : s[i] \notin kind}
                 IN IF others = {} THEN Len(s) ELSE Min(others) - 1
Without(s, n) == SubSeq(s, n + 1, Len(s))

KeepZeros(s) == s   \* mutant of WithoutZeros
\* Leading zeros do not count; of zeros alone one is left.
WithoutZeros(s) ==
    LET zeros == Span(s, {"0"})
    IN IF zeros = Span(s, Digit) /\ zeros > 0 THEN Without(s, zeros - 1) ELSE Without(s, zeros)

Sign(n) == IF n > 0 THEN 1 ELSE IF n < 0 THEN -1 ELSE 0

\* strncmp of the first n characters, which are there.
StrNCmp(a, b, n) ==
    LET differing == {i \in 1 .. n : a[i] # b[i]}
        d == Min(differing)
    IN IF differing = {} THEN 0 ELSE Sign(Rank(a[d]) - Rank(b[d]))

\* Two runs of digits: the longer one is the greater number.
CompareNumbers(a, m, b, n) == IF m # n THEN Sign(m - n) ELSE StrNCmp(a, b, m)

\* Two runs of letters: as far as both go, then by length.
CompareWords(a, m, b, n) ==
    LET common == StrNCmp(a, b, IF m < n THEN m ELSE n)
    IN IF common # 0 THEN common ELSE Sign(m - n)

RECURSIVE VerCmp(_, _)
VerCmp(s1, s2) ==
    IF s1 = << >> \/ s2 = << >> THEN Sign(Len(s1) - Len(s2))
    ELSE LET t1 == Without(s1, Span(s1, ToSet(s1) \ Alnum))
             t2 == Without(s2, Span(s2, ToSet(s2) \ Alnum))
             numbers == \E t \in {t1, t2} : t # << >> /\ t[1] \in Digit
             a == IF numbers THEN WithoutZeros(t1) ELSE t1
             b == IF numbers THEN WithoutZeros(t2) ELSE t2
             m == IF numbers THEN Span(a, Digit) ELSE Span(a, Alpha)
             n == IF numbers THEN Span(b, Digit) ELSE Span(b, Alpha)
             r == IF numbers THEN CompareNumbers(a, m, b, n) ELSE CompareWords(a, m, b, n)
         IN IF r # 0 THEN r ELSE VerCmp(Without(a, m), Without(b, n))
=============================================================================
