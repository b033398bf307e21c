----------------------------- MODULE MaskedDate -----------------------------
(***************************************************************************)
(* The date field, as wwwroot/js/date-mask.js formats it: a sequence of     *)
(* digits and hyphens, in the format of the language of the page,           *)
(* dd-mm-yyyy for Faroese and Danish ("fo") and yyyy-mm-dd otherwise        *)
(* ("en").  DateMask has the keystrokes in it, SearchForm what happens to   *)
(* the date beyond them.                                                    *)
(***************************************************************************)
EXTENDS Integers, Sequences

VARIABLES
    lang,  \* culture of the page: "fo" (and Danish) or "en"
    text   \* the date field, a sequence of digits and hyphens

Hyphen == 10

Least(a, b) == IF a <= b THEN a ELSE b

\* s.slice(a, b) of JavaScript
Slice(s, a, b) == SubSeq(s, a + 1, Least(b, Len(s)))

\* The digits of each prefix of s.
PrefixDigits(s) ==
    LET F[n \in 0..Len(s)] ==
            IF n = 0 THEN <<>>
            ELSE IF s[n] = Hyphen THEN F[n - 1] ELSE Append(F[n - 1], s[n])
    IN  F

DigitsOnly(s) == PrefixDigits(s)[Len(s)]

Count(s) == Len(DigitsOnly(s))

\* The digits before which getFormatFor() has its hyphens.
Cuts(l) == IF l = "en" THEN <<4, 6>> ELSE <<2, 4>>

Part(s) == IF s = <<>> THEN <<>> ELSE <<Hyphen>> \o s

formatFromDigits(d, l) ==
    LET c == Cuts(l)
    IN  Slice(d, 0, c[1]) \o Part(Slice(d, c[1], c[2])) \o Part(Slice(d, c[2], 8))

clampDigits(d) == Slice(d, 0, 8)

\* onBlur(), and what onInput() does to the value.
Masked(s, l) == formatFromDigits(clampDigits(DigitsOnly(s)), l)

=============================================================================
