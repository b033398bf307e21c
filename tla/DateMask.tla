------------------------------ MODULE DateMask ------------------------------
(***************************************************************************)
(* Keystrokes in the date field: the handlers of wwwroot/js/date-mask.js    *)
(* and what the browser does before it calls them.  Each action is a key,   *)
(* with its keydown and input events.                                       *)
(***************************************************************************)
EXTENDS MaskedDate

CONSTANTS
    Digits,   \* digits on the keyboard
    Pastes,   \* texts in the clipboard
    Restored  \* texts that the page may arrive with

ASSUME MaskAssumption ==
    /\ Digits \subseteq 0..9
    /\ Pastes \cup Restored \subseteq Seq(0..Hyphen)

VARIABLES from, to  \* the selection, as offsets into text

maskVars == <<lang, text, from, to>>

MaskInit ==
    /\ lang \in {"fo", "en"}
    /\ text \in Restored
    /\ from = 0 /\ to = 0

-----------------------------------------------------------------------------

\* Mutant: a hyphen behind the digit is skipped.
caretIndexForDigitsMutant(t, n) ==
    LET behind == {i \in 1..Len(t) : Count(Slice(t, 0, i)) = n}
    IN  IF n = 0 THEN 0
        ELSE IF behind = {} THEN Len(t)
        ELSE CHOOSE i \in behind : \A j \in behind : i >= j

\* The offset right behind the n-th digit.
caretIndexForDigits(t, n) ==
    LET behind == {i \in 1..Len(t) : Count(Slice(t, 0, i)) = n}
    IN  IF n = 0 THEN 0
        ELSE IF behind = {} THEN Len(t)
        ELSE CHOOSE i \in behind : \A j \in behind : i <= j

\* onInput(): the browser has made raw of the value, with the caret at c.
newCaret(raw, c) == caretIndexForDigits(Masked(raw, lang), Count(Slice(raw, 0, c)))

OnInput(raw, c) ==
    /\ text' = Masked(raw, lang)
    /\ from' = newCaret(raw, c)
    /\ to' = from'
    /\ UNCHANGED lang

\* s in the place of what is between two offsets.
Replaced(a, b, s) == Slice(text, 0, a) \o s \o Slice(text, b, Len(text))

\* Mutant: a ninth digit is let through.
BlockedMutant == FALSE

\* onKeyDown() prevents a digit: eight are there and none is selected.
Blocked == Count(text) >= 8 /\ Count(Slice(text, from, to)) = 0

Type(d) == ~Blocked /\ OnInput(Replaced(from, to, <<d>>), from + 1)

\* Ctrl and a key is let through, whatever the clipboard holds.
Paste(s) == OnInput(Replaced(from, to, s), from + Len(s))

\* Backspace and Delete when something is selected.
Erase == from < to /\ OnInput(Replaced(from, to, <<>>), from)

Backspaced == Replaced(from - 1, to, <<>>)

Backspace == from = to /\ from > 0 /\ OnInput(Backspaced, from - 1)

Delete == from = to /\ to < Len(text) /\ OnInput(Replaced(from, to + 1, <<>>), from)

\* Arrow keys, Home, End and the mouse.
Select ==
    /\ from' \in 0..Len(text)
    /\ to' \in from'..Len(text)
    /\ UNCHANGED <<lang, text>>

\* onBlur()
Blur ==
    /\ text' = Masked(text, lang)
    /\ IF text' = text THEN UNCHANGED <<from, to>>
                       ELSE from' = Len(text') /\ to' = from'
    /\ UNCHANGED lang

MaskNext ==
    \/ \E d \in Digits : Type(d)
    \/ \E s \in Pastes : Paste(s)
    \/ Erase \/ Backspace \/ Delete \/ Select \/ Blur

MaskSpec == MaskInit /\ [][MaskNext]_maskVars

-----------------------------------------------------------------------------
(* Properties *)

\* A digit that is typed takes the place of the selection: no other digit is
\* lost, pushed out at the end or moved across it, and the caret follows it.
\* (A page may arrive with a longer text, which the mask cuts.)
TypedInPlace ==
    [][\A d \in Digits : Type(d) /\ Count(text) <= 8 =>
         LET before == Append(DigitsOnly(Slice(text, 0, from)), d)
         IN  /\ DigitsOnly(text') = before \o DigitsOnly(Slice(text, to, Len(text)))
             /\ DigitsOnly(Slice(text', 0, from')) = before]_maskVars

\* Backspace comes forward also where a hyphen precedes the caret, which the
\* mask puts back: enough of them empty the field up to the start, and the
\* digits behind the caret stay.  (A step that changes nothing would satisfy
\* any action property, so this is said of the state before the key.)
BackspaceAdvances ==
    from = to /\ from > 0 /\ text = Masked(text, lang) =>
        LET new == Masked(Backspaced, lang)
            c   == newCaret(Backspaced, from - 1)
        IN  /\ c < from
            /\ DigitsOnly(Slice(new, c, Len(new))) = DigitsOnly(Slice(text, from, Len(text)))

=============================================================================
