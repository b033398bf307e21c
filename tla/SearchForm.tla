----------------------------- MODULE SearchForm -----------------------------
(***************************************************************************)
(* The search form of the index page in one browser tab: its date field     *)
(* under the mask, the copy of the form that is kept in sessionStorage      *)
(* (wwwroot/js/index-form-state.js), the language and its switch (the       *)
(* culture of the page is that of the cookie), and the handlers of          *)
(* Pages/Index.cshtml.cs with the checks of InputValidation.cs.             *)
(*                                                                         *)
(* A navigation (a search, Clear, a visit, a link, a change of language)    *)
(* takes time: until the server answers, the user can go on editing the old *)
(* page.  SSN and names are one field here, `who'.  The validation-*.js     *)
(* adapters need jQuery, which no page loads: the server alone validates.   *)
(***************************************************************************)
EXTENDS MaskedDate

CONSTANTS
    Entries,     \* sequences of digits that the user enters as a date
    Links,       \* criteria [who, text] in the query of a link to the page
    Today,       \* a day as the number yyyymmdd
    MaxEdits,    \* bound: edits in a behaviour
    MaxRedeploys \* bound: losses of the data protection keys

ASSUME FormAssumption ==
    /\ Entries \subseteq Seq(0..9)
    /\ \A c \in Links : c.text \in Seq(0..Hyphen)
    /\ MaxEdits \in Nat /\ MaxRedeploys \in Nat

VARIABLES
    who,      \* "none", "ssn", "names", or "bad": the server refuses it
    token,    \* key that the form's antiforgery token is protected with
    canStore, \* the browser has sessionStorage
    kept,     \* the form in sessionStorage
    page,     \* "form", or "refused": status 400
    drawn,    \* key that the page was rendered with
    url,      \* criteria in the query of the page's address, or None
    answer,   \* what the page says beside the form
    pending,  \* the navigation that the server has not answered
    keys,     \* the server's data protection key
    edits,
    meant,    \* day the field held when it was last edited (for the properties)
    touched,  \* the form has changed since what is "shown" beside it, and since
              \* what was "sent" last, was submitted (likewise)
    cleared   \* "no", "asked" or "done" (likewise)

form    == <<text, who, token>>
server  == <<keys, drawn, url, page, answer, lang>>
history == <<meant, touched, cleared>>
vars    == <<form, server, canStore, kept, pending, edits, history>>

None  == [none |-> TRUE]
NoDay == 0
Guess == 1   \* a day that .NET makes of a text that is no whole date

-----------------------------------------------------------------------------
(* The server: InputValidation.cs *)

\* The number that the digits i and i + 1 of d make.
Pair(d, i) == 10 * d[i] + d[i + 1]

DaysIn(y, m) ==
    IF m = 2 THEN IF y % 4 = 0 /\ (y % 100 # 0 \/ y % 400 = 0) THEN 29 ELSE 28
             ELSE IF m \in {4, 6, 9, 11} THEN 30 ELSE 31

DayOf(y, m, d) ==
    IF m \in 1..12 /\ d \in 1..DaysIn(y, m) THEN 10000 * y + 100 * m + d ELSE NoDay

\* Mutant: no first day.
InRangeMutant(day) == IF day <= Today THEN day ELSE NoDay

\* From 1900 to today.
InRange(day) == IF day >= 19000101 /\ day <= Today THEN day ELSE NoDay

\* What DateTimeOffset.TryParse can make of half a date.
Lenient == {NoDay, Guess}

\* TryParseDob(): yyyy-MM-dd, dd-MM-yyyy, and then what TryParse takes in the
\* culture l; English reads a date with the year last as MM-dd-yyyy.
TryParseDob(t, l) ==
    LET d == DigitsOnly(t)
        ymd == DayOf(100 * Pair(d, 1) + Pair(d, 3), Pair(d, 5), Pair(d, 7))
        year == 100 * Pair(d, 5) + Pair(d, 7)
        dmy == DayOf(year, Pair(d, 3), Pair(d, 1))
        mdy == IF l = "en" THEN DayOf(year, Pair(d, 1), Pair(d, 3)) ELSE NoDay
    IN  IF Len(d) = 0 THEN {NoDay}
        ELSE IF Len(d) < 8 THEN Lenient
        ELSE IF t = formatFromDigits(d, "en") THEN {InRange(ymd)}
        ELSE IF t = formatFromDigits(d, "fo")
          THEN {InRange(IF dmy # NoDay THEN dmy ELSE mdy)}
        ELSE {NoDay}

\* The day of a text that is a whole date.
WholeDay(t, l) == IF Count(t) = 8 THEN CHOOSE day \in TryParseDob(t, l) : TRUE ELSE NoDay

\* The attributes of the model and ValidateChosenPath(), for criteria whose
\* date reads as day.
Valid(c, day) ==
    /\ c.who # "bad"
    /\ c.text # <<>> => day # NoDay
    /\ c.who = "ssn" \/ (c.who = "names" /\ c.text # <<>>)

-----------------------------------------------------------------------------

NoAnswer == [kind |-> "none"]
Errors   == [kind |-> "errors"]

Blank == [who |-> "none", text |-> <<>>]

Form == [who |-> who, text |-> text]

\* save(): every field of the form, the antiforgery token among them.
Saved(t, w) == IF canStore THEN [who |-> w, text |-> t, token |-> token] ELSE kept

\* A first visit.
Init ==
    /\ lang \in {"fo", "en"}
    /\ text = <<>>
    /\ who = "none"
    /\ canStore \in BOOLEAN
    /\ kept = None
    /\ keys = 0 /\ token = 0 /\ drawn = 0
    /\ page = "form"
    /\ url = None
    /\ answer = NoAnswer
    /\ pending = None
    /\ edits = 0
    /\ meant = NoDay /\ touched = {} /\ cleared = "no"

-----------------------------------------------------------------------------
(* The user edits the form *)

Edited ==
    /\ page = "form"
    /\ edits < MaxEdits
    /\ edits' = edits + 1
    /\ touched' = {"shown", "sent"}
    /\ cleared' = "no"
    /\ UNCHANGED <<token, server, canStore, pending>>

\* The date field is edited, in keystrokes that DateMask has: onInput(), and
\* then save() on the form.
EnterDate ==
    /\ \E d \in Entries : text' = Masked(d, lang)
    /\ text' # text
    /\ kept' = Saved(text', who)
    /\ meant' = WholeDay(text', lang)
    /\ UNCHANGED who
    /\ Edited

\* onBlur(): reformatted in the language of the page, and not saved.
Leave ==
    /\ page = "form"
    /\ text' = Masked(text, lang)
    /\ touched' = IF text' = text THEN touched ELSE {"shown", "sent"}
    /\ UNCHANGED <<who, token, server, canStore, kept, pending, edits, meant, cleared>>

EnterWho ==
    /\ who' \in {"none", "ssn", "names", "bad"} \ {who}
    /\ kept' = Saved(text, who')
    /\ UNCHANGED <<text, meant>>
    /\ Edited

-----------------------------------------------------------------------------
(* The user leaves the page; a newer navigation replaces one under way *)

\* Mutant: the submit does not save.
SubmitSavedMutant == kept

\* The submit handler of index-form-state.js: the button was not Clear.
SubmitSaved == Saved(text, who)

Submit ==
    /\ page = "form"
    /\ pending' = [to |-> "search", who |-> who, text |-> text, token |-> token,
                   meant |-> meant]
    /\ kept' = SubmitSaved
    /\ touched' = touched \ {"sent"}
    /\ cleared' = "no"
    /\ UNCHANGED <<form, server, canStore, edits, meant>>

\* Mutant: the handler takes Clear for a search.
ClearSavedMutant == Saved(text, who)

\* The submit handler: formaction names the Clear handler.
ClearSaved == IF canStore THEN None ELSE kept

Clear ==
    /\ page = "form"
    /\ pending' = [to |-> "clear", token |-> token]
    /\ kept' = ClearSaved
    /\ cleared' = "asked"
    /\ UNCHANGED <<form, server, canStore, edits, meant, touched>>

\* What brings the criteria of an address to the page.
BringsQuery(n) == n.to = "link" \/ (n.to = "language" /\ url # None)

Goes(n) ==
    /\ pending' = n
    /\ cleared' = IF BringsQuery(n) THEN "no" ELSE cleared
    /\ UNCHANGED <<form, server, canStore, kept, edits, meant, touched>>

\* The page is opened again, at its bare address.
Visit == Goes([to |-> "page"])

\* The picker posts the token of its own form, as the page was rendered.
SwitchLanguage ==
    page = "form" /\ \E l \in {"fo", "en"} \ {lang} :
        Goes([to |-> "language", lang |-> l, token |-> drawn])

FollowLink == \E c \in Links : Goes([to |-> "link", who |-> c.who, text |-> c.text])

-----------------------------------------------------------------------------
(* The server answers *)

\* The fields as rendered, and load(), which writes the kept form over them.
Arrive(c) ==
    /\ page' = "form"
    /\ drawn' = keys
    /\ IF kept = None
         THEN text' = c.text /\ who' = c.who /\ token' = keys
         ELSE text' = kept.text /\ who' = kept.who /\ token' = kept.token
    /\ cleared' = IF cleared = "asked" THEN "done" ELSE cleared

\* What becomes of the criteria of n in the culture l: a search may fail.
Searched(n, m, l) ==
    \E day \in TryParseDob(n.text, l) :
        answer' \in {Errors} \cup IF Valid(n, day)
            THEN {[kind |-> "found", to |-> n.to, who |-> n.who, text |-> n.text,
                   day |-> IF n.who = "ssn" THEN NoDay ELSE day, meant |-> m]}
            ELSE {}

\* A token of lost keys: status 400.
Refused ==
    /\ pending.to \in {"search", "clear", "language"} /\ pending.token # keys
    /\ page' = "refused"
    /\ UNCHANGED <<form, keys, drawn, url, answer, lang, kept, meant, touched, cleared>>

\* OnPostAsync: the page is rendered with the posted fields, at the address it
\* had.
OnPost ==
    /\ pending.to = "search" /\ pending.token = keys
    /\ Searched(pending, pending.meant, lang)
    /\ Arrive([who |-> pending.who, text |-> pending.text])
    /\ meant' = IF kept = None THEN pending.meant ELSE meant
    /\ touched' = IF "sent" \in touched THEN touched ELSE {}
    /\ UNCHANGED <<keys, lang, url, kept>>

\* OnGetAsync in the culture l with the criteria c in the query: the fields are
\* prefilled, and searched for.
Get(c, l) ==
    /\ url' = c
    /\ IF c = None
         THEN /\ answer' = NoAnswer
              /\ Arrive(Blank)
              /\ UNCHANGED <<meant, touched>>
         ELSE /\ Searched([to |-> "link", who |-> c.who, text |-> c.text], NoDay, l)
              /\ Arrive(c)
              /\ touched' = {}
              /\ meant' = IF kept = None THEN WholeDay(c.text, l) ELSE meant

\* OnPostClear redirects to the bare address, which a visit asks for as well.
OnGet ==
    /\ pending.to = "page" \/ (pending.to = "clear" /\ pending.token = keys)
    /\ Get(None, lang)
    /\ UNCHANGED <<keys, lang, kept>>

OnGetPrefilled ==
    /\ pending.to = "link"
    /\ Get([who |-> pending.who, text |-> pending.text], lang)
    /\ UNCHANGED <<keys, lang, kept>>

\* POST /set-culture: the cookie, and back to the address of the page.
SetCulture ==
    /\ pending.to = "language" /\ pending.token = keys
    /\ lang' = pending.lang
    /\ Get(url, lang')
    /\ UNCHANGED <<keys, kept>>

Answer ==
    /\ pending # None
    /\ pending' = None
    /\ Refused \/ OnPost \/ OnGet \/ OnGetPrefilled \/ SetCulture
    /\ UNCHANGED <<canStore, edits>>

\* A deployment that replaces the folder with the data protection keys.
Redeploy ==
    /\ keys < MaxRedeploys
    /\ keys' = keys + 1
    /\ UNCHANGED <<form, drawn, url, page, answer, lang, canStore, kept, pending,
                   edits, history>>

-----------------------------------------------------------------------------

Navigate == Submit \/ Clear \/ Visit \/ SwitchLanguage \/ FollowLink

Next == EnterDate \/ EnterWho \/ Leave \/ Navigate \/ Answer \/ Redeploy

Spec == Init /\ [][Next]_vars

-----------------------------------------------------------------------------
(* Properties *)

\* A whole date is never searched as another day, although a change of
\* language restores it in the format of the other one, and the mask then cuts
\* its digits anew: such a text is refused or reads as the day it was.
NeverMisread ==
    /\ page = "form" /\ meant # NoDay => WholeDay(text, lang) \in {NoDay, meant}
    /\ answer.kind = "found" => answer.meant = NoDay \/ answer.day \in {NoDay, answer.meant}

\* After Clear the form stays empty over visits and changes of language, and
\* unless the keys are lost again its token is one the server takes.
ClearStaysClear ==
    cleared = "done" /\ page = "form" =>
        /\ Form = Blank /\ kept = None
        /\ drawn = keys => token = keys

\* Until it is edited, the form beside the result of a search shows the
\* criteria that were searched for, although it has been through the server,
\* sessionStorage and the mask.  (The result of a link may stand beside other
\* criteria: load() writes the kept form over those of the query.)
ResultIsOfForm ==
    page = "form" /\ answer.kind = "found" /\ answer.to = "search" /\ "shown" \notin touched
        => answer.who = who /\ answer.text = text

=============================================================================
