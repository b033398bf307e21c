---------------------------- MODULE PersonPanel ----------------------------
(***************************************************************************)
(* The person details panel of the search page, in one browser tab that     *)
(* shows the results of a search: wwwroot/js/gpiv-person-details-loader.js, *)
(* the Details button of gpiv-viewer.js, index-clear-details.js and the     *)
(* script at the end of Pages/Shared/_GetPeoplePublicInfoViewer.cshtml.     *)
(*                                                                         *)
(* Each action is one event handler with all it calls.  loadPerson awaits   *)
(* its answer and goes on in another action; by then others may have run:   *)
(* another load, a submitted form, the browser's Back button, a timer.      *)
(*                                                                         *)
(* A person is shown in four places that are written at different times:    *)
(* the body, the raw and pretty XML (pdXml), the label of the tab (title)   *)
(* and the URL.  What the details say is left out.                          *)
(***************************************************************************)
EXTENDS Integers, Sequences, SequencesExt

CONSTANTS
    Persons,   \* publicIds listed in the summary
    First,     \* the first of them
    None,
    MaxLoads   \* bound: loads in a behaviour, begun or asked for

ASSUME PanelAssumption ==
    /\ First \in Persons
    /\ None \notin Persons
    /\ MaxLoads \in Nat

\* What the body shows when it shows no person.
Blank == "blank"
Info  == "info"    \* "Select a person to view details."
Shell == "shell"   \* an accordion of empty groups
Plain == {Blank, Info, Shell}

ASSUME BodyAssumption == Plain \cap Persons = {}

VARIABLES
    canAbort,     \* the browser has AbortController
    booted,       \* the loader script has run
    rendered,     \* the viewer has listed the persons
    panel,        \* the collapse around the panel
    opened,       \* the first opening has asked for a load (loaded in the page)
    lastPid,      \* window.lastPid
    loads,        \* publicId of every loadPerson so far; loadSeq is its length
    requests,     \* requests whose answer loadPerson awaits
    personCache,  \* personCache[p]: whose details are kept for p, or None
    body,
    pdXml,        \* whose XML the other tabs hold
    title,        \* whose name the tab bears
    err,          \* whose load the error banner offers to retry
    spinner,
    clicks,       \* loads that setTimeout(..., 0) will ask for
    waiting,      \* a wait for the summary: its observer and its timer are on
    timers,       \* timers of waits that have loaded a person meanwhile
    hist,         \* publicId in the URL of each history entry
    pos,          \* the current one
    outcome       \* how the latest load has ended (for the properties)

script == <<canAbort, booted, rendered, lastPid, loads, requests, personCache>>
shown  == <<body, pdXml, title, err, spinner>>
later  == <<clicks, waiting, timers>>
url    == <<hist, pos>>
vars   == <<script, panel, opened, shown, later, url, outcome>>

Requests == [seq : Nat, pid : Persons, aborted : BOOLEAN]

NoError == None

TypeOK ==
    /\ canAbort \in BOOLEAN
    /\ booted \in BOOLEAN
    /\ rendered \in BOOLEAN
    /\ panel \in {"closed", "opening", "open"}
    /\ opened \in BOOLEAN
    /\ lastPid \in Persons \cup {None}
    /\ loads \in Seq(Persons)
    /\ requests \subseteq Requests
    /\ personCache \in [Persons -> Persons \cup {None}]
    /\ body \in Persons \cup Plain
    /\ pdXml \in Persons \cup {None}
    /\ title \in Persons \cup {None}
    /\ err \in Persons \cup {None}
    /\ spinner \in BOOLEAN
    /\ clicks \in Nat
    /\ waiting \in BOOLEAN
    /\ timers \in Nat
    /\ hist \in Seq(Persons \cup {None})
    /\ pos \in 1..Len(hist)
    /\ outcome \in {"none", "loading", "shown", "failed"}

\* A reload keeps the publicId in the URL; the search itself removes it.
Init ==
    /\ canAbort \in BOOLEAN
    /\ booted = FALSE
    /\ rendered = FALSE
    /\ panel = "closed"
    /\ opened = FALSE
    /\ lastPid = None
    /\ loads = <<>>
    /\ requests = {}
    /\ personCache = [p \in Persons |-> None]
    /\ body = Blank
    /\ pdXml = None
    /\ title = None
    /\ err = NoError
    /\ spinner = FALSE
    /\ clicks = 0
    /\ waiting = FALSE
    /\ timers = 0
    /\ hist \in {<<p>> : p \in Persons \cup {None}}
    /\ pos = 1
    /\ outcome = "none"

-----------------------------------------------------------------------------
(* What the handlers call *)

loadSeq == Len(loads)

\* Room for n more loads within the bound.
Room(n) == loadSeq + clicks + n + (IF waiting THEN 1 ELSE 0) <= MaxLoads

\* The latest load is still waiting for its answer.
InFlight == \E r \in requests : r.seq = loadSeq

\* currentAbort.abort(): only the latest request may be still open, and its
\* promise is rejected in a later step.
Aborted == {[r EXCEPT !.aborted = canAbort \/ r.aborted] : r \in requests}

\* fetchDetails(): abort what is under way, send the request.
Send(p) == requests' = Aborted \cup
    {[seq |-> loadSeq + 1, pid |-> p, aborted |-> FALSE]}

\* setPdXml() and updateHeaderWithOfficialName(), called in pairs.
SetPanes(p) ==
    /\ pdXml' = p
    /\ title' = p

\* Mutant: what is cached goes into the body alone.
RenderCachedMutant(p) ==
    /\ body' = personCache[p]
    /\ spinner' = FALSE
    /\ UNCHANGED <<pdXml, title>>

\* The panel, filled from the cache; the request is sent all the same.
RenderCached(p) ==
    /\ body' = personCache[p]
    /\ spinner' = FALSE
    /\ SetPanes(personCache[p])

\* showLoading(true)
ShowLoading ==
    /\ body' = Blank
    /\ spinner' = TRUE
    /\ UNCHANGED <<pdXml, title>>

\* loadPerson(publicId) up to its await.
LoadPerson(p) ==
    /\ lastPid' = p
    /\ loads' = Append(loads, p)
    /\ Send(p)
    /\ err' = NoError
    /\ IF personCache[p] # None THEN RenderCached(p) ELSE ShowLoading
    /\ outcome' = "loading"

\* showInfo()
ShowInfo ==
    /\ body' = Info
    /\ spinner' = FALSE
    /\ err' = NoError
    /\ UNCHANGED <<pdXml, title>>

\* What a click on the Details tab does once its timeout is over: the last
\* person, or the first that is listed, or the empty accordion and a wait.
\* Bound: one wait at a time.
LoadLastOrFirst ==
    IF lastPid # None \/ rendered
      THEN /\ LoadPerson(IF lastPid # None THEN lastPid ELSE First)
           /\ UNCHANGED waiting
      ELSE /\ ~waiting
           /\ waiting' = TRUE
           /\ body' = Shell
           /\ spinner' = FALSE
           /\ err' = NoError
           /\ UNCHANGED <<lastPid, loads, requests, pdXml, title, outcome>>

\* Mutant: always replaceState.
VisitUrlMutant(p) ==
    /\ hist' = hist
    /\ pos' = pos

\* The URL of a load that has succeeded: pushState when there was a publicId.
VisitUrl(p) ==
    IF hist[pos] # None
      THEN /\ hist' = Append(SubSeq(hist, 1, pos), p)
           /\ pos' = pos + 1
      ELSE /\ hist' = [hist EXCEPT ![pos] = p]
           /\ pos' = pos

-----------------------------------------------------------------------------
(* The page is loaded *)

\* The loader script: the person of the URL, then prerenderShell().
Boot ==
    /\ ~booted
    /\ booted' = TRUE
    /\ IF hist[pos] # None /\ Room(1)
         THEN /\ lastPid' = hist[pos]
              /\ loads' = Append(loads, hist[pos])
              /\ Send(hist[pos])
              /\ spinner' = TRUE
              /\ outcome' = "loading"
         ELSE UNCHANGED <<lastPid, loads, requests, spinner, outcome>>
    /\ body' = Shell
    /\ UNCHANGED <<canAbort, rendered, personCache, panel, opened, pdXml, title,
                   err, later, url>>

\* The viewer lists the persons; a wait for the summary loads the first one,
\* and leaves its timer running.
Render ==
    /\ booted /\ ~rendered
    /\ rendered' = TRUE
    /\ IF waiting
         THEN LoadPerson(First) /\ timers' = timers + 1
         ELSE UNCHANGED <<lastPid, loads, requests, shown, outcome, timers>>
    /\ waiting' = FALSE
    /\ UNCHANGED <<canAbort, booted, personCache, panel, opened, clicks, url>>

\* The timer of a wait, 800 ms later: it informs, a person loaded or not.
WaitTimer ==
    /\ \/ waiting /\ waiting' = FALSE /\ UNCHANGED timers
       \/ timers > 0 /\ timers' = timers - 1 /\ UNCHANGED waiting
    /\ ShowInfo
    /\ UNCHANGED <<script, panel, opened, clicks, url, outcome>>

-----------------------------------------------------------------------------
(* The user *)

\* The script in the page: the first opening clicks the hidden trigger, n
\* more clicks come from the handler that opens the panel.
Open(n) ==
    /\ Room(n + IF opened THEN 0 ELSE 1)
    /\ panel' = "opening"
    /\ opened' = TRUE
    /\ clicks' = clicks + n + IF opened THEN 0 ELSE 1

\* The toggle of the panel, which the viewer hides once it lists the persons;
\* Bootstrap ignores it while the panel opens.
Toggle ==
    /\ booted /\ ~rendered
    /\ \/ panel = "closed" /\ Open(0)
       \/ panel = "open" /\ panel' = "closed" /\ UNCHANGED <<opened, clicks>>
    /\ UNCHANGED <<script, shown, waiting, timers, url, outcome>>

\* shown.bs.collapse, when the transition has ended: the banner is hidden.
PanelShown ==
    /\ panel = "opening"
    /\ panel' = "open"
    /\ err' = NoError
    /\ UNCHANGED <<script, opened, body, pdXml, title, spinner, later, url, outcome>>

\* The Details button of a person in the summary.
Details(p) ==
    /\ rendered
    /\ IF panel = "open" /\ lastPid = p
         THEN /\ panel' = "closed"
              /\ UNCHANGED <<lastPid, opened, clicks>>
         ELSE /\ lastPid' = p
              /\ IF panel = "closed"
                   THEN Open(1)
                   ELSE /\ Room(1)
                        /\ clicks' = clicks + 1
                        /\ UNCHANGED <<panel, opened>>
    /\ UNCHANGED <<canAbort, booted, rendered, loads, requests, personCache,
                   shown, waiting, timers, url, outcome>>

\* The Details tab within the panel: its click asks for a load, and once more
\* when the tab was not the active one (shown.bs.tab).
InnerTab ==
    /\ panel # "closed"
    /\ \E n \in 1..2 : Room(n) /\ clicks' = clicks + n
    /\ UNCHANGED <<script, panel, opened, shown, waiting, timers, url, outcome>>

\* A timeout of 0 ms is over.
RunClick ==
    /\ clicks > 0
    /\ clicks' = clicks - 1
    /\ LoadLastOrFirst
    /\ UNCHANGED <<canAbort, booted, rendered, personCache, panel, opened, timers,
                   url>>

\* The Retry button of the error banner.
Retry ==
    /\ err # None
    /\ Room(1)
    /\ LoadPerson(err)
    /\ UNCHANGED <<canAbort, booted, rendered, personCache, panel, opened, later,
                   url>>

\* Back and Forward, and popstate.
Travel ==
    /\ booted
    /\ pos' \in {pos - 1, pos + 1} \cap DOMAIN hist
    /\ IF hist[pos'] \notin {None, lastPid}
         THEN Room(1) /\ LoadPerson(hist[pos'])
         ELSE UNCHANGED <<lastPid, loads, requests, shown, outcome>>
    /\ UNCHANGED <<canAbort, booted, rendered, personCache, panel, opened, later,
                   hist>>

\* Mutant: the last person is not forgotten.
ForgottenMutant == lastPid

\* What a submit leaves in window.lastPid.
Forgotten == None

\* The search form is submitted; this page stays until the server has answered.
Submit ==
    /\ booted
    /\ lastPid' = Forgotten
    /\ personCache' = [p \in Persons |-> None]
    /\ err' = NoError
    /\ spinner' = TRUE
    /\ body' = Blank
    /\ hist' = [hist EXCEPT ![pos] = None]
    /\ UNCHANGED <<canAbort, booted, rendered, loads, requests, panel, opened, pdXml,
                   title, later, pos, outcome>>

-----------------------------------------------------------------------------
(* loadPerson after its await *)

\* mySeq = loadSeq
IsLatest(r) == r.seq = loadSeq

\* Mutant: the answer is kept for the last person, not for the one it is of.
KeptMutant(p, full) ==
    IF lastPid = None THEN personCache
                      ELSE [personCache EXCEPT ![lastPid] = IF full THEN p ELSE None]

\* personCache.set(): an empty list is kept and never used.
Kept(p, full) == [personCache EXCEPT ![p] = IF full THEN p ELSE None]

\* Mutant: the spinner is stopped by an answer that succeeds only.
StopSpinnerMutant == UNCHANGED spinner

\* showLoading(false), before the banner is filled.
StopSpinner == spinner' = FALSE

\* An answer with ok: true.
Answered(r) ==
    /\ ~r.aborted
    /\ requests' = requests \ {r}
    /\ IF IsLatest(r)
         THEN /\ \E full \in BOOLEAN : personCache' = Kept(r.pid, full)
              /\ body' = r.pid
              /\ spinner' = FALSE
              /\ err' = NoError
              /\ SetPanes(r.pid)
              /\ VisitUrl(r.pid)
              /\ outcome' = "shown"
         ELSE UNCHANGED <<personCache, shown, url, outcome>>
    /\ UNCHANGED <<canAbort, booted, rendered, lastPid, loads, panel, opened, later>>

\* ok: false, no JSON, or no answer at all: what the body shows stays.
Failed(r) ==
    /\ ~r.aborted
    /\ requests' = requests \ {r}
    /\ IF IsLatest(r)
         THEN /\ StopSpinner
              /\ err' = r.pid
              /\ outcome' = "failed"
         ELSE UNCHANGED <<spinner, err, outcome>>
    /\ UNCHANGED <<canAbort, booted, rendered, lastPid, loads, personCache, panel,
                   opened, body, pdXml, title, later, url>>

\* AbortError: a newer load is under way, and owns the panel.
Rejected(r) ==
    /\ r.aborted
    /\ requests' = requests \ {r}
    /\ IF IsLatest(r)
         THEN StopSpinner /\ err' = NoError
         ELSE UNCHANGED <<spinner, err>>
    /\ UNCHANGED <<canAbort, booted, rendered, lastPid, loads, personCache, panel,
                   opened, body, pdXml, title, later, url, outcome>>

-----------------------------------------------------------------------------

Page == Boot \/ Render \/ WaitTimer \/ PanelShown \/ RunClick

User ==
    \/ Toggle \/ InnerTab \/ Retry \/ Travel \/ Submit
    \/ \E p \in Persons : Details(p)

Network == \E r \in requests : Answered(r) \/ Failed(r) \/ Rejected(r)

\* The user looks at the page and does nothing.
Rest == booted /\ rendered /\ UNCHANGED vars

Next == Page \/ User \/ Network \/ Rest

Spec == Init /\ [][Next]_vars

\* The browser runs what is due, and every request ends somehow.
FairSpec == Spec /\ WF_vars(Page) /\ WF_vars(Network)

-----------------------------------------------------------------------------
(* Properties *)

\* A person in the body is the one that was asked for last, whatever order
\* the answers come in and whatever ran while they were awaited.
BodyIsCurrent ==
    body \in Persons => loads # <<>> /\ body = Last(loads)

\* While the body shows a person, the XML tabs and the label show no other.
PanesAgree ==
    body \in Persons => pdXml = body /\ title = body

\* The banner offers to retry the load that was asked for last.
RetryIsCurrent ==
    err # None => loads # <<>> /\ err = Last(loads)

\* The spinner turns for a load that is under way, or is about to be: no
\* answer that comes late, is lost or aborted leaves it turning.  (A submit
\* starts it as well, for the page that will come, and forgets lastPid.)
SpinnerIsOwned ==
    spinner /\ lastPid # None => InFlight \/ clicks > 0

\* Once a person is shown and nothing is under way, the URL names no other:
\* a reload and a bookmark lead to the person in front of the user.
UrlNamesNoOther ==
    outcome = "shown" /\ clicks = 0 /\ body \in Persons => hist[pos] \in {body, None}

\* A spinner that a load has started stops.
SpinnerEnds ==
    (spinner /\ InFlight) ~> ~spinner

=============================================================================
