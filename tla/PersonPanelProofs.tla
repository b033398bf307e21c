------------------------- MODULE PersonPanelProofs -------------------------
(***************************************************************************)
(* What holds of the details panel for any number of persons, loads, clicks *)
(* and history entries, whatever order the answers come in; in the second   *)
(* half, of the accordions of the page (SearchResults), whatever the        *)
(* documents.                                                               *)
(*                                                                         *)
(* The inductive invariant ties the three things a person's details depend  *)
(* on to the log of loads: an awaited request is of the load of its number, *)
(* a kept entry is of its own key, and window.lastPid names the latest load *)
(* unless a click that will load it is still to run.                        *)
(***************************************************************************)
EXTENDS PersonPanel, SearchResults, FiniteSetTheorems, SequenceTheorems, TLAPS

\* The type invariant in two parts: Zenon proves the first, SMT the second.
Flags ==
    /\ canAbort \in BOOLEAN
    /\ booted \in BOOLEAN
    /\ rendered \in BOOLEAN
    /\ opened \in BOOLEAN
    /\ spinner \in BOOLEAN
    /\ waiting \in BOOLEAN

Data ==
    /\ panel \in {"closed", "opening", "open"}
    /\ lastPid \in Persons \cup {None}
    /\ loads \in Seq(Persons)
    /\ requests \subseteq Requests
    /\ personCache \in [Persons -> Persons \cup {None}]
    /\ body \in Persons \cup Plain
    /\ pdXml \in Persons \cup {None}
    /\ title \in Persons \cup {None}
    /\ err \in Persons \cup {None}
    /\ clicks \in Nat
    /\ timers \in Nat
    /\ hist \in Seq(Persons \cup {None})
    /\ pos \in 1..Len(hist)
    /\ outcome \in {"none", "loading", "shown", "failed"}

LEMMA TypeParts == TypeOK <=> Flags /\ Data
  BY Zenon DEF TypeOK, Flags, Data

LEMMA TypePartsNext == Flags' /\ Data' => TypeOK'
  BY Zenon DEF TypeOK, Flags, Data

\* A kept entry holds the details of the person it is kept under.
CacheOwned == \A p \in Persons : personCache[p] \in {p, None}

\* A request carries the publicId of the load of its number.
AnswersKnown ==
    \A r \in requests : r.seq \in 1..Len(loads) /\ r.pid = loads[r.seq]

\* Nothing has happened before the loader script runs.
QuietBefore ==
    ~booted => /\ loads = <<>>
               /\ err = NoError
               /\ clicks = 0
               /\ panel = "closed"
               /\ ~rendered

LastIsLatest ==
    lastPid # None /\ clicks = 0 => loads # <<>> /\ lastPid = Last(loads)

Core ==
    /\ CacheOwned
    /\ AnswersKnown
    /\ QuietBefore
    /\ LastIsLatest
    /\ BodyIsCurrent
    /\ PanesAgree
    /\ RetryIsCurrent
    /\ SpinnerIsOwned
    /\ UrlNamesNoOther

IInv == TypeOK /\ Core

LEMMA InitHolds == Init => IInv
  <1> SUFFICES ASSUME Init PROVE IInv
    OBVIOUS
  <1>1. body \notin Persons
    BY BodyAssumption DEF Init, Blank, Plain
  <1>2. TypeOK
    <2>1. PICK p \in Persons \cup {None} : hist = <<p>>
      BY DEF Init
    <2>2. hist \in Seq(Persons \cup {None}) /\ pos \in 1..Len(hist)
      BY <2>1 DEF Init
    <2>3. personCache \in [Persons -> Persons \cup {None}]
      BY DEF Init
    <2>4. loads \in Seq(Persons) /\ requests \subseteq Requests
      BY DEF Init
    <2> QED
      BY <2>2, <2>3, <2>4 DEF Init, TypeOK, NoError, Plain, Blank
  <1>3. CacheOwned /\ AnswersKnown /\ QuietBefore /\ LastIsLatest
    BY DEF Init, CacheOwned, AnswersKnown, QuietBefore, LastIsLatest
  <1> QED
    BY <1>1, <1>2, <1>3 DEF Init, IInv, Core, BodyIsCurrent, PanesAgree, RetryIsCurrent,
       SpinnerIsOwned, UrlNamesNoOther, NoError

\* The log of loads, one load longer.
LEMMA LastOfAppend ==
    ASSUME NEW S, NEW s \in Seq(S), NEW p \in S
    PROVE  /\ Append(s, p) \in Seq(S)
           /\ Append(s, p) # <<>>
           /\ Last(Append(s, p)) = p
           /\ Len(Append(s, p)) = Len(s) + 1
           /\ \A i \in 1..Len(s) : Append(s, p)[i] = s[i]
           /\ Append(s, p)[Len(s) + 1] = p
  BY DEF Last

\* fetchDetails() aborts what is under way and adds the request of the load.
LEMMA SendKeeps ==
    ASSUME TypeOK, AnswersKnown, NEW p \in Persons, Send(p), loads' = Append(loads, p)
    PROVE  /\ requests' \subseteq Requests
           /\ AnswersKnown'
           /\ InFlight'
  <1>1. /\ Len(loads') = Len(loads) + 1
        /\ \A i \in 1..Len(loads) : loads'[i] = loads[i]
        /\ loads'[Len(loads) + 1] = p
    BY LastOfAppend DEF TypeOK
  <1> DEFINE new == [seq |-> Len(loads) + 1, pid |-> p, aborted |-> FALSE]
             cut(r) == [r EXCEPT !.aborted = canAbort \/ r.aborted]
  <1>2. requests' = {cut(r) : r \in requests} \cup {new}
    BY DEF Send, Aborted, loadSeq
  <1>3. Len(loads) \in Nat
    BY DEF TypeOK
  <1>4. new \in Requests
    BY <1>3 DEF Requests
  <1>5. ASSUME NEW r \in requests
        PROVE  cut(r) \in Requests /\ cut(r).seq = r.seq /\ cut(r).pid = r.pid
    <2>1. r \in [seq : Nat, pid : Persons, aborted : BOOLEAN]
      BY <1>5 DEF TypeOK, Requests
    <2> DEFINE a == canAbort \/ r.aborted
    <2>2. a \in BOOLEAN
      OBVIOUS
    <2>3. cut(r) = [r EXCEPT !.aborted = a]
      OBVIOUS
    <2> HIDE DEF a, cut
    <2> QED
      BY <2>1, <2>2, <2>3 DEF Requests
  <1>6. requests' \subseteq Requests
    BY <1>2, <1>4, <1>5
  <1> HIDE DEF cut
  <1>7. ASSUME NEW r \in requests'
        PROVE  r.seq \in 1..Len(loads') /\ r.pid = loads'[r.seq]
    <2>1. CASE r = new
      BY <2>1, <1>1, <1>3
    <2>2. ASSUME NEW q \in requests, r = cut(q)
          PROVE  r.seq \in 1..Len(loads') /\ r.pid = loads'[r.seq]
      <3>1. r.seq = q.seq /\ r.pid = q.pid
        BY <2>2, <1>5
      <3>2. q.seq \in 1..Len(loads) /\ q.pid = loads[q.seq]
        BY DEF AnswersKnown
      <3> QED
        BY <3>1, <3>2, <1>1, <1>3
    <2> QED
      BY <2>1, <2>2, <1>2
  <1>8. new \in requests' /\ new.seq = Len(loads')
    BY <1>1, <1>2
  <1> QED
    BY <1>6, <1>7, <1>8 DEF AnswersKnown, InFlight, loadSeq

\* loadPerson up to its await: a person who is shown from the cache is the one
\* who is asked for, and the spinner turns for the request just sent.
LEMMA LoadKeeps ==
    ASSUME IInv, NEW p \in Persons, LoadPerson(p), booted, booted' = booted,
           personCache' = personCache
    PROVE  /\ Core'
           /\ lastPid' \in Persons \cup {None}
           /\ loads' \in Seq(Persons)
           /\ requests' \subseteq Requests
           /\ body' \in Persons \cup Plain
           /\ pdXml' \in Persons \cup {None}
           /\ title' \in Persons \cup {None}
           /\ err' \in Persons \cup {None}
           /\ spinner' \in BOOLEAN
           /\ outcome' = "loading"
  <1> USE DEF IInv
  <1>1. /\ lastPid' = p
        /\ loads' = Append(loads, p)
        /\ Send(p)
        /\ err' = NoError
        /\ outcome' = "loading"
    BY DEF LoadPerson
  <1>2. loads \in Seq(Persons)
    BY DEF TypeOK
  <1>3. loads' \in Seq(Persons) /\ loads' # <<>> /\ Last(loads') = p
    BY <1>1, <1>2, LastOfAppend
  <1>4. requests' \subseteq Requests /\ AnswersKnown' /\ InFlight'
    BY <1>1, SendKeeps DEF Core
  <1>5. \/ /\ body' = p /\ pdXml' = p /\ title' = p /\ spinner' = FALSE
        \/ /\ body' = Blank /\ spinner' = TRUE
           /\ pdXml' = pdXml /\ title' = title
    <2>1. CASE personCache[p] # None
      <3>1. personCache[p] = p
        BY <2>1 DEF Core, CacheOwned
      <3> QED
        BY <2>1, <3>1 DEF LoadPerson, RenderCached, SetPanes
    <2>2. CASE personCache[p] = None
      BY <2>2 DEF LoadPerson, ShowLoading
    <2> QED
      BY <2>1, <2>2
  <1>6. Blank \in Plain /\ Blank \notin Persons
    BY BodyAssumption DEF Plain
  <1>7. BodyIsCurrent' /\ PanesAgree'
    BY <1>3, <1>5, <1>6 DEF BodyIsCurrent, PanesAgree
  <1>8. LastIsLatest' /\ QuietBefore' /\ CacheOwned'
    BY <1>1, <1>3 DEF LastIsLatest, QuietBefore, CacheOwned, Core
  <1>9. RetryIsCurrent' /\ SpinnerIsOwned' /\ UrlNamesNoOther'
    BY <1>1, <1>4 DEF RetryIsCurrent, SpinnerIsOwned, UrlNamesNoOther, NoError
  <1>10. Core'
    BY <1>4, <1>7, <1>8, <1>9 DEF Core
  <1>11. /\ body' \in Persons \cup Plain
         /\ pdXml' \in Persons \cup {None}
         /\ title' \in Persons \cup {None}
         /\ spinner' \in BOOLEAN
    BY <1>5, <1>6 DEF TypeOK
  <1>12. err' \in Persons \cup {None}
    BY <1>1 DEF NoError
  <1> QED
    BY <1>1, <1>3, <1>4, <1>10, <1>11, <1>12

-----------------------------------------------------------------------------
(* The page is loaded *)

LEMMA BootKeeps == IInv /\ Boot => IInv'
  <1> SUFFICES ASSUME IInv, Boot PROVE IInv'
    OBVIOUS
  <1> USE DEF IInv
  <1>1. loads = <<>> /\ err = NoError /\ clicks = 0
    BY DEF Boot, Core, QuietBefore
  <1>2. body' = Shell /\ Shell \notin Persons /\ Shell \in Plain
    BY BodyAssumption DEF Boot, Plain
  <1>3. /\ CacheOwned' /\ QuietBefore' /\ BodyIsCurrent' /\ PanesAgree'
        /\ RetryIsCurrent' /\ UrlNamesNoOther'
    BY <1>1, <1>2 DEF Boot, Core, CacheOwned, QuietBefore, BodyIsCurrent, PanesAgree,
       RetryIsCurrent, UrlNamesNoOther, NoError
  <1>4. CASE hist[pos] # None /\ Room(1)
    <2> DEFINE p == hist[pos]
    <2>1. p \in Persons
      BY <1>4 DEF TypeOK
    <2>2. /\ lastPid' = p /\ loads' = Append(loads, p) /\ Send(p)
          /\ spinner' = TRUE /\ outcome' = "loading" /\ clicks' = clicks
      BY <1>4 DEF Boot, later
    <2> HIDE DEF p
    <2>3. loads' \in Seq(Persons) /\ loads' # <<>> /\ Last(loads') = p
      BY <2>1, <2>2, LastOfAppend DEF TypeOK
    <2>4. requests' \subseteq Requests /\ AnswersKnown' /\ InFlight'
      BY <2>1, <2>2, SendKeeps DEF Core
    <2>5. LastIsLatest' /\ SpinnerIsOwned'
      BY <2>2, <2>3, <2>4 DEF LastIsLatest, SpinnerIsOwned
    <2>6. TypeOK'
      BY <1>2, <2>1, <2>2, <2>3, <2>4 DEF Boot, TypeOK, later, url
    <2> QED
      BY <1>3, <2>4, <2>5, <2>6 DEF Core
  <1>5. CASE ~(hist[pos] # None /\ Room(1))
    <2>1. UNCHANGED <<lastPid, loads, requests, spinner, outcome, clicks>>
      BY <1>5 DEF Boot, later
    <2>2. AnswersKnown' /\ LastIsLatest' /\ SpinnerIsOwned'
      BY <2>1 DEF Core, AnswersKnown, LastIsLatest, SpinnerIsOwned, InFlight, loadSeq
    <2>3. TypeOK'
      BY <1>2, <2>1 DEF Boot, TypeOK, later, url
    <2> QED
      BY <1>3, <2>2, <2>3 DEF Core
  <1> QED
    BY <1>4, <1>5

LEMMA RenderKeeps == IInv /\ Render => IInv'
  <1> SUFFICES ASSUME IInv, Render PROVE IInv'
    OBVIOUS
  <1> USE DEF IInv
  <1>1. booted /\ booted' = booted /\ personCache' = personCache
    BY DEF Render
  <1>2. CASE waiting
    <2>1. First \in Persons /\ LoadPerson(First)
      BY <1>2, PanelAssumption DEF Render, PanelAssumption
    <2>2. /\ UNCHANGED <<canAbort, panel, opened, clicks, hist, pos>>
          /\ rendered' = TRUE /\ waiting' = FALSE /\ timers' = timers + 1
      BY <1>2 DEF Render, url
    <2>3. /\ Core' /\ Data'
          /\ spinner' \in BOOLEAN
      BY <1>1, <2>1, <2>2, LoadKeeps DEF TypeOK, Data
    <2>4. Flags'
      BY <1>1, <2>2, <2>3, Zenon DEF TypeOK, Flags
    <2> QED
      BY <2>3, <2>4, TypePartsNext
  <1>3. CASE ~waiting
    <2>1. /\ UNCHANGED <<canAbort, booted, personCache, panel, opened, timers, clicks>>
          /\ UNCHANGED <<lastPid, loads, requests, outcome, hist, pos>>
          /\ UNCHANGED <<body, pdXml, title, err, spinner>>
      BY <1>3 DEF Render, shown, url
    <2>2. rendered' = TRUE /\ waiting' = FALSE
      BY DEF Render
    <2>3. Flags'
      BY <2>1, <2>2, Zenon DEF TypeOK, Flags
    <2>4. Data'
      BY <2>1 DEF TypeOK, Data
    <2> QED
      BY <1>1, <2>1, <2>3, <2>4, TypePartsNext DEF Core, CacheOwned, AnswersKnown,
         QuietBefore, LastIsLatest, BodyIsCurrent, PanesAgree, RetryIsCurrent, SpinnerIsOwned, UrlNamesNoOther,
         InFlight, loadSeq
  <1> QED
    BY <1>2, <1>3

LEMMA WaitTimerKeeps == IInv /\ WaitTimer => IInv'
  <1> SUFFICES ASSUME IInv, WaitTimer PROVE IInv'
    OBVIOUS
  <1> USE DEF IInv
  <1>1. body' = Info /\ Info \notin Persons /\ Info \in Plain
    BY BodyAssumption DEF WaitTimer, ShowInfo, Plain
  <1>2. /\ UNCHANGED <<canAbort, booted, rendered, lastPid, loads, requests, personCache>>
        /\ UNCHANGED <<panel, opened, clicks, hist, pos, outcome, pdXml, title>>
        /\ spinner' = FALSE
        /\ err' = NoError
    BY DEF WaitTimer, ShowInfo, script, url
  <1>3. TypeOK'
    <2>1. /\ waiting' = FALSE \/ waiting' = waiting
          /\ timers' = timers \/ (timers > 0 /\ timers' = timers - 1)
      BY DEF WaitTimer
    <2>2. err' \in Persons \cup {None}
      BY <1>2 DEF NoError
    <2>3. Flags'
      BY <1>2, <2>1, Zenon DEF TypeOK, Flags
    <2>4. Data'
      BY <1>1, <1>2, <2>1, <2>2 DEF TypeOK, Data
    <2> QED
      BY <2>3, <2>4, TypePartsNext
  <1> QED
    BY <1>1, <1>2, <1>3 DEF Core, CacheOwned, AnswersKnown, QuietBefore, LastIsLatest,
       BodyIsCurrent, PanesAgree, RetryIsCurrent, SpinnerIsOwned, UrlNamesNoOther,
       InFlight, loadSeq, NoError

\* The panel is shown: its banner is hidden, and nothing else.
LEMMA PanelShownKeeps == IInv /\ PanelShown => IInv'
  <1> SUFFICES ASSUME IInv, PanelShown PROVE IInv'
    OBVIOUS
  <1> USE DEF IInv
  <1>1. /\ panel = "opening" /\ panel' = "open" /\ err' = NoError
        /\ UNCHANGED <<canAbort, booted, rendered, lastPid, loads, requests, personCache>>
        /\ UNCHANGED <<opened, body, pdXml, title, spinner, clicks, waiting, timers>>
        /\ UNCHANGED <<hist, pos, outcome>>
    BY DEF PanelShown, script, later, url
  <1>2. Flags'
    BY <1>1, Zenon DEF TypeOK, Flags
  <1>3. Data'
    BY <1>1 DEF TypeOK, Data, NoError
  <1> QED
    BY <1>1, <1>2, <1>3, TypePartsNext DEF Core, CacheOwned, AnswersKnown, QuietBefore,
       LastIsLatest, BodyIsCurrent, PanesAgree, RetryIsCurrent, SpinnerIsOwned,
       UrlNamesNoOther, InFlight, loadSeq, NoError

-----------------------------------------------------------------------------
(* The user *)

\* A load is asked for, or the panel opens or closes: lastPid is left alone,
\* or a click is to come.
LEMMA AskKeeps ==
    ASSUME IInv, booted, clicks' \in Nat, clicks' >= clicks,
           panel' \in {"closed", "opening", "open"}, opened' \in BOOLEAN,
           lastPid' \in Persons \cup {None}, clicks' > 0 \/ lastPid' = lastPid,
           UNCHANGED <<canAbort, booted, rendered, loads, requests, personCache>>,
           UNCHANGED <<shown, waiting, timers, url, outcome>>
    PROVE  IInv'
  <1> USE DEF IInv
  <1>1. /\ UNCHANGED <<body, pdXml, title, err, spinner>>
        /\ UNCHANGED <<waiting, timers, hist, pos, outcome>>
    BY DEF shown, url
  <1>2. Flags'
    BY <1>1, Zenon DEF TypeOK, Flags
  <1>3. Data'
    BY <1>1 DEF TypeOK, Data
  <1>4. clicks \in Nat
    BY DEF TypeOK
  <1>5. CacheOwned' /\ AnswersKnown' /\ QuietBefore' /\ BodyIsCurrent' /\ PanesAgree'
        /\ RetryIsCurrent'
    BY <1>1 DEF Core, CacheOwned, AnswersKnown, QuietBefore, BodyIsCurrent, PanesAgree,
       RetryIsCurrent
  <1>6. LastIsLatest' /\ SpinnerIsOwned' /\ UrlNamesNoOther'
    BY <1>1, <1>4 DEF Core, LastIsLatest, SpinnerIsOwned, UrlNamesNoOther, InFlight, loadSeq
  <1> QED
    BY <1>2, <1>3, <1>5, <1>6, TypePartsNext DEF Core

LEMMA OpenAsks ==
    ASSUME TypeOK, NEW n \in {0, 1}, Open(n)
    PROVE  /\ clicks' \in Nat /\ clicks' >= clicks
           /\ n = 1 => clicks' > 0
           /\ panel' = "opening"
           /\ opened' \in BOOLEAN
  <1>1. clicks \in Nat
    BY DEF TypeOK
  <1>2. clicks' = clicks + n \/ clicks' = clicks + n + 1
    BY <1>1 DEF Open
  <1>3. panel' = "opening" /\ opened' = TRUE
    BY DEF Open
  <1>4. opened' \in BOOLEAN
    BY <1>3, Zenon
  <1> QED
    BY <1>1, <1>2, <1>3, <1>4

LEMMA ToggleKeeps == IInv /\ Toggle => IInv'
  <1> SUFFICES ASSUME IInv, Toggle PROVE IInv'
    OBVIOUS
  <1>1. booted /\ UNCHANGED <<script, shown, waiting, timers, url, outcome>>
    BY DEF Toggle
  <1>2. UNCHANGED <<canAbort, booted, rendered, lastPid, loads, requests, personCache>>
    BY <1>1 DEF script
  <1>3. UNCHANGED <<shown, waiting, timers, url, outcome>>
    BY <1>1
  <1>4. lastPid' \in Persons \cup {None} /\ clicks \in Nat /\ opened \in BOOLEAN
    BY <1>2 DEF IInv, TypeOK
  <1>5. CASE Open(0)
    BY <1>1, <1>2, <1>3, <1>4, <1>5, OpenAsks, AskKeeps DEF IInv
  <1>6. CASE panel' = "closed" /\ UNCHANGED <<opened, clicks>>
    <2>1. opened' \in BOOLEAN
      BY <1>4, <1>6, Zenon
    <2> QED
      BY <1>1, <1>2, <1>3, <1>4, <1>6, <2>1, AskKeeps
  <1> QED
    BY <1>5, <1>6 DEF Toggle

LEMMA DetailsKeeps == \A p \in Persons : IInv /\ Details(p) => IInv'
  <1> SUFFICES ASSUME NEW p \in Persons, IInv, Details(p) PROVE IInv'
    OBVIOUS
  <1>1. booted /\ UNCHANGED <<canAbort, booted, rendered, loads, requests, personCache>>
    BY DEF Details, IInv, Core, QuietBefore
  <1>2. UNCHANGED <<shown, waiting, timers, url, outcome>>
    BY DEF Details
  <1>3. /\ clicks \in Nat /\ opened \in BOOLEAN /\ lastPid \in Persons \cup {None}
        /\ panel \in {"closed", "opening", "open"}
    BY DEF IInv, TypeOK
  <1>4. CASE panel' = "closed" /\ UNCHANGED <<lastPid, opened, clicks>>
    <2>1. opened' \in BOOLEAN
      BY <1>3, <1>4, Zenon
    <2> QED
      BY <1>1, <1>2, <1>3, <1>4, <2>1, AskKeeps
  <1>5. CASE lastPid' = p /\ Open(1)
    BY <1>1, <1>2, <1>3, <1>5, OpenAsks, AskKeeps DEF IInv
  <1>6. CASE lastPid' = p /\ clicks' = clicks + 1 /\ UNCHANGED <<panel, opened>>
    <2>1. opened' \in BOOLEAN
      BY <1>3, <1>6, Zenon
    <2> QED
      BY <1>1, <1>2, <1>3, <1>6, <2>1, AskKeeps
  <1> QED
    BY <1>4, <1>5, <1>6 DEF Details

LEMMA InnerTabKeeps == IInv /\ InnerTab => IInv'
  <1> SUFFICES ASSUME IInv, InnerTab PROVE IInv'
    OBVIOUS
  <1>1. /\ UNCHANGED <<canAbort, booted, rendered, lastPid, loads, requests, personCache>>
        /\ UNCHANGED <<shown, waiting, timers, url, outcome>>
        /\ UNCHANGED <<panel, opened>>
    BY DEF InnerTab, script
  <1>2. booted
    BY DEF InnerTab, IInv, Core, QuietBefore
  <1>3. PICK n \in 1..2 : clicks' = clicks + n
    BY DEF InnerTab
  <1>4. /\ clicks \in Nat /\ lastPid \in Persons \cup {None}
        /\ panel \in {"closed", "opening", "open"}
    BY DEF IInv, TypeOK
  <1>5. opened' \in BOOLEAN
    BY <1>1, Zenon DEF IInv, TypeOK
  <1> QED
    BY <1>1, <1>2, <1>3, <1>4, <1>5, AskKeeps

LEMMA RunClickKeeps == IInv /\ RunClick => IInv'
  <1> SUFFICES ASSUME IInv, RunClick PROVE IInv'
    OBVIOUS
  <1> USE DEF IInv
  <1>1. /\ clicks > 0 /\ clicks' = clicks - 1
        /\ UNCHANGED <<canAbort, booted, rendered, personCache, panel, opened, timers>>
        /\ UNCHANGED <<hist, pos>>
    BY DEF RunClick, url
  <1>2. clicks \in Nat
    BY DEF TypeOK
  <1>3. booted
    BY <1>1, <1>2 DEF Core, QuietBefore
  <1>4. CASE lastPid # None \/ rendered
    <2> DEFINE p == IF lastPid # None THEN lastPid ELSE First
    <2>1. p \in Persons
      BY PanelAssumption DEF TypeOK, PanelAssumption
    <2>2. LoadPerson(p) /\ waiting' = waiting
      BY <1>4 DEF RunClick, LoadLastOrFirst
    <2> HIDE DEF p
    <2>3. Core' /\ Data' /\ spinner' \in BOOLEAN
      BY <1>1, <1>2, <1>3, <2>1, <2>2, LoadKeeps DEF TypeOK, Data
    <2>4. Flags'
      BY <1>1, <2>2, <2>3, Zenon DEF TypeOK, Flags
    <2> QED
      BY <2>3, <2>4, TypePartsNext
  <1>5. CASE ~(lastPid # None \/ rendered)
    <2>1. /\ body' = Shell /\ Shell \notin Persons /\ Shell \in Plain
          /\ waiting' = TRUE /\ spinner' = FALSE /\ err' = NoError
          /\ UNCHANGED <<lastPid, loads, requests, pdXml, title, outcome>>
      BY <1>5, BodyAssumption DEF RunClick, LoadLastOrFirst, Plain
    <2>2. Flags'
      BY <1>1, <2>1, Zenon DEF TypeOK, Flags
    <2>3. Data'
      BY <1>1, <1>2, <2>1 DEF TypeOK, Data, NoError
    <2>4. CacheOwned' /\ AnswersKnown' /\ QuietBefore' /\ LastIsLatest'
      BY <1>1, <1>2, <1>3, <1>5, <2>1 DEF Core, CacheOwned, AnswersKnown, QuietBefore,
         LastIsLatest
    <2> QED
      BY <2>1, <2>2, <2>3, <2>4, TypePartsNext DEF Core, BodyIsCurrent, PanesAgree,
         RetryIsCurrent, SpinnerIsOwned, UrlNamesNoOther, NoError
  <1> QED
    BY <1>4, <1>5

LEMMA RetryKeeps == IInv /\ Retry => IInv'
  <1> SUFFICES ASSUME IInv, Retry PROVE IInv'
    OBVIOUS
  <1> USE DEF IInv
  <1>1. /\ UNCHANGED <<canAbort, booted, rendered, personCache, panel, opened>>
        /\ UNCHANGED <<clicks, waiting, timers, hist, pos>>
    BY DEF Retry, later, url
  <1>2. booted /\ err \in Persons /\ LoadPerson(err)
    BY DEF Retry, TypeOK, Core, QuietBefore, NoError
  <1>3. Core' /\ Data' /\ spinner' \in BOOLEAN
    BY <1>1, <1>2, LoadKeeps DEF TypeOK, Data
  <1>4. Flags'
    BY <1>1, <1>3, Zenon DEF TypeOK, Flags
  <1> QED
    BY <1>3, <1>4, TypePartsNext

\* A history entry that is not loaded is empty or names lastPid, which is the
\* person shown unless a click is still to run.
LEMMA TravelKeeps == IInv /\ Travel => IInv'
  <1> SUFFICES ASSUME IInv, Travel PROVE IInv'
    OBVIOUS
  <1> USE DEF IInv
  <1>1. /\ UNCHANGED <<canAbort, booted, rendered, personCache, panel, opened>>
        /\ UNCHANGED <<clicks, waiting, timers, hist>>
        /\ booted
        /\ pos' \in DOMAIN hist
    BY DEF Travel, later
  <1>2. pos' \in 1..Len(hist) /\ hist[pos'] \in Persons \cup {None}
    BY <1>1 DEF TypeOK
  <1>3. CASE hist[pos'] \notin {None, lastPid}
    <2>1. hist[pos'] \in Persons /\ LoadPerson(hist[pos'])
      BY <1>2, <1>3 DEF Travel
    <2>2. Core' /\ Data' /\ spinner' \in BOOLEAN
      BY <1>1, <1>2, <2>1, LoadKeeps DEF TypeOK, Data
    <2>3. Flags'
      BY <1>1, <2>2, Zenon DEF TypeOK, Flags
    <2> QED
      BY <2>2, <2>3, TypePartsNext
  <1>4. CASE hist[pos'] \in {None, lastPid}
    <2>1. UNCHANGED <<lastPid, loads, requests, body, pdXml, title, err, spinner, outcome>>
      BY <1>4 DEF Travel, shown
    <2>2. Flags'
      BY <1>1, <2>1, Zenon DEF TypeOK, Flags
    <2>3. Data'
      BY <1>1, <1>2, <2>1 DEF TypeOK, Data
    <2>4. UrlNamesNoOther'
      BY <1>1, <1>4, <2>1 DEF Core, UrlNamesNoOther, LastIsLatest, BodyIsCurrent
    <2> QED
      BY <1>1, <2>1, <2>2, <2>3, <2>4, TypePartsNext DEF Core, CacheOwned, AnswersKnown,
         QuietBefore, LastIsLatest, BodyIsCurrent, PanesAgree, RetryIsCurrent,
         SpinnerIsOwned, InFlight, loadSeq
  <1> QED
    BY <1>3, <1>4

LEMMA SubmitKeeps == IInv /\ Submit => IInv'
  <1> SUFFICES ASSUME IInv, Submit PROVE IInv'
    OBVIOUS
  <1> USE DEF IInv
  <1>1. /\ UNCHANGED <<canAbort, booted, rendered, loads, requests, panel, opened>>
        /\ UNCHANGED <<pdXml, title, clicks, waiting, timers, pos, outcome>>
        /\ booted
        /\ lastPid' = None
        /\ personCache' = [p \in Persons |-> None]
        /\ err' = NoError
        /\ spinner' = TRUE
        /\ body' = Blank
        /\ hist' = [hist EXCEPT ![pos] = None]
    BY DEF Submit, Forgotten, later
  <1>2. Blank \in Plain /\ Blank \notin Persons
    BY BodyAssumption DEF Plain
  <1>3. hist' \in Seq(Persons \cup {None}) /\ pos' \in 1..Len(hist')
    BY <1>1 DEF TypeOK
  <1>4. Flags'
    BY <1>1, Zenon DEF TypeOK, Flags
  <1>5. Data'
    BY <1>1, <1>2, <1>3 DEF TypeOK, Data, NoError
  <1> QED
    BY <1>1, <1>2, <1>4, <1>5, TypePartsNext DEF Core, CacheOwned, AnswersKnown,
       QuietBefore, LastIsLatest, BodyIsCurrent, PanesAgree, RetryIsCurrent,
       SpinnerIsOwned, UrlNamesNoOther, NoError

-----------------------------------------------------------------------------
(* Answers *)

\* The request of the latest load is of the person asked for last.
LEMMA LatestIsLast ==
    ASSUME IInv, NEW r \in requests
    PROVE  /\ r.pid \in Persons
           /\ booted /\ loads # <<>>
           /\ IsLatest(r) => r.pid = Last(loads)
  <1>1. r.seq \in 1..Len(loads) /\ r.pid = loads[r.seq] /\ loads \in Seq(Persons)
    BY DEF IInv, TypeOK, Core, AnswersKnown
  <1>2. loads # <<>> /\ loads[r.seq] \in Persons
    BY <1>1
  <1>3. booted
    BY <1>2 DEF IInv, Core, QuietBefore
  <1> QED
    BY <1>1, <1>2, <1>3 DEF IsLatest, loadSeq, Last

\* An answer that is not of the latest load changes nothing but the requests.
LEMMA StaleKeeps ==
    ASSUME IInv, NEW r \in requests, ~IsLatest(r), requests' = requests \ {r},
           UNCHANGED <<canAbort, booted, rendered, lastPid, loads, personCache>>,
           UNCHANGED <<panel, opened, clicks, waiting, timers, hist, pos, outcome>>,
           UNCHANGED <<body, pdXml, title, err, spinner>>
    PROVE  IInv'
  <1> USE DEF IInv
  <1>1. Flags'
    BY Zenon DEF TypeOK, Flags
  <1>2. Data'
    BY DEF TypeOK, Data
  <1>3. SpinnerIsOwned'
    BY DEF Core, SpinnerIsOwned, InFlight, IsLatest, loadSeq
  <1> QED
    BY <1>1, <1>2, <1>3, TypePartsNext DEF Core, CacheOwned, AnswersKnown, QuietBefore,
       LastIsLatest, BodyIsCurrent, PanesAgree, RetryIsCurrent, UrlNamesNoOther

\* The URL of a load that has succeeded is its person's.
LEMMA UrlVisited ==
    ASSUME TypeOK, NEW p \in Persons, VisitUrl(p)
    PROVE  /\ hist' \in Seq(Persons \cup {None})
           /\ pos' \in 1..Len(hist')
           /\ hist'[pos'] = p
  <1>1. hist \in Seq(Persons \cup {None}) /\ pos \in 1..Len(hist)
    BY DEF TypeOK
  <1>2. CASE hist[pos] # None
    <2> DEFINE kept == SubSeq(hist, 1, pos)
    <2>1. hist' = Append(kept, p) /\ pos' = pos + 1
      BY <1>2 DEF VisitUrl
    <2>2. kept \in Seq(Persons \cup {None}) /\ Len(kept) = pos
      BY <1>1
    <2> HIDE DEF kept
    <2> QED
      BY <1>1, <2>1, <2>2, LastOfAppend
  <1>3. CASE hist[pos] = None
    BY <1>1, <1>3 DEF VisitUrl
  <1> QED
    BY <1>2, <1>3

LEMMA AnsweredKeeps == \A r \in requests : IInv /\ Answered(r) => IInv'
  <1> SUFFICES ASSUME NEW r \in requests, IInv, Answered(r) PROVE IInv'
    OBVIOUS
  <1>1. /\ requests' = requests \ {r}
        /\ UNCHANGED <<canAbort, booted, rendered, lastPid, loads, panel, opened>>
        /\ UNCHANGED <<clicks, waiting, timers>>
    BY DEF Answered, later
  <1>2. CASE ~IsLatest(r)
    <2>1. UNCHANGED <<personCache, body, pdXml, title, err, spinner, hist, pos, outcome>>
      BY <1>2 DEF Answered, shown, url
    <2> QED
      BY <1>1, <1>2, <2>1, StaleKeeps
  <1>3. CASE IsLatest(r)
    <2> USE DEF IInv
    <2> DEFINE p == r.pid
    <2>1. p \in Persons /\ p = Last(loads) /\ loads # <<>> /\ booted
      BY <1>3, LatestIsLast
    <2>2. /\ \E full \in BOOLEAN : personCache' = Kept(p, full)
          /\ body' = p /\ spinner' = FALSE /\ err' = NoError
          /\ pdXml' = p /\ title' = p /\ VisitUrl(p) /\ outcome' = "shown"
      BY <1>3 DEF Answered, SetPanes
    <2> HIDE DEF p
    <2>3. personCache' \in [Persons -> Persons \cup {None}] /\ CacheOwned'
      BY <2>1, <2>2 DEF Kept, TypeOK, Core, CacheOwned
    <2>4. hist' \in Seq(Persons \cup {None}) /\ pos' \in 1..Len(hist') /\ hist'[pos'] = p
      BY <2>1, <2>2, UrlVisited
    <2>5. Flags'
      BY <1>1, <2>2, Zenon DEF TypeOK, Flags
    <2>6. Data'
      BY <1>1, <2>1, <2>2, <2>3, <2>4 DEF TypeOK, Data, NoError
    <2>7. AnswersKnown' /\ QuietBefore' /\ LastIsLatest' /\ SpinnerIsOwned'
      BY <1>1, <2>1, <2>2 DEF Core, AnswersKnown, QuietBefore, LastIsLatest, SpinnerIsOwned
    <2>8. BodyIsCurrent' /\ PanesAgree' /\ RetryIsCurrent' /\ UrlNamesNoOther'
      BY <1>1, <2>1, <2>2, <2>4 DEF BodyIsCurrent, PanesAgree, RetryIsCurrent,
         UrlNamesNoOther, NoError
    <2> QED
      BY <2>3, <2>5, <2>6, <2>7, <2>8, TypePartsNext DEF Core
  <1> QED
    BY <1>2, <1>3

LEMMA FailedKeeps == \A r \in requests : IInv /\ Failed(r) => IInv'
  <1> SUFFICES ASSUME NEW r \in requests, IInv, Failed(r) PROVE IInv'
    OBVIOUS
  <1>1. /\ requests' = requests \ {r}
        /\ UNCHANGED <<canAbort, booted, rendered, lastPid, loads, personCache>>
        /\ UNCHANGED <<panel, opened, body, pdXml, title, clicks, waiting, timers, hist, pos>>
    BY DEF Failed, later, url
  <1>2. CASE ~IsLatest(r)
    <2>1. UNCHANGED <<err, spinner, outcome>>
      BY <1>2 DEF Failed
    <2> QED
      BY <1>1, <1>2, <2>1, StaleKeeps
  <1>3. CASE IsLatest(r)
    <2> USE DEF IInv
    <2>1. r.pid \in Persons /\ r.pid = Last(loads) /\ loads # <<>> /\ booted
      BY <1>3, LatestIsLast
    <2>4. err' = r.pid /\ err' \in Persons \cup {None}
      BY <1>3, <2>1 DEF Failed
    <2>5. spinner' = FALSE /\ outcome' = "failed"
      BY <1>3 DEF Failed, StopSpinner
    <2>6. Flags'
      BY <1>1, <2>5, Zenon DEF TypeOK, Flags
    <2>7. Data'
      BY <1>1, <2>4, <2>5 DEF TypeOK, Data
    <2> QED
      BY <1>1, <2>1, <2>4, <2>5, <2>6, <2>7, TypePartsNext DEF Core, CacheOwned,
         AnswersKnown, QuietBefore, LastIsLatest, BodyIsCurrent, PanesAgree,
         RetryIsCurrent, SpinnerIsOwned, UrlNamesNoOther
  <1> QED
    BY <1>2, <1>3

LEMMA RejectedKeeps == \A r \in requests : IInv /\ Rejected(r) => IInv'
  <1> SUFFICES ASSUME NEW r \in requests, IInv, Rejected(r) PROVE IInv'
    OBVIOUS
  <1>1. /\ requests' = requests \ {r}
        /\ UNCHANGED <<canAbort, booted, rendered, lastPid, loads, personCache, outcome>>
        /\ UNCHANGED <<panel, opened, body, pdXml, title, clicks, waiting, timers, hist, pos>>
    BY DEF Rejected, later, url
  <1>2. CASE ~IsLatest(r)
    <2>1. UNCHANGED <<err, spinner>>
      BY <1>2 DEF Rejected
    <2> QED
      BY <1>1, <1>2, <2>1, StaleKeeps
  <1>3. CASE IsLatest(r)
    <2> USE DEF IInv
    <2>1. spinner' = FALSE /\ err' = NoError /\ booted
      BY <1>3, LatestIsLast DEF Rejected, StopSpinner
    <2>2. Flags'
      BY <1>1, <2>1, Zenon DEF TypeOK, Flags
    <2>3. Data'
      BY <1>1, <2>1 DEF TypeOK, Data, NoError
    <2> QED
      BY <1>1, <2>1, <2>2, <2>3, TypePartsNext DEF Core, CacheOwned, AnswersKnown,
         QuietBefore, LastIsLatest, BodyIsCurrent, PanesAgree, RetryIsCurrent,
         SpinnerIsOwned, UrlNamesNoOther, NoError
  <1> QED
    BY <1>2, <1>3

-----------------------------------------------------------------------------

LEMMA RestKeeps == IInv /\ UNCHANGED vars => IInv'
  <1> SUFFICES ASSUME IInv, UNCHANGED vars PROVE IInv'
    OBVIOUS
  <1> USE DEF IInv
  <1>1. /\ UNCHANGED <<canAbort, booted, rendered, lastPid, loads, requests, personCache>>
        /\ UNCHANGED <<panel, opened, body, pdXml, title, err, spinner>>
        /\ UNCHANGED <<clicks, waiting, timers, hist, pos, outcome>>
    BY DEF vars, script, shown, later, url
  <1>2. Flags'
    BY <1>1, Zenon DEF TypeOK, Flags
  <1>3. Data'
    BY <1>1 DEF TypeOK, Data
  <1> QED
    BY <1>1, <1>2, <1>3, TypePartsNext DEF Core, CacheOwned, AnswersKnown, QuietBefore,
       LastIsLatest, BodyIsCurrent, PanesAgree, RetryIsCurrent, SpinnerIsOwned,
       UrlNamesNoOther, InFlight, loadSeq

LEMMA NextKeeps == IInv /\ [Next]_vars => IInv'
  <1> SUFFICES ASSUME IInv, [Next]_vars PROVE IInv'
    OBVIOUS
  <1>1. CASE Page
    BY <1>1, BootKeeps, RenderKeeps, WaitTimerKeeps, PanelShownKeeps, RunClickKeeps DEF Page
  <1>2. CASE User
    BY <1>2, ToggleKeeps, InnerTabKeeps, RetryKeeps, TravelKeeps, SubmitKeeps, DetailsKeeps
       DEF User
  <1>3. CASE Network
    BY <1>3, AnsweredKeeps, FailedKeeps, RejectedKeeps DEF Network
  <1>4. CASE Rest \/ UNCHANGED vars
    BY <1>4, RestKeeps DEF Rest
  <1> QED
    BY <1>1, <1>2, <1>3, <1>4 DEF Next

THEOREM Invariance == Spec => []IInv
  <1>1. Init => IInv
    BY InitHolds
  <1>2. IInv /\ [Next]_vars => IInv'
    BY NextKeeps
  <1> QED
    BY <1>1, <1>2, PTL DEF Spec

\* The variables of the panel keep their types.
THEOREM TypeCorrect == Spec => []TypeOK
  <1>1. IInv => TypeOK
    BY DEF IInv
  <1> QED
    BY <1>1, Invariance, PTL

\* loadPerson: the body shows no person but the one asked for last, for any
\* number of overlapping loads and any order of their answers.
THEOREM BodyNeverStale == Spec => []BodyIsCurrent
  <1>1. IInv => BodyIsCurrent
    BY DEF IInv, Core
  <1> QED
    BY <1>1, Invariance, PTL

\* setPdXml and updateHeaderWithOfficialName follow the body.
THEOREM OnePersonShown == Spec => []PanesAgree
  <1>1. IInv => PanesAgree
    BY DEF IInv, Core
  <1> QED
    BY <1>1, Invariance, PTL

\* The Retry button repeats the load asked for last.
THEOREM RetryRepeatsLast == Spec => []RetryIsCurrent
  <1>1. IInv => RetryIsCurrent
    BY DEF IInv, Core
  <1> QED
    BY <1>1, Invariance, PTL

\* The spinner turns for a load under way or about to begin.
THEOREM SpinnerHasOwner == Spec => []SpinnerIsOwned
  <1>1. IInv => SpinnerIsOwned
    BY DEF IInv, Core
  <1> QED
    BY <1>1, Invariance, PTL

\* pushState, replaceState and popstate: the URL names no other person than
\* the one that is shown.
THEOREM UrlFollowsPanel == Spec => []UrlNamesNoOther
  <1>1. IInv => UrlNamesNoOther
    BY DEF IInv, Core
  <1> QED
    BY <1>1, Invariance, PTL

-----------------------------------------------------------------------------
(***************************************************************************)
(* Documents.  What is joined holds what its parts hold; what is shown of an *)
(* element is its table and what is shown of its sections; so everything to *)
(* read in a person is in one of the items of its card.                     *)
(*                                                                         *)
(* The recursions of PeopleXml run along a document, forwards or backwards. *)
(* That each has a solution, and what it holds, is shown by induction on    *)
(* the position in the document.                                            *)
(***************************************************************************)

\* The least number of a set.
LEMMA LeastNumber ==
    ASSUME NEW T \in SUBSET Nat, T # {}
    PROVE  \E n \in T : \A m \in T : n <= m
<1>1. IsWellFoundedOn(OpToRel(<, Nat), Nat)
  BY NatLessThanWellFounded
<1>2. \E n \in T : \A m \in T : ~(<<m, n>> \in OpToRel(<, Nat))
  BY <1>1, WFMin
<1>3. \E n \in T : \A m \in T : ~(m < n)
  BY <1>2 DEF OpToRel
<1>4. QED
  BY <1>3

\* Induction, for a set in place of a predicate.
LEMMA Induction ==
    ASSUME NEW T \in SUBSET Nat, 0 \in T, \A n \in T : n + 1 \in T
    PROVE  T = Nat
<1>1. SUFFICES ASSUME Nat \ T # {} PROVE FALSE
  OBVIOUS
<1>2. PICK n \in Nat \ T : \A m \in Nat \ T : n <= m
  BY <1>1, LeastNumber
<1>3. n - 1 \in T /\ (n - 1) + 1 = n
  BY <1>2
<1>4. QED
  BY <1>2, <1>3

\* A recursion along the elements has a solution: the function that Joined is.
LEMMA JoinedStep ==
    ASSUME NEW d, NEW f, Len(d.tag) \in Nat
    PROVE  /\ Joined(d, f)[0] = <<>>
           /\ \A n \in 1..Len(d.tag) :
                Joined(d, f)[n] = IF n \in DOMAIN f THEN Joined(d, f)[n - 1] \o f[n]
                                  ELSE Joined(d, f)[n - 1]
<1> DEFINE Extend(j, n) == IF n = 0 THEN <<>>
                           ELSE IF n \in DOMAIN f THEN j[n - 1] \o f[n] ELSE j[n - 1]
           Scan(j, k) == j = [n \in 0..k |-> Extend(j, n)]
           T == {k \in Nat : \E j : Scan(j, k)}
           L == Len(d.tag)
<1>1. 0 \in T
  <2>1. Scan([n \in 0..0 |-> <<>>], 0)
    OBVIOUS
  <2>2. QED
    BY <2>1
<1>2. ASSUME NEW k \in T
      PROVE  k + 1 \in T
  <2>1. k \in Nat
    OBVIOUS
  <2>2. PICK j : j = [n \in 0..k |-> Extend(j, n)]
    OBVIOUS
  <2> DEFINE g == [n \in 0..(k + 1) |-> IF n = k + 1 THEN Extend(j, n) ELSE j[n]]
  <2>3. \A n \in 0..k : g[n] = j[n]
    BY <2>1
  <2>4. \A n \in 0..(k + 1) : Extend(g, n) = Extend(j, n)
    <3> HIDE DEF g
    <3>1. \A n \in 0..(k + 1) : n # 0 => g[n - 1] = j[n - 1]
      <4>1. \A n \in 0..(k + 1) : n # 0 => n - 1 \in 0..k
        BY <2>1
      <4>2. QED
        BY <2>3, <4>1
    <3>2. QED
      BY <3>1
  <2>5. \A n \in 0..(k + 1) : g[n] = Extend(j, n)
    <3>1. \A n \in 0..k : j[n] = Extend(j, n)
      BY <2>2
    <3>2. \A n \in 0..(k + 1) : n = k + 1 \/ n \in 0..k
      BY <2>1
    <3> HIDE DEF Extend
    <3>3. QED
      BY <3>1, <3>2
  <2>6. g = [n \in 0..(k + 1) |-> Extend(g, n)]
    <3> HIDE DEF Extend
    <3>1. \A n \in 0..(k + 1) : g[n] = Extend(g, n)
      BY <2>4, <2>5
    <3>2. g = [n \in 0..(k + 1) |-> g[n]]
      OBVIOUS
    <3> HIDE DEF g
    <3>3. QED
      BY <3>1, <3>2
  <2>7. QED
    <3> HIDE DEF g, Extend
    <3>1. QED
      BY <2>1, <2>6
<1>3. T = Nat
  <2> HIDE DEF T
  <2>1. T \in SUBSET Nat
    BY DEF T
  <2>2. QED
    BY <1>1, <1>2, <2>1, Induction
<1>4. L \in T
  <2> HIDE DEF T
  <2>1. QED
    BY <1>3
<1>5. \E j : Scan(j, L)
  BY <1>4
<1>6. Joined(d, f) = CHOOSE j : Scan(j, L)
  BY DEF Joined
<1>7. Scan(Joined(d, f), L)
  <2> HIDE DEF Scan
  <2>1. QED
    BY <1>5, <1>6
<1> DEFINE p == Joined(d, f)
<1>8. p = [n \in 0..L |-> Extend(p, n)]
  BY <1>7
<1> HIDE DEF p, L
<1>9. \A n \in 0..L : p[n] = Extend(p, n)
  <2> HIDE DEF Extend
  <2>1. QED
    BY <1>8
<1>10. QED
  <2>1. L \in Nat
    BY DEF L
  <2>2. 0 \in 0..L /\ \A n \in 1..L : n \in 0..L /\ n # 0
    BY <2>1
  <2>3. p[0] = <<>>
    BY <1>9, <2>2
  <2>4. \A n \in 1..L : p[n] = IF n \in DOMAIN f THEN p[n - 1] \o f[n] ELSE p[n - 1]
    BY <1>9, <2>2
  <2>5. QED
    BY <2>3, <2>4 DEF p, L

LEMMA RangeOfConcat ==
    ASSUME NEW R, NEW s \in Seq(R), NEW t \in Seq(R)
    PROVE  s \o t \in Seq(R) /\ ToSet(s \o t) = ToSet(s) \cup ToSet(t)
<1> DEFINE u == s \o t
           m == Len(s)
           n == Len(t)
<1>1. /\ u \in Seq(R) /\ Len(u) = m + n
      /\ \A i \in 1..m : u[i] = s[i]
      /\ \A i \in 1..n : u[m + i] = t[i]
  OBVIOUS
<1>2. /\ m \in Nat /\ n \in Nat
      /\ DOMAIN u = 1..(m + n) /\ DOMAIN s = 1..m /\ DOMAIN t = 1..n
  BY <1>1
<1> HIDE DEF u, m, n
<1>3. ASSUME NEW x \in ToSet(u)
      PROVE  x \in ToSet(s) \cup ToSet(t)
  <2>1. PICK i \in 1..(m + n) : x = u[i]
    BY <1>2 DEF ToSet
  <2>2. CASE i <= m
    <3>1. i \in 1..m
      BY <1>2, <2>2
    <3>2. QED
      BY <1>1, <1>2, <2>1, <3>1 DEF ToSet
  <2>3. CASE i > m
    <3>1. i - m \in 1..n /\ m + (i - m) = i
      BY <1>2, <2>3
    <3>2. u[i] = t[i - m]
      BY <1>1, <3>1
    <3>3. QED
      BY <1>2, <2>1, <3>1, <3>2 DEF ToSet
  <2>4. QED
    BY <1>2, <2>2, <2>3
<1>4. ASSUME NEW x \in ToSet(s)
      PROVE  x \in ToSet(u)
  <2>1. PICK i \in 1..m : x = s[i]
    BY <1>2 DEF ToSet
  <2>2. i \in 1..(m + n)
    BY <1>2
  <2>3. QED
    BY <1>1, <1>2, <2>1, <2>2 DEF ToSet
<1>5. ASSUME NEW x \in ToSet(t)
      PROVE  x \in ToSet(u)
  <2>1. PICK i \in 1..n : x = t[i]
    BY <1>2 DEF ToSet
  <2>2. m + i \in 1..(m + n)
    BY <1>2
  <2>3. QED
    BY <1>1, <1>2, <2>1, <2>2 DEF ToSet
<1>6. QED
  BY <1>1, <1>3, <1>4, <1>5 DEF u

LEMMA RangeOfNone == ToSet(<<>>) = {}
  BY DEF ToSet

\* What is joined holds what its parts hold, and nothing else.
LEMMA InTurnRange ==
    ASSUME NEW d, NEW R, NEW f, Len(d.tag) \in Nat, DOMAIN f \subseteq 1..Len(d.tag),
           \A k \in DOMAIN f : f[k] \in Seq(R)
    PROVE  /\ InTurn(d, f) \in Seq(R)
           /\ \A x : x \in ToSet(InTurn(d, f)) <=> \E k \in DOMAIN f : x \in ToSet(f[k])
<1> DEFINE L == Len(d.tag)
           j == Joined(d, f)
           Upto(n) == UNION {ToSet(f[k]) : k \in {k \in DOMAIN f : k <= n}}
           P(n) == j[n] \in Seq(R) /\ ToSet(j[n]) = Upto(n)
           T == {n \in Nat : n <= L => P(n)}
<1>0. /\ j[0] = <<>>
      /\ \A n \in 1..L : j[n] = IF n \in DOMAIN f THEN j[n - 1] \o f[n] ELSE j[n - 1]
  BY JoinedStep
<1>1. L \in Nat /\ DOMAIN f \subseteq 1..L
  OBVIOUS
<1> HIDE DEF j, L
<1>2. P(0)
  <2>1. {k \in DOMAIN f : k <= 0} = {}
    BY <1>1
  <2>2. Upto(0) = {}
    BY <2>1
  <2>3. <<>> \in Seq(R)
    OBVIOUS
  <2>4. QED
    BY <1>0, <2>2, <2>3, RangeOfNone
<1>3. ASSUME NEW n \in T
      PROVE  n + 1 \in T
  <2>1. SUFFICES ASSUME n + 1 <= L
                 PROVE  P(n + 1)
    OBVIOUS
  <2>2. n \in Nat /\ n + 1 \in 1..L /\ (n + 1) - 1 = n /\ P(n)
    BY <1>1, <2>1
  <2>3. j[n + 1] = IF n + 1 \in DOMAIN f THEN j[n] \o f[n + 1] ELSE j[n]
    BY <1>0, <2>2
  <2>4. CASE n + 1 \in DOMAIN f
    <3>1. {k \in DOMAIN f : k <= n + 1} = {k \in DOMAIN f : k <= n} \cup {n + 1}
      BY <1>1, <2>2, <2>4
    <3>2. Upto(n + 1) = Upto(n) \cup ToSet(f[n + 1])
      BY <3>1
    <3> HIDE DEF Upto
    <3>3. f[n + 1] \in Seq(R) /\ j[n] \in Seq(R)
      BY <2>2, <2>4
    <3>4. j[n] \o f[n + 1] \in Seq(R) /\ ToSet(j[n] \o f[n + 1]) = ToSet(j[n]) \cup ToSet(f[n + 1])
      BY <3>3, RangeOfConcat
    <3>5. QED
      BY <2>2, <2>3, <2>4, <3>2, <3>4
  <2>5. CASE n + 1 \notin DOMAIN f
    <3>1. {k \in DOMAIN f : k <= n + 1} = {k \in DOMAIN f : k <= n}
      BY <1>1, <2>2, <2>5
    <3>2. Upto(n + 1) = Upto(n)
      BY <3>1
    <3> HIDE DEF Upto
    <3>3. QED
      BY <2>2, <2>3, <2>5, <3>2
  <2>6. QED
    BY <2>4, <2>5
<1>4. T = Nat
  <2>1. 0 \in T
    BY <1>2
  <2> HIDE DEF P
  <2>2. T \in SUBSET Nat
    OBVIOUS
  <2> HIDE DEF T
  <2>3. QED
    BY <1>3, <2>1, <2>2, Induction
<1>5. P(L)
  <2> HIDE DEF P
  <2>1. L \in T /\ L <= L
    BY <1>1, <1>4
  <2>2. QED
    BY <2>1
<1>6. {k \in DOMAIN f : k <= L} = DOMAIN f
  <2>1. \A k \in DOMAIN f : k <= L
    BY <1>1
  <2>2. QED
    BY <2>1
<1>7. InTurn(d, f) = j[L]
  BY DEF InTurn, j, L
<1>8. ToSet(j[L]) = UNION {ToSet(f[k]) : k \in DOMAIN f}
  BY <1>5, <1>6
<1>9. QED
  BY <1>5, <1>7, <1>8

\* What IsDocument says, an element at a time.
LEMMA DocumentFacts ==
    ASSUME NEW d, IsDocument(d)
    PROVE  /\ Len(d.tag) \in Nat
           /\ Elements(d) = 1..Len(d.tag)
           /\ \A e \in Elements(d) :
                 /\ e \in Nat /\ d.parent[e] \in Nat
                 /\ d.parent[e] < e
                 /\ e > 1 => d.parent[e] \in Elements(d)
           /\ \A e \in Elements(d) : \A x \in d.parent[e] + 1..e : d.parent[x] >= d.parent[e]
<1> DEFINE L == Len(d.tag)
           E == Elements(d)
<1>1. /\ L \in Nat /\ E = 1..L
      /\ \A e \in E : d.parent[e] \in 0..e - 1 /\ (e > 1 => d.parent[e] > 0)
      /\ \A e \in E : \A x \in d.parent[e] + 1..e : d.parent[x] >= d.parent[e]
  BY Zenon DEF IsDocument
<1> HIDE DEF L, E
<1>2. ASSUME NEW e \in E
      PROVE  /\ e \in Nat /\ d.parent[e] \in Nat
             /\ d.parent[e] < e
             /\ e > 1 => d.parent[e] \in E
  <2>1. e \in Nat /\ d.parent[e] \in 0..e - 1 /\ (e > 1 => d.parent[e] > 0)
    BY <1>1
  <2>2. QED
    BY <1>1, <2>1
<1>3. QED
  BY <1>1, <1>2 DEF L, E

\* The children that get a section are children, and come later.
LEMMA SectionsAreKids ==
    ASSUME NEW d, IsDocument(d), NEW e \in Elements(d)
    PROVE  /\ groupChildrenByName(d, e) \subseteq Elements(d)
           /\ \A k \in groupChildrenByName(d, e) : k > e
<1>1. \A k \in groupChildrenByName(d, e) : k \in Elements(d) /\ d.parent[k] = e
  BY DEF groupChildrenByName, Kids
<1>2. \A k \in Elements(d) : d.parent[k] = e => k > e
  BY DocumentFacts
<1>3. QED
  BY <1>1, <1>2

\* The walk over an element and its sections has a result: what it makes of an
\* element depends on later elements alone.
LEMMA ContentStep ==
    ASSUME NEW d, IsDocument(d)
    PROVE  \A e \in Elements(d) :
             buildNodeContent(d)[e] =
               Table(d, e) \o InTurn(d, [k \in groupChildrenByName(d, e) |-> buildNodeContent(d)[k]])
<1> DEFINE L == Len(d.tag)
           G(e) == groupChildrenByName(d, e)
           Extend(c, e) == Table(d, e) \o InTurn(d, [k \in G(e) |-> c[k]])
           Scan(c, m) == c = [e \in (L - m + 1)..L |-> Extend(c, e)]
           T == {m \in Nat : m <= L => \E c : Scan(c, m)}
<1>0. L \in Nat /\ Elements(d) = 1..L /\ \A e \in 1..L : G(e) \subseteq 1..L /\ \A k \in G(e) : k > e
  BY DocumentFacts, SectionsAreKids
<1> HIDE DEF L, G
<1>1. 0 \in T
  <2>1. (L - 0 + 1)..L = {}
    BY <1>0
  <2>2. Scan([e \in {} |-> <<>>], 0)
    BY <2>1
  <2>3. QED
    BY <2>2
<1>2. ASSUME NEW m \in T
      PROVE  m + 1 \in T
  <2>1. SUFFICES ASSUME m + 1 <= L
                 PROVE  \E c : Scan(c, m + 1)
    OBVIOUS
  <2>2. m \in Nat /\ m <= L /\ L - (m + 1) + 1 = L - m
    BY <1>0, <2>1
  <2>3. PICK c : c = [e \in (L - m + 1)..L |-> Extend(c, e)]
    BY <2>2
  <2> DEFINE D == (L - m)..L
             g == [e \in D |-> IF e = L - m THEN Extend(c, e) ELSE c[e]]
  <2>4. \A e \in D : e \in 1..L /\ \A k \in G(e) : k \in D /\ k # L - m
    BY <1>0, <2>1, <2>2
  <2>5. \A e \in D : e = L - m \/ e \in (L - m + 1)..L
    BY <1>0, <2>1, <2>2
  <2>6. \A e \in D : e # L - m => g[e] = c[e]
    OBVIOUS
  <2>7. \A e \in D : Extend(g, e) = Extend(c, e)
    <3> HIDE DEF g
    <3>1. SUFFICES ASSUME NEW e \in D
                   PROVE  [k \in G(e) |-> g[k]] = [k \in G(e) |-> c[k]]
      OBVIOUS
    <3>2. \A k \in G(e) : g[k] = c[k]
      BY <2>4, <2>6
    <3>3. QED
      BY <3>2
  <2>8. \A e \in D : g[e] = Extend(c, e)
    <3>1. \A e \in (L - m + 1)..L : c[e] = Extend(c, e)
      BY <2>3
    <3> HIDE DEF Extend
    <3>2. QED
      BY <2>5, <3>1
  <2>9. g = [e \in D |-> Extend(g, e)]
    <3> HIDE DEF Extend
    <3>1. \A e \in D : g[e] = Extend(g, e)
      BY <2>7, <2>8
    <3>2. g = [e \in D |-> g[e]]
      OBVIOUS
    <3> HIDE DEF g
    <3>3. QED
      BY <3>1, <3>2
  <2>10. QED
    <3> HIDE DEF g, Extend
    <3>1. QED
      BY <2>2, <2>9
<1>3. T = Nat
  <2> HIDE DEF T
  <2>1. T \in SUBSET Nat
    BY DEF T
  <2>2. QED
    BY <1>1, <1>2, <2>1, Induction
<1>4. \E c : Scan(c, L)
  <2> HIDE DEF Scan
  <2>1. L \in T /\ L <= L
    <3> HIDE DEF T
    <3>1. QED
      BY <1>0, <1>3
  <2>2. QED
    BY <2>1
<1>5. (L - L + 1)..L = Elements(d)
  BY <1>0
<1>6. \E c : c = [e \in Elements(d) |-> Extend(c, e)]
  <2> HIDE DEF Extend
  <2>1. QED
    BY <1>4, <1>5
<1>7. buildNodeContent(d) = CHOOSE c : c = [e \in Elements(d) |-> Extend(c, e)]
  BY DEF buildNodeContent, G
<1> DEFINE p == buildNodeContent(d)
<1>8. p = [e \in Elements(d) |-> Extend(p, e)]
  <2> HIDE DEF Extend
  <2>1. QED
    BY <1>6, <1>7
<1> HIDE DEF p
<1>9. \A e \in Elements(d) : p[e] = Extend(p, e)
  <2> HIDE DEF Extend
  <2>1. QED
    BY <1>8
<1>10. QED
  BY <1>9 DEF p, G

LEMMA TableType ==
    ASSUME NEW d, NEW e \in Elements(d)
    PROVE  /\ Table(d, e) \in Seq(Elements(d))
           /\ \A x : x \in ToSet(Table(d, e)) <=> x = e /\ buildLeavesTable(d, e) # {}
<1>1. CASE buildLeavesTable(d, e) = {}
  <2>1. Table(d, e) = <<>>
    BY <1>1 DEF Table
  <2>2. <<>> \in Seq(Elements(d))
    OBVIOUS
  <2>3. QED
    BY <1>1, <2>1, <2>2, RangeOfNone
<1>2. CASE buildLeavesTable(d, e) # {}
  <2>1. Table(d, e) = <<e>>
    BY <1>2 DEF Table
  <2>2. <<e>> \in Seq(Elements(d))
    OBVIOUS
  <2>3. ToSet(<<e>>) = {e}
    BY DEF ToSet
  <2>4. QED
    BY <1>2, <2>1, <2>2, <2>3
<1>3. QED
  BY <1>1, <1>2

LEMMA ContentType ==
    ASSUME NEW d, IsDocument(d)
    PROVE  \A e \in Elements(d) : buildNodeContent(d)[e] \in Seq(Elements(d))
<1> DEFINE L == Len(d.tag)
           E == Elements(d)
           c == buildNodeContent(d)
           G(e) == groupChildrenByName(d, e)
           T == {m \in Nat : \A e \in E : e > L - m => c[e] \in Seq(E)}
<1>0. L \in Nat /\ E = 1..L /\ \A e \in E : G(e) \subseteq E /\ \A k \in G(e) : k > e
  BY DocumentFacts, SectionsAreKids
<1>1. \A e \in E : c[e] = Table(d, e) \o InTurn(d, [k \in G(e) |-> c[k]])
  BY ContentStep
<1>2. ASSUME NEW e \in E, \A k \in G(e) : c[k] \in Seq(E)
      PROVE  c[e] \in Seq(E)
  <2> DEFINE f == [k \in G(e) |-> c[k]]
  <2>1. DOMAIN f \subseteq 1..Len(d.tag) /\ \A k \in DOMAIN f : f[k] \in Seq(E)
    BY <1>0, <1>2
  <2>2. Len(d.tag) \in Nat
    BY <1>0
  <2> HIDE DEF f
  <2>3. InTurn(d, f) \in Seq(E)
    BY <2>1, <2>2, InTurnRange
  <2>4. Table(d, e) \in Seq(E)
    BY TableType
  <2>5. Table(d, e) \o InTurn(d, f) \in Seq(E)
    <3> HIDE DEF E
    <3>1. QED
      BY <2>3, <2>4
  <2>6. QED
    BY <1>1, <2>5 DEF f
<1> HIDE DEF c, E, G, L
<1>3. 0 \in T
  <2>1. \A e \in E : ~(e > L - 0)
    BY <1>0
  <2>2. QED
    BY <2>1
<1>4. ASSUME NEW m \in T
      PROVE  m + 1 \in T
  <2>1. SUFFICES ASSUME NEW e \in E, e > L - (m + 1)
                 PROVE  c[e] \in Seq(E)
    OBVIOUS
  <2>2. \A k \in G(e) : k \in E /\ k > L - m
    BY <1>0, <2>1
  <2>3. \A k \in G(e) : c[k] \in Seq(E)
    BY <2>2
  <2>4. QED
    BY <1>2, <2>3
<1>5. T = Nat
  <2> HIDE DEF T
  <2>1. T \in SUBSET Nat
    BY DEF T
  <2>2. QED
    BY <1>3, <1>4, <2>1, Induction
<1>6. \A e \in E : c[e] \in Seq(E)
  <2>1. L \in T
    <3> HIDE DEF T
    <3>1. QED
      BY <1>0, <1>5
  <2>2. \A e \in E : e > L - L
    BY <1>0
  <2>3. QED
    BY <2>1, <2>2
<1>7. QED
  BY <1>6 DEF c, E

\* What is shown of an element: its table, and what is shown of its sections.
LEMMA ContentRange ==
    ASSUME NEW d, IsDocument(d), NEW e \in Elements(d)
    PROVE  \A x : x \in ToSet(buildNodeContent(d)[e]) <=>
                    \/ x = e /\ buildLeavesTable(d, e) # {}
                    \/ \E k \in groupChildrenByName(d, e) : x \in ToSet(buildNodeContent(d)[k])
<1> DEFINE E == Elements(d)
           c == buildNodeContent(d)
           G == groupChildrenByName(d, e)
           f == [k \in G |-> c[k]]
<1>0. Len(d.tag) \in Nat /\ E = 1..Len(d.tag) /\ G \subseteq E
  BY DocumentFacts, SectionsAreKids
<1>1. c[e] = Table(d, e) \o InTurn(d, f)
  BY ContentStep
<1>2. \A k \in E : c[k] \in Seq(E)
  BY ContentType
<1> HIDE DEF c, E, G
<1>3. DOMAIN f \subseteq 1..Len(d.tag) /\ \A k \in DOMAIN f : f[k] \in Seq(E)
  BY <1>0, <1>2
<1>4. DOMAIN f = G /\ \A k \in G : f[k] = c[k]
  OBVIOUS
<1> HIDE DEF f
<1>5. /\ InTurn(d, f) \in Seq(E)
      /\ \A x : x \in ToSet(InTurn(d, f)) <=> \E k \in DOMAIN f : x \in ToSet(f[k])
  BY <1>0, <1>3, InTurnRange
<1>6. /\ Table(d, e) \in Seq(E)
      /\ \A x : x \in ToSet(Table(d, e)) <=> x = e /\ buildLeavesTable(d, e) # {}
  BY TableType DEF E
<1>7. ToSet(c[e]) = ToSet(Table(d, e)) \cup ToSet(InTurn(d, f))
  BY <1>1, <1>5, <1>6, RangeOfConcat
<1>8. QED
  <2>1. \A x : x \in ToSet(c[e]) <=>
                    \/ x = e /\ buildLeavesTable(d, e) # {}
                    \/ \E k \in G : x \in ToSet(c[k])
    BY <1>4, <1>5, <1>6, <1>7
  <2>2. QED
    BY <2>1 DEF c, G

\* The tree: what an element lies in, its parent lies in or is.
LEMMA ParentWithin ==
    ASSUME NEW d, IsDocument(d), NEW p \in Elements(d), NEW e \in Within(d, p)
    PROVE  /\ e \in Elements(d) /\ e > p /\ d.parent[e] \in Elements(d)
           /\ d.parent[e] >= p
           /\ d.parent[e] # p => d.parent[e] \in Within(d, p)
<1> DEFINE E == Elements(d)
           q == d.parent[e]
<1>1. e \in E /\ e > p /\ \A x \in p + 1..e : d.parent[x] >= p
  BY DEF Within
<1>2. Len(d.tag) \in Nat /\ E = 1..Len(d.tag)
  BY DocumentFacts
<1>3. e \in Nat /\ q \in Nat /\ q < e /\ (e > 1 => q \in E)
  BY <1>1, DocumentFacts
<1> HIDE DEF E
<1>4. p \in Nat /\ p >= 1
  BY <1>2 DEF E
<1>5. e \in p + 1..e /\ e > 1
  BY <1>1, <1>3, <1>4
<1>6. q >= p /\ q \in E
  BY <1>1, <1>3, <1>5
<1>7. ASSUME q # p
      PROVE  q \in Within(d, p)
  <2>1. q > p
    BY <1>3, <1>4, <1>6, <1>7
  <2>2. \A x \in p + 1..q : x \in p + 1..e
    BY <1>3, <1>4
  <2> HIDE DEF q
  <2>3. QED
    BY <1>1, <1>6, <2>1, <2>2 DEF Within, E
<1>8. QED
  BY <1>1, <1>6, <1>7 DEF E

\* An element lies in its parent.
LEMMA KidWithin ==
    ASSUME NEW d, IsDocument(d), NEW e \in Elements(d), d.parent[e] \in Elements(d)
    PROVE  e \in Within(d, d.parent[e])
<1>1. e \in Nat /\ d.parent[e] \in Nat /\ d.parent[e] < e
  BY DocumentFacts
<1>2. \A x \in d.parent[e] + 1..e : d.parent[x] >= d.parent[e]
  BY DocumentFacts
<1>3. QED
  BY <1>1, <1>2 DEF Within

LEMMA WithinWithin ==
    ASSUME NEW d, IsDocument(d), NEW a \in Elements(d), NEW b \in Within(d, a),
           NEW c \in Within(d, b)
    PROVE  c \in Within(d, a)
<1>1. /\ b \in Elements(d) /\ b > a /\ \A x \in a + 1..b : d.parent[x] >= a
      /\ c \in Elements(d) /\ c > b /\ \A x \in b + 1..c : d.parent[x] >= b
  BY DEF Within
<1>2. a \in Nat /\ b \in Nat /\ c \in Nat
  BY <1>1, DocumentFacts
<1>3. Len(d.tag) \in Nat /\ Elements(d) = 1..Len(d.tag)
  BY DocumentFacts
<1>4. ASSUME NEW x \in a + 1..c
      PROVE  d.parent[x] >= a
  <2>1. CASE x <= b
    <3>1. x \in a + 1..b
      BY <1>2, <2>1
    <3>2. QED
      BY <1>1, <3>1
  <2>2. CASE x > b
    <3>1. x \in b + 1..c /\ x \in Elements(d)
      BY <1>1, <1>2, <1>3, <2>2
    <3>2. d.parent[x] >= b /\ d.parent[x] \in Nat
      BY <1>1, <3>1, DocumentFacts
    <3>3. QED
      BY <1>1, <1>2, <3>2
  <2>3. QED
    BY <1>2, <2>1, <2>2
<1>5. c > a
  BY <1>1, <1>2
<1>6. QED
  BY <1>1, <1>4, <1>5 DEF Within

\* Between an element and p there is its parent, and what is between that and p.
LEMMA BetweenParent ==
    ASSUME NEW d, IsDocument(d), NEW p \in Elements(d), NEW e \in Within(d, p),
           d.parent[e] # p
    PROVE  /\ d.parent[e] \in Within(d, p)
           /\ Between(d, p, e) = Between(d, p, d.parent[e]) \cup {d.parent[e]}
<1> DEFINE q == d.parent[e]
<1>1. e \in Elements(d) /\ q \in Elements(d) /\ q \in Within(d, p)
  BY ParentWithin
<1>2. e \in Within(d, q)
  BY <1>1, KidWithin
<1>3. ASSUME NEW x \in Between(d, p, q)
      PROVE  x \in Between(d, p, e)
  <2>1. x \in Within(d, p) /\ q \in Within(d, x)
    BY DEF Between
  <2>2. x \in Elements(d)
    BY <2>1 DEF Within
  <2>3. e \in Within(d, x)
    BY <1>2, <2>1, <2>2, WithinWithin
  <2>4. QED
    BY <2>1, <2>3 DEF Between
<1>4. q \in Between(d, p, e)
  BY <1>1, <1>2 DEF Between
<1>5. ASSUME NEW x \in Between(d, p, e), x # q
      PROVE  x \in Between(d, p, q)
  <2>1. x \in Within(d, p) /\ e \in Within(d, x)
    BY DEF Between
  <2>2. x \in Elements(d)
    BY <2>1 DEF Within
  <2>3. q \in Within(d, x)
    BY <1>5, <2>1, <2>2, ParentWithin
  <2>4. QED
    BY <2>1, <2>3 DEF Between
<1>6. QED
  BY <1>1, <1>3, <1>4, <1>5

\* What can be reached from a child of p by sections is shown with that child.
LEMMA SectionsReach ==
    ASSUME NEW d, IsDocument(d), NEW p \in Elements(d), NEW o \in Within(d, p),
           o \notin d.nil, hasElementChildren(d, o), d.tag[o] # "Names",
           Between(d, p, o) \cap d.nil = {},
           \A x \in Between(d, p, o) : d.tag[x] # "Names"
    PROVE  \E a \in groupChildrenByName(d, p) :
              ToSet(buildNodeContent(d)[o]) \subseteq ToSet(buildNodeContent(d)[a])
<1> DEFINE c == buildNodeContent(d)
           G(e) == groupChildrenByName(d, e)
           B(e) == Between(d, p, e)
           Cond(e) == /\ e \notin d.nil /\ hasElementChildren(d, e) /\ d.tag[e] # "Names"
                      /\ B(e) \cap d.nil = {}
                      /\ \A x \in B(e) : d.tag[x] # "Names"
           Reached(e) == \E a \in G(p) : ToSet(c[e]) \subseteq ToSet(c[a])
           W == Within(d, p)
           T == {n \in Nat : \A e \in W : e <= n /\ Cond(e) => Reached(e)}
<1>1. \A e \in W : e \in Nat /\ e > 0 /\ e \in Elements(d)
  <2>1. \A e \in W : e \in Elements(d)
    BY DEF Within
  <2>2. Len(d.tag) \in Nat /\ Elements(d) = 1..Len(d.tag)
    BY DocumentFacts
  <2>3. QED
    BY <2>1, <2>2
<1>2. ASSUME NEW e \in W, Cond(e),
             \A q \in W : q < e /\ Cond(q) => Reached(q)
      PROVE  Reached(e)
  <2> DEFINE q == d.parent[e]
  <2>0. e \in Elements(d) /\ q \in Elements(d) /\ q < e
    <3>1. e \in Elements(d) /\ q \in Elements(d)
      BY ParentWithin
    <3>2. QED
      BY <3>1, DocumentFacts
  <2>1. e \in G(q)
    BY <1>2, <2>0 DEF groupChildrenByName, Kids, isNil
  <2>2. CASE q = p
    BY <2>1, <2>2
  <2>3. CASE q # p
    <3>1. q \in W /\ B(e) = B(q) \cup {q}
      BY <2>3, BetweenParent
    <3>2. hasElementChildren(d, q)
      BY <1>2, <2>0 DEF hasElementChildren, Kids, isNil
    <3>3. Cond(q)
      <4> HIDE DEF B, q
      <4>1. QED
        BY <1>2, <3>1, <3>2
    <3>4. Reached(q)
      <4> HIDE DEF Cond, Reached, W, q
      <4>1. QED
        BY <1>2, <2>0, <3>1, <3>3
    <3>5. ToSet(c[e]) \subseteq ToSet(c[q])
      <4>1. \A x : x \in ToSet(c[q]) <=>
                    \/ x = q /\ buildLeavesTable(d, q) # {}
                    \/ \E k \in G(q) : x \in ToSet(c[k])
        BY <2>0, ContentRange
      <4> HIDE DEF c, G, q
      <4>2. QED
        BY <2>1, <4>1
    <3>6. QED
      <4> HIDE DEF c, G, q
      <4>1. QED
        BY <3>4, <3>5
  <2>4. QED
    BY <2>2, <2>3
<1> HIDE DEF Cond, Reached, W
<1>3. 0 \in T
  BY <1>1
<1>4. ASSUME NEW n \in T
      PROVE  n + 1 \in T
  <2>1. SUFFICES ASSUME NEW e \in W, e <= n + 1, Cond(e)
                 PROVE  Reached(e)
    OBVIOUS
  <2>2. ASSUME NEW q \in W, q < e, Cond(q)
        PROVE  Reached(q)
    <3>1. q <= n
      BY <1>1, <2>1, <2>2
    <3>2. QED
      BY <2>2, <3>1
  <2>3. QED
    BY <1>2, <2>1, <2>2
<1>5. T = Nat
  <2> HIDE DEF T
  <2>1. T \in SUBSET Nat
    BY DEF T
  <2>2. QED
    BY <1>3, <1>4, <2>1, Induction
<1>6. o \in W /\ Cond(o)
  BY DEF W, Cond
<1>7. Reached(o)
  <2>1. o \in T /\ o <= o
    <3> HIDE DEF T
    <3>1. QED
      BY <1>1, <1>5, <1>6
  <2>2. QED
    BY <1>6, <2>1
<1>8. QED
  BY <1>7 DEF Reached

\* An item for a group shows what its elements show.
LEMMA GroupShows ==
    ASSUME NEW d, IsDocument(d), NEW p \in Elements(d), NEW a \in groupChildrenByName(d, p),
           NEW o \in ToSet(buildNodeContent(d)[a])
    PROVE  \E i \in AccItems(d, p) : o \in ToSet(AccBody(d, p, i))
<1> DEFINE E == Elements(d)
           t == d.tag[a]
           i == <<"group", t>>
           S == {k \in groupChildrenByName(d, p) : d.tag[k] = t}
           f == [k \in S |-> buildNodeContent(d)[k]]
<1>1. i \in AccItems(d, p)
  BY DEF AccItems
<1>2. i[1] = "group" /\ i[2] = t
  OBVIOUS
<1>3. AccBody(d, p, i) = InTurn(d, f)
  <2>1. AccBody(d, p, i) = GroupBody(d, p, t)
    <3> HIDE DEF t
    <3>1. AccBody(d, p, i) = GroupBody(d, p, i[2])
      BY <1>2 DEF AccBody
    <3>2. QED
      BY <1>2, <3>1
  <2>2. QED
    BY <2>1 DEF GroupBody
<1>4. /\ Len(d.tag) \in Nat /\ E = 1..Len(d.tag)
      /\ groupChildrenByName(d, p) \subseteq E
      /\ \A k \in E : buildNodeContent(d)[k] \in Seq(E)
  BY DocumentFacts, SectionsAreKids, ContentType
<1>5. a \in S /\ S \subseteq E
  BY <1>4
<1>6. DOMAIN f = S /\ \A k \in S : f[k] = buildNodeContent(d)[k]
  OBVIOUS
<1> HIDE DEF E, f, S
<1>7. DOMAIN f \subseteq 1..Len(d.tag) /\ \A k \in DOMAIN f : f[k] \in Seq(E)
  BY <1>4, <1>5, <1>6
<1>8. \A x : x \in ToSet(InTurn(d, f)) <=> \E k \in DOMAIN f : x \in ToSet(f[k])
  BY <1>4, <1>7, InTurnRange
<1>9. o \in ToSet(InTurn(d, f))
  BY <1>5, <1>6, <1>8
<1> HIDE DEF i
<1>10. QED
  BY <1>1, <1>3, <1>9

\* The item for the names shows the table of each Name, and its sections.
LEMMA NamesShow ==
    ASSUME NEW d, IsDocument(d), NEW p \in Elements(d), NEW x \in NamesIn(d, p), NEW o,
           \/ o = x /\ buildLeavesTable(d, x) # {}
           \/ groupChildrenByName(d, x) # {} /\ o \in ToSet(buildNodeContent(d)[x])
    PROVE  \E i \in AccItems(d, p) : o \in ToSet(AccBody(d, p, i))
<1> DEFINE E == Elements(d)
           i == <<"names", "">>
           S == NamesIn(d, p)
           rest(k) == IF groupChildrenByName(d, k) = {} THEN <<>> ELSE buildNodeContent(d)[k]
           f == [k \in S |-> Table(d, k) \o rest(k)]
<1>1. i \in AccItems(d, p)
  <2>1. nameRoot(d, p) # {}
    BY DEF NamesIn
  <2>2. QED
    BY <2>1 DEF AccItems
<1>2. AccBody(d, p, i) = InTurn(d, f)
  <2>1. i[1] = "names"
    OBVIOUS
  <2> HIDE DEF i
  <2>2. QED
    BY <2>1 DEF AccBody, NamesBody
<1>3. /\ Len(d.tag) \in Nat /\ E = 1..Len(d.tag)
      /\ \A k \in E : buildNodeContent(d)[k] \in Seq(E)
  BY DocumentFacts, ContentType
<1>4. S \subseteq E
  BY DEF NamesIn, Kids
<1>5. \A k \in S : /\ Table(d, k) \in Seq(E)
                   /\ \A y : y \in ToSet(Table(d, k)) <=> y = k /\ buildLeavesTable(d, k) # {}
  BY <1>4, TableType
<1>6. <<>> \in Seq(E)
  OBVIOUS
<1> HIDE DEF E, S
<1>7. \A k \in S : rest(k) \in Seq(E)
  BY <1>3, <1>4, <1>6
<1>8. o \in ToSet(Table(d, x)) \cup ToSet(rest(x))
  BY <1>5 DEF S
<1>9. DOMAIN f = S /\ \A k \in S : f[k] = Table(d, k) \o rest(k)
  OBVIOUS
<1> HIDE DEF rest, f
<1>10. \A k \in S : f[k] \in Seq(E) /\ ToSet(f[k]) = ToSet(Table(d, k)) \cup ToSet(rest(k))
  <2>1. TAKE k \in S
  <2>2. Table(d, k) \in Seq(E) /\ rest(k) \in Seq(E) /\ f[k] = Table(d, k) \o rest(k)
    BY <1>5, <1>7, <1>9
  <2>3. QED
    BY <2>2, RangeOfConcat
<1>11. DOMAIN f \subseteq 1..Len(d.tag) /\ \A k \in DOMAIN f : f[k] \in Seq(E)
  BY <1>3, <1>4, <1>9, <1>10
<1>12. \A y : y \in ToSet(InTurn(d, f)) <=> \E k \in DOMAIN f : y \in ToSet(f[k])
  BY <1>3, <1>11, InTurnRange
<1>13. o \in ToSet(InTurn(d, f))
  BY <1>8, <1>9, <1>10, <1>12 DEF S
<1> HIDE DEF i
<1>14. QED
  BY <1>1, <1>2, <1>13

\* The item for the basics shows the person's own table.
LEMMA BasicsShow ==
    ASSUME NEW d, NEW p \in Elements(d), buildLeavesTable(d, p) # {}
    PROVE  \E i \in AccItems(d, p) : p \in ToSet(AccBody(d, p, i))
<1> DEFINE i == <<"basics", "">>
<1>1. i \in AccItems(d, p)
  BY DEF AccItems
<1>2. i[1] = "basics"
  OBVIOUS
<1> HIDE DEF i
<1>3. AccBody(d, p, i) = <<p>>
  BY <1>2 DEF AccBody
<1>4. p \in ToSet(<<p>>)
  BY DEF ToSet
<1>5. QED
  BY <1>1, <1>3, <1>4

\* The table of an element that the summary has a place for is in an item.
LEMMA PlacedIsShown ==
    ASSUME IsDocument(response), NEW p \in Elements(response), NEW o \in Within(response, p),
           HasPlace(p, o), o \notin response.nil, HasContent(o), response.tag[o] # "Names",
           buildLeavesTable(response, o) # {}
    PROVE  \E i \in AccItems(response, p) : o \in ToSet(AccBody(response, p, i))
<1> DEFINE d == response
           c == buildNodeContent(d)
           path == Between(d, p, o)
           names == {x \in path : d.tag[x] = "Names"}
<1>1. /\ path \cap d.nil = {}
      /\ \/ names = {}
         \/ /\ names = nameRoot(d, p)
            /\ \E x \in (path \cup {o}) \ d.nil :
                  d.parent[x] \in names /\ d.tag[x] = "Name" /\ HasContent(x)
  BY DEF HasPlace
<1>2. o \in Elements(d) /\ hasElementChildren(d, o)
  BY DEF Within, HasContent, hasElementChildren, Kids, isNil
<1>3. o \in ToSet(c[o])
  BY <1>2, ContentRange
<1>4. CASE names = {}
  <2>1. \A x \in path : d.tag[x] # "Names"
    BY <1>4
  <2>2. PICK a \in groupChildrenByName(d, p) : ToSet(c[o]) \subseteq ToSet(c[a])
    BY <1>1, <1>2, <2>1, SectionsReach
  <2>3. o \in ToSet(c[a])
    BY <1>3, <2>2
  <2>4. QED
    BY <2>3, GroupShows
<1>5. CASE /\ names = nameRoot(d, p)
           /\ \E x \in (path \cup {o}) \ d.nil :
                  d.parent[x] \in names /\ d.tag[x] = "Name" /\ HasContent(x)
  <2>1. PICK x \in (path \cup {o}) \ d.nil :
                  d.parent[x] \in names /\ d.tag[x] = "Name" /\ HasContent(x)
    BY <1>5
  <2>2. x \in Elements(d) /\ x \in Within(d, p)
    BY <2>1 DEF Between, Within
  <2>3. x \in NamesIn(d, p)
    BY <1>5, <2>1, <2>2 DEF NamesIn, Kids
  <2>4. CASE x = o
    BY <2>3, <2>4, NamesShow
  <2>5. CASE x # o
    <3>1. x \in path /\ o \in Within(d, x)
      BY <2>1, <2>5 DEF Between
    <3>2. \A y \in Between(d, x, o) : y \in path /\ y \in Within(d, x) /\ y \in Elements(d)
      <4>1. TAKE y \in Between(d, x, o)
      <4>2. y \in Within(d, x) /\ o \in Within(d, y) /\ y \in Elements(d)
        BY DEF Between, Within
      <4>3. y \in Within(d, p)
        BY <2>2, <4>2, WithinWithin
      <4>4. QED
        BY <4>2, <4>3 DEF Between
    <3>3. Between(d, x, o) \cap d.nil = {}
      BY <1>1, <3>2
    <3>4. \A y \in Between(d, x, o) : d.tag[y] # "Names"
      <4>1. SUFFICES ASSUME NEW y \in Between(d, x, o), d.tag[y] = "Names"
                     PROVE  FALSE
        OBVIOUS
      <4>2. y \in nameRoot(d, p)
        BY <1>5, <3>2, <4>1
      <4>3. d.parent[y] = p
        BY <4>2 DEF nameRoot, Kids
      <4>4. d.parent[y] >= x
        BY <2>2, <3>2, ParentWithin
      <4>5. x > p /\ x \in Nat /\ p \in Nat
        BY <2>2, ParentWithin, DocumentFacts
      <4>6. QED
        BY <4>3, <4>4, <4>5
    <3>5. PICK a \in groupChildrenByName(d, x) : ToSet(c[o]) \subseteq ToSet(c[a])
      BY <1>2, <2>2, <3>1, <3>3, <3>4, SectionsReach
    <3>6. o \in ToSet(c[x])
      BY <1>3, <2>2, <3>5, ContentRange
    <3>7. QED
      BY <2>3, <3>5, <3>6, NamesShow
  <2>6. QED
    BY <2>4, <2>5
<1>6. QED
  BY <1>1, <1>4, <1>5

\* The parent of a leaf that the summary has a place for has one too, or is
\* the person.
LEMMA LeafHasOwner ==
    ASSUME IsDocument(response), NEW p \in Elements(response), NEW e \in Within(response, p),
           HasPlace(p, e), response.parent[e] # p,
           IF e \in response.nil THEN HasContent(response.parent[e]) ELSE ~HasContent(e)
    PROVE  /\ response.parent[e] \in Within(response, p) \ response.nil
           /\ HasPlace(p, response.parent[e]) /\ HasContent(response.parent[e])
           /\ response.tag[response.parent[e]] # "Names"
<1> DEFINE d == response
           o == d.parent[e]
           path == Between(d, p, e)
           above == Between(d, p, o)
           names == {x \in path : d.tag[x] = "Names"}
           inName(S) == \E x \in S \ d.nil :
                           d.parent[x] \in names /\ d.tag[x] = "Name" /\ HasContent(x)
<1>1. /\ path \cap d.nil = {}
      /\ names = {} \/ (names = nameRoot(d, p) /\ inName(path \cup {e}))
  BY DEF HasPlace
<1>2. o \in Within(d, p) /\ path = above \cup {o}
  BY BetweenParent
<1>3. e \in Elements(d) /\ o \in Elements(d)
  BY ParentWithin
<1>4. o \notin d.nil
  BY <1>1, <1>2
<1>5. HasContent(o)
  <2>1. e \in Kids(d, o)
    BY <1>3 DEF Kids
  <2>2. QED
    BY <2>1 DEF HasContent
<1>6. inName(path \cup {e}) => inName(path)
  OBVIOUS
<1>7. d.tag[o] # "Names"
  <2>1. SUFFICES ASSUME d.tag[o] = "Names" PROVE FALSE
    OBVIOUS
  <2>2. o \in names
    BY <1>2, <2>1
  <2>3. names = nameRoot(d, p) /\ inName(path)
    BY <1>1, <1>6, <2>2
  <2>4. PICK x \in path : d.parent[x] \in nameRoot(d, p)
    BY <2>3
  <2>5. d.parent[x] = o
    <3>1. \A j \in nameRoot(d, p) : j \in Nat
      BY DocumentFacts DEF nameRoot, Kids
    <3>2. \A j, k \in nameRoot(d, p) : ~(j < k)
      BY DEF nameRoot
    <3>3. o \in nameRoot(d, p)
      BY <2>2, <2>3
    <3>4. QED
      BY <2>4, <3>1, <3>2, <3>3
  <2>6. x \in Elements(d) /\ e \in Within(d, x)
    BY DEF Between, Within
  <2>7. o >= x
    BY <2>6, ParentWithin
  <2>8. d.parent[x] < x /\ x \in Nat /\ o \in Nat
    BY <1>3, <2>6, DocumentFacts
  <2>9. QED
    BY <2>5, <2>7, <2>8
<1>8. HasPlace(p, o)
  <2>1. names = {x \in above : d.tag[x] = "Names"}
    BY <1>2, <1>7
  <2>2. above \cap d.nil = {}
    BY <1>1, <1>2
  <2>3. names = {} \/ (names = nameRoot(d, p) /\ inName(above \cup {o}))
    BY <1>1, <1>2, <1>6
  <2>4. QED
    BY <2>1, <2>2, <2>3 DEF HasPlace
<1>9. QED
  BY <1>2, <1>4, <1>5, <1>7, <1>8

\* All there is to read in a person is in the tables of its items.
LEMMA ReadableIsShown ==
    ASSUME IsDocument(response), NEW p \in Elements(response)
    PROVE  \A r \in Readable(p) : \E o \in Elements(response) :
              /\ r \in buildLeavesTable(response, o)
              /\ \E i \in AccItems(response, p) : o \in ToSet(AccBody(response, p, i))
<1> DEFINE d == response
           Shows(r) == \E o \in Elements(d) :
                          /\ r \in buildLeavesTable(d, o)
                          /\ \E i \in AccItems(d, p) : o \in ToSet(AccBody(d, p, i))
           here == {e \in Within(d, p) : HasPlace(p, e)}
           leaves == {e \in here : /\ IF e \in d.nil
                                        THEN d.parent[e] = p \/ HasContent(d.parent[e])
                                        ELSE ~HasContent(e)
                                   /\ ~isNoiseKey(d.tag[e])}
           owners == {p} \cup {e \in here : HasContent(e) /\ d.tag[e] # "Names"}
           named == ((leaves \cup owners) \cap d.attr) \ d.nil
<1>1. Readable(p) = (leaves \X {"text"}) \cup (named \X {"attribute"})
  BY DEF Readable
<1>2. \A e \in here : e \in Elements(d) /\ d.parent[e] \in Elements(d) /\ HasPlace(p, e)
  BY ParentWithin
<1>3. ASSUME NEW o \in Elements(d), NEW r \in buildLeavesTable(d, o),
             \/ o = p
             \/ /\ o \in Within(d, p) \ d.nil /\ HasPlace(p, o) /\ HasContent(o)
                /\ d.tag[o] # "Names"
      PROVE  Shows(r)
  <2>1. buildLeavesTable(d, o) # {}
    OBVIOUS
  <2>2. \E i \in AccItems(d, p) : o \in ToSet(AccBody(d, p, i))
    BY <1>3, <2>1, BasicsShow, PlacedIsShown
  <2>3. QED
    BY <2>2
<1>4. ASSUME NEW e \in leaves, NEW r \in buildLeavesTable(d, d.parent[e])
      PROVE  Shows(r)
  <2>1. /\ e \in Within(d, p) /\ HasPlace(p, e) /\ d.parent[e] \in Elements(d)
        /\ d.parent[e] # p =>
             IF e \in d.nil THEN HasContent(d.parent[e]) ELSE ~HasContent(e)
    BY <1>2
  <2> HIDE DEF Shows
  <2>2. CASE d.parent[e] = p
    BY <1>3, <2>1, <2>2
  <2>3. CASE d.parent[e] # p
    <3>1. /\ d.parent[e] \in Within(d, p) \ d.nil
          /\ HasPlace(p, d.parent[e]) /\ HasContent(d.parent[e])
          /\ d.tag[d.parent[e]] # "Names"
      BY <2>1, <2>3, LeafHasOwner
    <3>2. QED
      BY <1>3, <2>1, <3>1
  <2>4. QED
    BY <2>2, <2>3
<1>5. ASSUME NEW e \in leaves
      PROVE  /\ e \in Kids(d, d.parent[e]) /\ treatAsLeaf(d, e) /\ ~isNoiseKey(d.tag[e])
             /\ e \notin d.nil => ~HasContent(e)
  BY <1>2 DEF Kids, treatAsLeaf, isNil, hasElementChildren, HasContent
<1>6. ASSUME NEW e \in leaves
      PROVE  <<e, "text">> \in buildLeavesTable(d, d.parent[e])
  <2> HIDE DEF leaves
  <2>1. QED
    BY <1>5 DEF buildLeavesTable
<1>7. ASSUME NEW e \in leaves, e \in d.attr, e \notin d.nil
      PROVE  <<e, "attribute">> \in buildLeavesTable(d, d.parent[e])
  <2> HIDE DEF leaves
  <2>1. QED
    BY <1>5, <1>7 DEF buildLeavesTable
<1>8. ASSUME NEW e \in owners, e \in d.attr
      PROVE  <<e, "attribute">> \in buildLeavesTable(d, e)
  BY <1>8 DEF buildLeavesTable
<1>9. ASSUME NEW e \in owners, e \in d.attr, e \notin d.nil
      PROVE  Shows(<<e, "attribute">>)
  <2>1. \/ e = p
        \/ e \in Within(d, p) \ d.nil /\ HasPlace(p, e) /\ HasContent(e) /\ d.tag[e] # "Names"
    BY <1>9
  <2>2. e \in Elements(d)
    BY <1>2
  <2> HIDE DEF Shows, owners
  <2>3. QED
    BY <1>3, <1>8, <1>9, <2>1, <2>2
<1> HIDE DEF leaves, owners, Shows
<1>10. ASSUME NEW r \in Readable(p)
       PROVE  Shows(r)
  <2>1. CASE r \in leaves \X {"text"}
    <3>1. PICK e \in leaves : r = <<e, "text">>
      BY <2>1
    <3>2. QED
      BY <1>4, <1>6, <3>1
  <2>2. CASE r \in named \X {"attribute"}
    <3>1. PICK e \in named : r = <<e, "attribute">>
      BY <2>2
    <3>2. CASE e \in leaves
      BY <1>4, <1>7, <3>1, <3>2
    <3>3. CASE e \in owners
      BY <1>9, <3>1, <3>3
    <3>4. QED
      BY <3>2, <3>3
  <2>3. QED
    BY <1>1, <2>1, <2>2
<1>11. QED
  BY <1>10 DEF Shows

\* The persons that are listed are elements of the document.
LEMMA PeopleAreElements ==
    ASSUME NEW d, IsDocument(d)
    PROVE  \A i \in DOMAIN findPeopleNodes(d) : findPeopleNodes(d)[i] \in Elements(d)
<1> DEFINE E == Elements(d)
<1>1. Len(d.tag) \in Nat /\ E = 1..Len(d.tag)
  BY DocumentFacts
<1>2. ASSUME NEW S \in SUBSET E
      PROVE  InOrder(d, S) \in Seq(E)
  <2> DEFINE f == [e \in S |-> <<e>>]
  <2>1. DOMAIN f \subseteq 1..Len(d.tag)
    BY <1>1
  <2>2. \A k \in DOMAIN f : f[k] \in Seq(E)
    <3> HIDE DEF E
    <3>1. \A k \in S : <<k>> \in Seq(E) /\ f[k] = <<k>>
      OBVIOUS
    <3>2. QED
      BY <3>1
  <2>3. InOrder(d, S) = InTurn(d, f)
    BY DEF InOrder
  <2> HIDE DEF f, E
  <2>4. QED
    BY <1>1, <2>1, <2>2, <2>3, InTurnRange
<1>3. findPeopleNodes(d) \in Seq(E)
  <2>1. \E S \in SUBSET E : findPeopleNodes(d) = InOrder(d, S)
    BY DEF findPeopleNodes
  <2> HIDE DEF E
  <2>2. QED
    BY <1>2, <2>1
<1>4. QED
  <2> HIDE DEF E
  <2>1. \A i \in DOMAIN findPeopleNodes(d) : findPeopleNodes(d)[i] \in E
    BY <1>3
  <2>2. QED
    BY <2>1 DEF E

\* How often x is in a sequence.
Times(s, x) == {i \in DOMAIN s : s[i] = x}

Count(s, x) == Cardinality(Times(s, x))

LEMMA CountType ==
    ASSUME NEW R, NEW s \in Seq(R), NEW x
    PROVE  IsFiniteSet(Times(s, x)) /\ Count(s, x) \in Nat
<1>1. DOMAIN s = 1..Len(s) /\ Len(s) \in Nat
  OBVIOUS
<1>2. IsFiniteSet(1..Len(s))
  BY <1>1, FS_Interval
<1>3. Times(s, x) \in SUBSET (1..Len(s))
  BY <1>1 DEF Times
<1>4. IsFiniteSet(Times(s, x))
  BY <1>2, <1>3, FS_Subset
<1>5. QED
  BY <1>4, FS_CardinalityType DEF Count

\* What is not in a sequence is there no time.
LEMMA CountAbsent ==
    ASSUME NEW s, NEW x, x \notin ToSet(s)
    PROVE  Count(s, x) = 0
<1>1. Times(s, x) = {}
  BY DEF Times, ToSet
<1>2. QED
  BY <1>1, FS_EmptySet DEF Count

LEMMA CountConcat ==
    ASSUME NEW R, NEW s \in Seq(R), NEW t \in Seq(R), NEW x
    PROVE  Count(s \o t, x) = Count(s, x) + Count(t, x)
<1> DEFINE u == s \o t
           m == Len(s)
           n == Len(t)
           A == Times(s, x)
           B == Times(t, x)
           C == {m + i : i \in B}
           g == [i \in B |-> m + i]
<1>1. /\ u \in Seq(R) /\ Len(u) = m + n
      /\ \A i \in 1..m : u[i] = s[i]
      /\ \A i \in 1..n : u[m + i] = t[i]
  OBVIOUS
<1>2. /\ m \in Nat /\ n \in Nat
      /\ DOMAIN u = 1..(m + n) /\ DOMAIN s = 1..m /\ DOMAIN t = 1..n
  BY <1>1
<1>3. /\ A = {i \in 1..m : s[i] = x} /\ B = {i \in 1..n : t[i] = x}
      /\ Times(u, x) = {i \in 1..(m + n) : u[i] = x}
  BY <1>2 DEF Times
<1>4. IsFiniteSet(A) /\ IsFiniteSet(B)
  BY CountType
<1>5. Count(u, x) = Cardinality(Times(u, x)) /\ Count(s, x) = Cardinality(A) /\ Count(t, x) = Cardinality(B)
  BY DEF Count
<1> HIDE DEF u, m, n, A, B
<1>6. Times(u, x) = A \cup C
  <2>1. ASSUME NEW i \in Times(u, x)
        PROVE  i \in A \cup C
    <3>1. i \in 1..(m + n) /\ u[i] = x
      BY <1>3
    <3>2. CASE i <= m
      <4>1. i \in 1..m
        BY <1>2, <3>1, <3>2
      <4>2. QED
        BY <1>1, <1>3, <3>1, <4>1
    <3>3. CASE i > m
      <4>1. i - m \in 1..n /\ m + (i - m) = i
        BY <1>2, <3>1, <3>3
      <4>2. t[i - m] = x
        BY <1>1, <3>1, <4>1
      <4>3. i - m \in B
        BY <1>3, <4>1, <4>2
      <4>4. QED
        BY <4>1, <4>3
    <3>4. QED
      BY <1>2, <3>1, <3>2, <3>3
  <2>2. ASSUME NEW i \in A
        PROVE  i \in Times(u, x)
    <3>1. i \in 1..m /\ s[i] = x
      BY <1>3
    <3>2. i \in 1..(m + n) /\ u[i] = x
      BY <1>1, <1>2, <3>1
    <3>3. QED
      BY <1>3, <3>2
  <2>3. ASSUME NEW i \in B
        PROVE  m + i \in Times(u, x)
    <3>1. i \in 1..n /\ t[i] = x
      BY <1>3
    <3>2. m + i \in 1..(m + n) /\ u[m + i] = x
      BY <1>1, <1>2, <3>1
    <3>3. QED
      BY <1>3, <3>2
  <2>4. QED
    BY <2>1, <2>2, <2>3
<1>7. A \cap C = {}
  <2>1. \A i \in A : i <= m
    BY <1>2, <1>3
  <2>2. \A i \in B : i \in Nat /\ i > 0
    BY <1>2, <1>3
  <2>3. \A i \in C : i > m
    BY <1>2, <2>2
  <2>4. \A i \in A : i \in Nat
    BY <1>2, <1>3
  <2>5. SUFFICES ASSUME NEW i \in A, i \in C PROVE FALSE
    OBVIOUS
  <2> HIDE DEF C
  <2>6. QED
    BY <1>2, <2>1, <2>3, <2>4, <2>5
<1>8. IsFiniteSet(C) /\ Cardinality(C) = Cardinality(B)
  <2>1. \A i \in B : i \in Nat
    BY <1>2, <1>3
  <2>2. g \in [B -> C]
    OBVIOUS
  <2>3. \A i, j \in B : g[i] = g[j] => i = j
    BY <1>2, <2>1
  <2>4. \A y \in C : \E i \in B : g[i] = y
    OBVIOUS
  <2> HIDE DEF g, C
  <2>5. g \in Bijection(B, C)
    BY <2>2, <2>3, <2>4 DEF Bijection, Injection, IsInjective, Surjection
  <2>6. ExistsBijection(B, C)
    BY <2>5 DEF ExistsBijection
  <2>7. QED
    BY <1>4, <2>6, FS_Bijection
<1> HIDE DEF C
<1>9. Cardinality(A \cup C) = Cardinality(A) + Cardinality(C) - Cardinality({})
  BY <1>4, <1>7, <1>8, FS_Union
<1>10. Cardinality({}) = 0 /\ Cardinality(A) \in Nat /\ Cardinality(C) \in Nat
  BY <1>4, <1>8, FS_EmptySet, FS_CardinalityType
<1>11. Count(u, x) = Count(s, x) + Count(t, x)
  BY <1>5, <1>6, <1>8, <1>9, <1>10
<1>12. QED
  BY <1>11 DEF u

LEMMA CountTable ==
    ASSUME NEW d, NEW e \in Elements(d), NEW x
    PROVE  /\ Count(Table(d, e), x) \in {0, 1}
           /\ Count(Table(d, e), x) = 1 <=> x = e /\ buildLeavesTable(d, e) # {}
<1>1. CASE x = e /\ buildLeavesTable(d, e) # {}
  <2>1. Table(d, e) = <<e>>
    BY <1>1 DEF Table
  <2>2. Times(<<e>>, e) = {1}
    BY DEF Times
  <2>3. Count(<<e>>, e) = 1
    BY <2>2, FS_Singleton DEF Count
  <2>4. QED
    BY <1>1, <2>1, <2>3
<1>2. CASE ~(x = e /\ buildLeavesTable(d, e) # {})
  <2>1. x \notin ToSet(Table(d, e))
    BY <1>2, TableType
  <2>2. Count(Table(d, e), x) = 0
    BY <2>1, CountAbsent
  <2>3. QED
    BY <1>2, <2>2
<1>3. QED
  BY <1>1, <1>2

\* What one part alone holds is joined as often as it is in that part.
LEMMA InTurnCount ==
    ASSUME NEW d, NEW R, NEW f, Len(d.tag) \in Nat, DOMAIN f \subseteq 1..Len(d.tag),
           \A k \in DOMAIN f : f[k] \in Seq(R),
           NEW x, NEW k \in DOMAIN f,
           \A l \in DOMAIN f : x \in ToSet(f[l]) => l = k
    PROVE  Count(InTurn(d, f), x) = Count(f[k], x)
<1> DEFINE L == Len(d.tag)
           j == Joined(d, f)
           upto(n) == IF k <= n THEN Count(f[k], x) ELSE 0
           P(n) == j[n] \in Seq(R) /\ Count(j[n], x) = upto(n)
           T == {n \in Nat : n <= L => P(n)}
<1>0. /\ j[0] = <<>>
      /\ \A n \in 1..L : j[n] = IF n \in DOMAIN f THEN j[n - 1] \o f[n] ELSE j[n - 1]
  BY JoinedStep
<1>1. L \in Nat /\ DOMAIN f \subseteq 1..L
  OBVIOUS
<1>2. Count(f[k], x) \in Nat
  BY CountType
<1> HIDE DEF j, L
<1>3. k \in Nat /\ k > 0 /\ k <= L
  BY <1>1
<1>4. P(0)
  <2>1. <<>> \in Seq(R)
    OBVIOUS
  <2>2. Count(<<>>, x) = 0
    BY RangeOfNone, CountAbsent
  <2>3. QED
    BY <1>0, <1>3, <2>1, <2>2
<1>5. ASSUME NEW n \in T
      PROVE  n + 1 \in T
  <2>1. SUFFICES ASSUME n + 1 <= L
                 PROVE  P(n + 1)
    OBVIOUS
  <2>2. n \in Nat /\ n + 1 \in 1..L /\ (n + 1) - 1 = n /\ P(n)
    BY <1>1, <2>1
  <2>3. j[n + 1] = IF n + 1 \in DOMAIN f THEN j[n] \o f[n + 1] ELSE j[n]
    BY <1>0, <2>2
  <2>4. CASE n + 1 \in DOMAIN f
    <3>1. f[n + 1] \in Seq(R) /\ j[n] \in Seq(R)
      BY <2>2, <2>4
    <3>2. j[n + 1] = j[n] \o f[n + 1]
      BY <2>3, <2>4
    <3>3. j[n + 1] \in Seq(R) /\ Count(j[n + 1], x) = upto(n) + Count(f[n + 1], x)
      <4> HIDE DEF upto
      <4>1. j[n] \o f[n + 1] \in Seq(R)
        BY <3>1
      <4>2. Count(j[n] \o f[n + 1], x) = Count(j[n], x) + Count(f[n + 1], x)
        BY <3>1, CountConcat
      <4>3. QED
        BY <2>2, <3>2, <4>1, <4>2
    <3>4. CASE n + 1 = k
      <4>1. upto(n) = 0 /\ upto(n + 1) = Count(f[k], x)
        BY <1>3, <2>2, <3>4
      <4> HIDE DEF upto
      <4>2. QED
        BY <1>2, <3>3, <3>4, <4>1
    <3>5. CASE n + 1 # k
      <4>1. Count(f[n + 1], x) = 0
        BY <2>4, <3>5, CountAbsent
      <4>2. upto(n + 1) = upto(n) /\ upto(n) \in Nat
        BY <1>2, <1>3, <2>2, <3>5
      <4> HIDE DEF upto
      <4>3. QED
        BY <3>3, <4>1, <4>2
    <3>6. QED
      BY <3>4, <3>5
  <2>5. CASE n + 1 \notin DOMAIN f
    <3>1. n + 1 # k
      BY <2>5
    <3>2. upto(n + 1) = upto(n)
      BY <1>3, <2>2, <3>1
    <3> HIDE DEF upto
    <3>3. QED
      BY <2>2, <2>3, <2>5, <3>2
  <2>6. QED
    BY <2>4, <2>5
<1>6. T = Nat
  <2>1. 0 \in T
    BY <1>4
  <2> HIDE DEF P
  <2>2. T \in SUBSET Nat
    OBVIOUS
  <2> HIDE DEF T
  <2>3. QED
    BY <1>5, <2>1, <2>2, Induction
<1>7. P(L)
  <2> HIDE DEF P
  <2>1. L \in T /\ L <= L
    BY <1>1, <1>6
  <2>2. QED
    BY <2>1
<1>8. InTurn(d, f) = j[L]
  BY DEF InTurn, j, L
<1>9. QED
  BY <1>3, <1>7, <1>8

\* An element, or something in it.
Under(d, e) == {e} \cup Within(d, e)

LEMMA KidUnder ==
    ASSUME NEW d, IsDocument(d), NEW e \in Elements(d), NEW k \in Kids(d, e)
    PROVE  k \in Elements(d) /\ k > e /\ Under(d, k) \subseteq Within(d, e)
<1>1. k \in Elements(d) /\ d.parent[k] = e
  BY DEF Kids
<1>2. k > e
  BY <1>1, DocumentFacts
<1>3. k \in Within(d, e)
  BY <1>1, KidWithin
<1>4. \A x \in Within(d, k) : x \in Within(d, e)
  BY <1>3, WithinWithin
<1>5. QED
  BY <1>1, <1>2, <1>3, <1>4 DEF Under

LEMMA UnderSpan ==
    ASSUME NEW d, IsDocument(d), NEW e \in Elements(d), NEW x \in Under(d, e)
    PROVE  x \in Elements(d) /\ x >= e /\ \A y \in e + 1..x : d.parent[y] >= e
<1>1. e \in Nat
  BY DocumentFacts
<1>2. CASE x = e
  <2>1. e + 1..e = {}
    BY <1>1
  <2>2. QED
    BY <1>1, <1>2, <2>1
<1>3. CASE x \in Within(d, e)
  <2>1. x \in Elements(d) /\ x > e /\ \A y \in e + 1..x : d.parent[y] >= e
    BY <1>3 DEF Within
  <2>2. x \in Nat
    BY <2>1, DocumentFacts
  <2>3. QED
    BY <1>1, <2>1, <2>2
<1>4. QED
  BY <1>2, <1>3 DEF Under

\* Two children have nothing in common.
LEMMA KidsApart ==
    ASSUME NEW d, IsDocument(d), NEW p \in Elements(d), NEW j \in Kids(d, p), NEW k \in Kids(d, p),
           NEW x \in Under(d, j), x \in Under(d, k)
    PROVE  j = k
<1>1. /\ j \in Elements(d) /\ k \in Elements(d) /\ j > p /\ k > p
      /\ d.parent[j] = p /\ d.parent[k] = p
  BY KidUnder DEF Kids
<1>2. j \in Nat /\ k \in Nat /\ p \in Nat
  BY <1>1, DocumentFacts
<1>3. /\ x \in Elements(d) /\ x >= j /\ \A y \in j + 1..x : d.parent[y] >= j
      /\ x >= k /\ \A y \in k + 1..x : d.parent[y] >= k
  BY <1>1, UnderSpan
<1>4. x \in Nat
  BY <1>3, DocumentFacts
<1>5. ~(j < k)
  <2>1. SUFFICES ASSUME j < k PROVE FALSE
    OBVIOUS
  <2>2. k \in j + 1..x
    BY <1>2, <1>3, <1>4, <2>1
  <2>3. QED
    BY <1>1, <1>2, <1>3, <2>2
<1>6. ~(k < j)
  <2>1. SUFFICES ASSUME k < j PROVE FALSE
    OBVIOUS
  <2>2. j \in k + 1..x
    BY <1>2, <1>3, <1>4, <2>1
  <2>3. QED
    BY <1>1, <1>2, <1>3, <2>2
<1>7. QED
  BY <1>2, <1>5, <1>6

\* What is shown of an element is its own and its descendants', each once.
LEMMA ContentCount ==
    ASSUME NEW d, IsDocument(d)
    PROVE  \A e \in Elements(d) : \A x \in ToSet(buildNodeContent(d)[e]) :
              x \in Under(d, e) /\ Count(buildNodeContent(d)[e], x) = 1
<1> DEFINE L == Len(d.tag)
           E == Elements(d)
           c == buildNodeContent(d)
           G(e) == groupChildrenByName(d, e)
           Good(e) == \A x \in ToSet(c[e]) : x \in Under(d, e) /\ Count(c[e], x) = 1
           T == {m \in Nat : \A e \in E : e > L - m => Good(e)}
<1>0. L \in Nat /\ E = 1..L /\ \A e \in E : G(e) \subseteq E /\ \A k \in G(e) : k > e
  BY DocumentFacts, SectionsAreKids
<1>1. \A e \in E : c[e] = Table(d, e) \o InTurn(d, [k \in G(e) |-> c[k]])
  BY ContentStep
<1>2. ASSUME NEW e \in E, \A k \in G(e) : Good(k)
      PROVE  Good(e)
  <2> DEFINE f == [k \in G(e) |-> c[k]]
             rest == InTurn(d, f)
  <2>1. DOMAIN f = G(e) /\ \A k \in G(e) : f[k] = c[k]
    OBVIOUS
  <2>2. \A k \in E : c[k] \in Seq(E)
    BY ContentType
  <2>3. Len(d.tag) \in Nat /\ DOMAIN f \subseteq 1..Len(d.tag) /\ \A k \in DOMAIN f : f[k] \in Seq(E)
    BY <1>0, <2>1, <2>2
  <2>4. \A k \in G(e) : k \in Kids(d, e)
    BY DEF groupChildrenByName
  <2>5. c[e] = Table(d, e) \o rest
    BY <1>1
  <2> HIDE DEF c, f, E, G
  <2>6. rest \in Seq(E) /\ \A x : x \in ToSet(rest) <=> \E k \in G(e) : x \in ToSet(c[k])
    <3>1. InTurn(d, f) \in Seq(E) /\ \A x : x \in ToSet(InTurn(d, f)) <=> \E k \in DOMAIN f : x \in ToSet(f[k])
      BY <2>3, InTurnRange
    <3>2. QED
      BY <2>1, <3>1
  <2>7. Table(d, e) \in Seq(E) /\ \A x \in ToSet(Table(d, e)) : x = e
    BY TableType DEF E
  <2>8. \A x : Count(c[e], x) = Count(Table(d, e), x) + Count(rest, x)
    <3> HIDE DEF rest
    <3>1. QED
      BY <2>5, <2>6, <2>7, CountConcat
  <2>9. ToSet(c[e]) = ToSet(Table(d, e)) \cup ToSet(rest)
    <3> HIDE DEF rest
    <3>1. QED
      BY <2>5, <2>6, <2>7, RangeOfConcat
  <2>10. ASSUME NEW k \in G(e), NEW x \in ToSet(c[k])
         PROVE  /\ k \in Kids(d, e) /\ x \in Under(d, k) /\ x \in Within(d, e) /\ x # e
                /\ Count(c[k], x) = 1
    <3>1. x \in Under(d, k) /\ Count(c[k], x) = 1
      BY <1>2
    <3>2. Under(d, k) \subseteq Within(d, e)
      BY <2>4, KidUnder DEF E
    <3>3. e \notin Within(d, e)
      BY <1>0 DEF Within, E
    <3>4. QED
      BY <2>4, <3>1, <3>2, <3>3
  <2>11. ASSUME NEW k \in G(e), NEW x \in ToSet(c[k])
         PROVE  Count(rest, x) = 1
    <3>1. ASSUME NEW l \in DOMAIN f, x \in ToSet(f[l])
          PROVE  l = k
      <4>1. l \in G(e) /\ x \in ToSet(c[l])
        BY <2>1, <3>1
      <4>2. l \in Kids(d, e) /\ x \in Under(d, l)
        BY <2>10, <4>1
      <4>3. k \in Kids(d, e) /\ x \in Under(d, k)
        BY <2>10
      <4>4. QED
        BY <4>2, <4>3, KidsApart DEF E
    <3>2. k \in DOMAIN f /\ f[k] = c[k]
      BY <2>1
    <3>3. Count(rest, x) = Count(f[k], x)
      BY <2>3, <3>1, <3>2, InTurnCount
    <3>4. QED
      BY <2>10, <3>2, <3>3
  <2> HIDE DEF rest
  <2>12. ASSUME NEW x \in ToSet(c[e])
         PROVE  x \in Under(d, e) /\ Count(c[e], x) = 1
    <3>1. CASE x \in ToSet(rest)
      <4>1. PICK k \in G(e) : x \in ToSet(c[k])
        BY <2>6, <3>1
      <4>2. x \in Within(d, e) /\ x # e
        BY <2>10, <4>1
      <4>3. Count(rest, x) = 1
        BY <2>11, <4>1
      <4>4. Count(Table(d, e), x) = 0
        BY <2>7, <4>2, CountAbsent
      <4>5. QED
        BY <2>8, <4>2, <4>3, <4>4 DEF Under
    <3>2. CASE x \notin ToSet(rest)
      <4>1. x \in ToSet(Table(d, e)) /\ x = e
        BY <2>7, <2>9, <3>2
      <4>2. buildLeavesTable(d, e) # {}
        BY <4>1, TableType DEF E
      <4>3. Count(Table(d, e), x) = 1
        BY <4>1, <4>2, CountTable DEF E
      <4>4. Count(rest, x) = 0
        BY <3>2, CountAbsent
      <4>5. QED
        BY <2>8, <4>1, <4>3, <4>4 DEF Under
    <3>3. QED
      BY <3>1, <3>2
  <2>13. QED
    BY <2>12
<1> HIDE DEF Good, c, E, G, L
<1>3. 0 \in T
  <2>1. \A e \in E : ~(e > L - 0)
    BY <1>0
  <2>2. QED
    BY <2>1
<1>4. ASSUME NEW m \in T
      PROVE  m + 1 \in T
  <2>1. SUFFICES ASSUME NEW e \in E, e > L - (m + 1)
                 PROVE  Good(e)
    OBVIOUS
  <2>2. \A k \in G(e) : k \in E /\ k > L - m
    BY <1>0, <2>1
  <2>3. \A k \in G(e) : Good(k)
    BY <2>2
  <2>4. QED
    BY <1>2, <2>3
<1>5. T = Nat
  <2> HIDE DEF T
  <2>1. T \in SUBSET Nat
    BY DEF T
  <2>2. QED
    BY <1>3, <1>4, <2>1, Induction
<1>6. \A e \in E : Good(e)
  <2>1. L \in T
    <3> HIDE DEF T
    <3>1. QED
      BY <1>0, <1>5
  <2>2. \A e \in E : e > L - L
    BY <1>0
  <2>3. QED
    BY <2>1, <2>2
<1>7. QED
  BY <1>6 DEF Good, c, E

\* A Name that has sections: its table is above them and among them.
TwiceByDesign(d, p, o) ==
    /\ d.tag[o] = "Name" /\ d.parent[o] \in nameRoot(d, p)
    /\ groupChildrenByName(d, o) # {}

\* How often an item shows an element, and which child of the person it is for.
GroupOnce(d, p, t, o) ==
    /\ IsFiniteSet(Times(GroupBody(d, p, t), o)) /\ Count(GroupBody(d, p, t), o) = 1
    /\ \E k \in groupChildrenByName(d, p) : d.tag[k] = t /\ o \in Under(d, k)

NamesTwice(d, p, o) ==
    /\ IsFiniteSet(Times(NamesBody(d, p), o))
    /\ \/ Count(NamesBody(d, p), o) = 1
       \/ Count(NamesBody(d, p), o) = 2 /\ TwiceByDesign(d, p, o)
    /\ \E n \in nameRoot(d, p) : o \in Under(d, n)

LEMMA GroupCount ==
    ASSUME NEW d, IsDocument(d), NEW p \in Elements(d), NEW t, NEW o \in ToSet(GroupBody(d, p, t))
    PROVE  GroupOnce(d, p, t, o)
<1> DEFINE E == Elements(d)
           c == buildNodeContent(d)
           S == {k \in groupChildrenByName(d, p) : d.tag[k] = t}
           f == [k \in S |-> c[k]]
<1>1. GroupBody(d, p, t) = InTurn(d, f)
  BY DEF GroupBody
<1>2. /\ Len(d.tag) \in Nat /\ E = 1..Len(d.tag)
      /\ groupChildrenByName(d, p) \subseteq E
      /\ \A k \in E : c[k] \in Seq(E)
  BY DocumentFacts, SectionsAreKids, ContentType
<1>3. S \subseteq E /\ \A k \in S : k \in Kids(d, p) /\ k \in groupChildrenByName(d, p) /\ d.tag[k] = t
  BY <1>2 DEF groupChildrenByName
<1>4. DOMAIN f = S /\ \A k \in S : f[k] = c[k]
  OBVIOUS
<1>5. \A k \in E : \A x \in ToSet(c[k]) : x \in Under(d, k) /\ Count(c[k], x) = 1
  BY ContentCount
<1> HIDE DEF E, c, f, S
<1>6. DOMAIN f \subseteq 1..Len(d.tag) /\ \A k \in DOMAIN f : f[k] \in Seq(E)
  BY <1>2, <1>3, <1>4
<1>7. /\ InTurn(d, f) \in Seq(E)
      /\ \A x : x \in ToSet(InTurn(d, f)) <=> \E k \in DOMAIN f : x \in ToSet(f[k])
  BY <1>2, <1>6, InTurnRange
<1>8. PICK k \in S : o \in ToSet(c[k])
  BY <1>1, <1>4, <1>7
<1>9. o \in Under(d, k) /\ Count(c[k], o) = 1
  BY <1>3, <1>5, <1>8
<1>10. ASSUME NEW l \in DOMAIN f, o \in ToSet(f[l])
       PROVE  l = k
  <2>1. l \in S /\ o \in ToSet(c[l])
    BY <1>4, <1>10
  <2>2. o \in Under(d, l) /\ l \in Kids(d, p) /\ k \in Kids(d, p)
    BY <1>3, <1>5, <1>8, <2>1
  <2>3. QED
    BY <1>9, <2>2, KidsApart
<1>11. k \in DOMAIN f /\ f[k] = c[k]
  BY <1>4, <1>8
<1>12. Count(InTurn(d, f), o) = Count(f[k], o)
  BY <1>2, <1>6, <1>10, <1>11, InTurnCount
<1>13. IsFiniteSet(Times(InTurn(d, f), o))
  BY <1>7, CountType
<1>14. QED
  BY <1>1, <1>3, <1>8, <1>9, <1>11, <1>12, <1>13 DEF GroupOnce

\* There is one Names.
LEMMA OneNameRoot ==
    ASSUME NEW d, IsDocument(d), NEW p, NEW j \in nameRoot(d, p), NEW k \in nameRoot(d, p)
    PROVE  j = k
<1>1. j \in Nat /\ k \in Nat
  BY DocumentFacts DEF nameRoot, Kids
<1>2. ~(j < k) /\ ~(k < j)
  BY DEF nameRoot
<1>3. QED
  BY <1>1, <1>2

LEMMA NamesCount ==
    ASSUME NEW d, IsDocument(d), NEW p \in Elements(d), NEW o \in ToSet(NamesBody(d, p))
    PROVE  NamesTwice(d, p, o)
<1> DEFINE E == Elements(d)
           c == buildNodeContent(d)
           S == NamesIn(d, p)
           rest(k) == IF groupChildrenByName(d, k) = {} THEN <<>> ELSE c[k]
           f == [k \in S |-> Table(d, k) \o rest(k)]
<1>1. NamesBody(d, p) = InTurn(d, f)
  BY DEF NamesBody
<1>2. /\ Len(d.tag) \in Nat /\ E = 1..Len(d.tag)
      /\ \A k \in E : c[k] \in Seq(E)
  BY DocumentFacts, ContentType
<1>3. ASSUME NEW k \in S
      PROVE  /\ k \in E /\ d.tag[k] = "Name"
             /\ \E n \in nameRoot(d, p) : k \in Kids(d, n) /\ d.parent[k] = n /\ n \in E
  <2>1. PICK n \in nameRoot(d, p) : k \in Kids(d, n)
    BY DEF NamesIn
  <2>2. QED
    BY <2>1 DEF NamesIn, nameRoot, Kids
<1>4. DOMAIN f = S /\ \A k \in S : f[k] = Table(d, k) \o rest(k)
  OBVIOUS
<1>5. \A k \in E : \A x \in ToSet(c[k]) : x \in Under(d, k) /\ Count(c[k], x) = 1
  BY ContentCount
<1>6. <<>> \in Seq(E)
  OBVIOUS
<1> HIDE DEF E, c, S
<1>7. ASSUME NEW k \in S
      PROVE  /\ Table(d, k) \in Seq(E) /\ rest(k) \in Seq(E)
             /\ \A x \in ToSet(Table(d, k)) : x = k
  <2>1. Table(d, k) \in Seq(E) /\ \A x \in ToSet(Table(d, k)) : x = k
    BY <1>3, TableType DEF E
  <2>2. rest(k) \in Seq(E)
    BY <1>2, <1>3, <1>6
  <2>3. QED
    BY <2>1, <2>2
<1>8. ASSUME NEW k \in S, NEW x \in ToSet(rest(k))
      PROVE  /\ groupChildrenByName(d, k) # {} /\ x \in Under(d, k)
             /\ Count(rest(k), x) = 1
  <2>1. groupChildrenByName(d, k) # {} /\ rest(k) = c[k]
    BY RangeOfNone
  <2> HIDE DEF rest
  <2>2. QED
    BY <1>3, <1>5, <2>1
<1> HIDE DEF rest, f
<1>9. ASSUME NEW k \in S
      PROVE  /\ f[k] \in Seq(E)
             /\ ToSet(f[k]) = ToSet(Table(d, k)) \cup ToSet(rest(k))
             /\ \A x : Count(f[k], x) = Count(Table(d, k), x) + Count(rest(k), x)
  <2>1. Table(d, k) \in Seq(E) /\ rest(k) \in Seq(E) /\ f[k] = Table(d, k) \o rest(k)
    BY <1>4, <1>7
  <2>2. f[k] \in Seq(E) /\ ToSet(f[k]) = ToSet(Table(d, k)) \cup ToSet(rest(k))
    BY <2>1, RangeOfConcat
  <2>3. \A x : Count(f[k], x) = Count(Table(d, k), x) + Count(rest(k), x)
    BY <2>1, CountConcat
  <2>4. QED
    BY <2>2, <2>3
<1>10. ASSUME NEW k \in S, NEW x \in ToSet(f[k])
       PROVE  x \in Under(d, k)
  BY <1>7, <1>8, <1>9 DEF Under
<1>11. DOMAIN f \subseteq 1..Len(d.tag) /\ \A k \in DOMAIN f : f[k] \in Seq(E)
  BY <1>2, <1>3, <1>4, <1>9
<1>12. /\ InTurn(d, f) \in Seq(E)
       /\ \A x : x \in ToSet(InTurn(d, f)) <=> \E k \in DOMAIN f : x \in ToSet(f[k])
  BY <1>2, <1>11, InTurnRange
<1>13. PICK k \in S : o \in ToSet(f[k])
  BY <1>1, <1>4, <1>12
<1>14. PICK n \in nameRoot(d, p) : k \in Kids(d, n) /\ d.parent[k] = n /\ n \in E
  BY <1>3
<1>15. o \in Under(d, k) /\ o \in Under(d, n)
  <2>1. o \in Under(d, k)
    BY <1>10, <1>13
  <2>2. Under(d, k) \subseteq Within(d, n)
    BY <1>14, KidUnder DEF E
  <2>3. QED
    BY <2>1, <2>2 DEF Under
<1>16. ASSUME NEW l \in DOMAIN f, o \in ToSet(f[l])
       PROVE  l = k
  <2>1. l \in S /\ o \in Under(d, l)
    BY <1>4, <1>10, <1>16
  <2>2. PICK m \in nameRoot(d, p) : l \in Kids(d, m)
    BY <1>3, <2>1
  <2>3. m = n
    BY <1>14, <2>2, OneNameRoot
  <2>4. QED
    BY <1>14, <1>15, <2>1, <2>2, <2>3, KidsApart DEF E
<1>17. Count(InTurn(d, f), o) = Count(f[k], o)
  <2>1. k \in DOMAIN f
    BY <1>4
  <2>2. \A l \in DOMAIN f : o \in ToSet(f[l]) => l = k
    BY <1>16
  <2>3. Len(d.tag) \in Nat
    BY <1>2
  <2>4. QED
    BY <1>11, <2>1, <2>2, <2>3, InTurnCount
<1>18. Count(f[k], o) = 1 \/ (Count(f[k], o) = 2 /\ TwiceByDesign(d, p, o))
  <2>1. /\ Count(f[k], o) = Count(Table(d, k), o) + Count(rest(k), o)
        /\ o \in ToSet(Table(d, k)) \cup ToSet(rest(k))
    BY <1>9, <1>13
  <2>2. /\ Count(Table(d, k), o) \in {0, 1}
        /\ Count(Table(d, k), o) = 1 <=> o = k /\ buildLeavesTable(d, k) # {}
    BY <1>3, CountTable DEF E
  <2>3. CASE o \in ToSet(rest(k))
    <3>1. groupChildrenByName(d, k) # {} /\ Count(rest(k), o) = 1
      BY <1>8, <2>3
    <3>2. o = k => TwiceByDesign(d, p, o)
      BY <1>3, <1>14, <3>1 DEF TwiceByDesign
    <3>3. QED
      BY <2>1, <2>2, <3>1, <3>2
  <2>4. CASE o \notin ToSet(rest(k))
    <3>1. Count(rest(k), o) = 0
      BY <2>4, CountAbsent
    <3>2. o \in ToSet(Table(d, k))
      BY <2>1, <2>4
    <3>3. o = k /\ buildLeavesTable(d, k) # {}
      BY <1>3, <3>2, TableType DEF E
    <3>4. QED
      BY <2>1, <2>2, <3>1, <3>3
  <2>5. QED
    BY <2>3, <2>4
<1>19. IsFiniteSet(Times(InTurn(d, f), o))
  BY <1>12, CountType
<1>20. QED
  BY <1>1, <1>15, <1>17, <1>18, <1>19 DEF NamesTwice

\* Every item shows an element once, but for the Names that are twice by design.
LEMMA ItemCount ==
    ASSUME NEW d, IsDocument(d), NEW p \in Elements(d), NEW i \in AccItems(d, p),
           NEW o \in ToSet(AccBody(d, p, i))
    PROVE  \/ /\ i = <<"basics", "">> /\ o = p
              /\ IsFiniteSet(Times(AccBody(d, p, i), o)) /\ Count(AccBody(d, p, i), o) = 1
           \/ i = <<"names", "">> /\ AccBody(d, p, i) = NamesBody(d, p) /\ NamesTwice(d, p, o)
           \/ \E t : /\ i = <<"group", t>> /\ AccBody(d, p, i) = GroupBody(d, p, t)
                     /\ GroupOnce(d, p, t, o)
<1>1. CASE i = <<"basics", "">>
  <2>1. i[1] = "basics"
    BY <1>1
  <2>2. AccBody(d, p, i) = <<p>>
    BY <2>1 DEF AccBody
  <2>3. o = p
    BY <2>2 DEF ToSet
  <2>4. Times(<<p>>, p) = {1}
    BY DEF Times
  <2>5. IsFiniteSet(Times(<<p>>, p)) /\ Count(<<p>>, p) = 1
    BY <2>4, FS_Singleton DEF Count
  <2>6. QED
    BY <1>1, <2>2, <2>3, <2>5
<1>2. CASE i = <<"names", "">>
  <2>1. i[1] = "names"
    BY <1>2
  <2>2. AccBody(d, p, i) = NamesBody(d, p)
    BY <2>1 DEF AccBody
  <2>3. QED
    BY <1>2, <2>2, NamesCount
<1>3. CASE \E t : i = <<"group", t>>
  <2>1. PICK t : i = <<"group", t>>
    BY <1>3
  <2>2. i[1] = "group" /\ i[2] = t
    BY <2>1
  <2>3. AccBody(d, p, i) = GroupBody(d, p, i[2])
    BY <2>2 DEF AccBody
  <2>4. AccBody(d, p, i) = GroupBody(d, p, t)
    BY <2>2, <2>3
  <2>5. QED
    BY <2>1, <2>4, GroupCount
<1>4. i = <<"basics", "">> \/ i = <<"names", "">> \/ \E t : i = <<"group", t>>
  BY DEF AccItems
<1>5. QED
  BY <1>1, <1>2, <1>3, <1>4

\* No element is in two items.
LEMMA ItemsApart ==
    ASSUME NEW d, IsDocument(d), NEW p \in Elements(d), NEW i \in AccItems(d, p), NEW j \in AccItems(d, p),
           NEW o \in ToSet(AccBody(d, p, i)), o \in ToSet(AccBody(d, p, j))
    PROVE  i = j
<1> DEFINE home(a) == \/ a = <<"basics", "">> /\ o = p
                      \/ a = <<"names", "">> /\ \E n \in Kids(d, p) : d.tag[n] = "Names" /\ o \in Under(d, n)
                      \/ \E k \in Kids(d, p) : /\ d.tag[k] # "Names" /\ o \in Under(d, k)
                                               /\ a = <<"group", d.tag[k]>>
<1>1. home(i) /\ home(j)
  <2>1. ASSUME NEW a \in AccItems(d, p), o \in ToSet(AccBody(d, p, a))
        PROVE  home(a)
    <3>1. \/ a = <<"basics", "">> /\ o = p
          \/ a = <<"names", "">> /\ NamesTwice(d, p, o)
          \/ \E t : a = <<"group", t>> /\ GroupOnce(d, p, t, o)
      BY <2>1, ItemCount
    <3>2. NamesTwice(d, p, o) => \E n \in Kids(d, p) : d.tag[n] = "Names" /\ o \in Under(d, n)
      BY DEF NamesTwice, nameRoot
    <3>3. \A t : GroupOnce(d, p, t, o) => \E k \in Kids(d, p) : d.tag[k] # "Names" /\ o \in Under(d, k) /\ d.tag[k] = t
      BY DEF GroupOnce, groupChildrenByName
    <3>4. QED
      BY <3>1, <3>2, <3>3
  <2>2. QED
    BY <2>1
<1>2. \A k \in Kids(d, p) : o \in Under(d, k) => o # p
  <2>1. p \notin Within(d, p)
    <3>1. p \in Nat
      BY DocumentFacts
    <3>2. QED
      BY <3>1 DEF Within
  <2>2. QED
    BY <2>1, KidUnder
<1>3. \A k, l \in Kids(d, p) : o \in Under(d, k) /\ o \in Under(d, l) => k = l
  BY KidsApart
<1>4. ASSUME NEW a, NEW b, home(a), home(b)
      PROVE  a = b
  <2>1. CASE o = p
    BY <1>2, <1>4, <2>1
  <2>2. CASE \E n \in Kids(d, p) : d.tag[n] = "Names" /\ o \in Under(d, n)
    <3>1. PICK n \in Kids(d, p) : d.tag[n] = "Names" /\ o \in Under(d, n)
      BY <2>2
    <3>2. \A k \in Kids(d, p) : o \in Under(d, k) => d.tag[k] = "Names"
      BY <1>3, <3>1
    <3>3. QED
      BY <1>2, <1>4, <3>1, <3>2
  <2>3. CASE \E k \in Kids(d, p) : d.tag[k] # "Names" /\ o \in Under(d, k)
    <3>1. PICK k \in Kids(d, p) : d.tag[k] # "Names" /\ o \in Under(d, k)
      BY <2>3
    <3>2. \A n \in Kids(d, p) : o \in Under(d, n) => n = k
      BY <1>3, <3>1
    <3>3. a = <<"group", d.tag[k]>> /\ b = <<"group", d.tag[k]>>
      BY <1>2, <1>4, <3>1, <3>2
    <3>4. QED
      BY <3>3
  <2>4. QED
    BY <1>4, <2>1, <2>2, <2>3
<1> HIDE DEF home
<1>5. QED
  BY <1>1, <1>4

\* The places of an element in a card whose items are rendered or empty.
LEMMA PlacesInCard ==
    ASSUME NEW d, IsDocument(d), NEW p \in Elements(d), NEW items, NEW o,
           DOMAIN items = AccItems(d, p),
           \A i \in DOMAIN items : items[i].body = <<>> \/ items[i].body = AccBody(d, p, i),
           NEW at,
           at = UNION {{<<i, n>> : n \in {n \in DOMAIN items[i].body : items[i].body[n] = o}} :
                          i \in DOMAIN items}
    PROVE  \/ Cardinality(at) \in {0, 1}
           \/ Cardinality(at) = 2 /\ TwiceByDesign(d, p, o)
<1> DEFINE held(i) == items[i].body
           N(i) == Times(held(i), o)
<1>1. at = UNION {{<<i, n>> : n \in N(i)} : i \in DOMAIN items}
  BY DEF Times
<1>2. \A i \in DOMAIN items : held(i) = <<>> \/ held(i) = AccBody(d, p, i)
  OBVIOUS
<1>3. \A i \in DOMAIN items : N(i) # {} => o \in ToSet(held(i)) /\ held(i) = AccBody(d, p, i)
  <2>1. \A i \in DOMAIN items : N(i) # {} => o \in ToSet(held(i))
    BY DEF Times, ToSet
  <2>2. QED
    BY <1>2, <2>1, RangeOfNone
<1>4. CASE \A i \in DOMAIN items : N(i) = {}
  <2> HIDE DEF N
  <2>1. at = {}
    BY <1>1, <1>4
  <2>2. QED
    BY <2>1, FS_EmptySet
<1>5. CASE \E i \in DOMAIN items : N(i) # {}
  <2>1. PICK i \in DOMAIN items : N(i) # {}
    BY <1>5
  <2>2. i \in AccItems(d, p) /\ o \in ToSet(AccBody(d, p, i)) /\ held(i) = AccBody(d, p, i)
    BY <1>3, <2>1
  <2>3. \A j \in DOMAIN items : N(j) # {} => j = i
    <3>1. \A j \in DOMAIN items : N(j) # {} => j \in AccItems(d, p) /\ o \in ToSet(AccBody(d, p, j))
      BY <1>3
    <3> HIDE DEF N
    <3>2. QED
      BY <2>2, <3>1, ItemsApart
  <2>4. /\ IsFiniteSet(Times(held(i), o))
        /\ Count(held(i), o) = 1 \/ (Count(held(i), o) = 2 /\ TwiceByDesign(d, p, o))
    <3>1. \/ IsFiniteSet(Times(AccBody(d, p, i), o)) /\ Count(AccBody(d, p, i), o) = 1
          \/ AccBody(d, p, i) = NamesBody(d, p) /\ NamesTwice(d, p, o)
          \/ \E t : AccBody(d, p, i) = GroupBody(d, p, t) /\ GroupOnce(d, p, t, o)
      BY <2>2, ItemCount
    <3> HIDE DEF held
    <3>2. QED
      BY <2>2, <3>1 DEF NamesTwice, GroupOnce
  <2>5. Cardinality(N(i)) = Count(held(i), o)
    BY DEF Count
  <2> HIDE DEF N, held
  <2>6. at = {<<i, n>> : n \in N(i)}
    BY <1>1, <2>1, <2>3
  <2> DEFINE g == [n \in N(i) |-> <<i, n>>]
  <2>7. g \in [N(i) -> at]
    BY <2>6
  <2>8. \A m, n \in N(i) : g[m] = g[n] => m = n
    OBVIOUS
  <2>9. \A y \in at : \E n \in N(i) : g[n] = y
    BY <2>6
  <2> HIDE DEF g
  <2>10. ExistsBijection(N(i), at)
    <3>1. g \in Bijection(N(i), at)
      BY <2>7, <2>8, <2>9 DEF Bijection, Injection, IsInjective, Surjection
    <3>2. QED
      BY <3>1 DEF ExistsBijection
  <2>11. IsFiniteSet(N(i))
    BY <2>4 DEF N
  <2>12. Cardinality(at) = Count(held(i), o)
    BY <2>5, <2>10, <2>11, FS_Bijection
  <2>13. QED
    BY <2>4, <2>12
<1>6. QED
  BY <1>4, <1>5

-----------------------------------------------------------------------------
(***************************************************************************)
(* The accordions of the page: the items of the cards and the groups of the *)
(* panel.  What is open has been rendered, and a body, once rendered, is    *)
(* that of its own person and item; a card has all the items of its person; *)
(* a new answer gives the panel new groups.                                 *)
(***************************************************************************)

\* An item whose body, once rendered, is the one given, and empty before.
Sound(item, empty, content) ==
    /\ DOMAIN item = {"open", "rendered", "body"}
    /\ item.open \in BOOLEAN /\ item.rendered \in BOOLEAN
    /\ item.open => item.rendered
    /\ item.body = IF item.rendered THEN content ELSE empty

SoundCard(d, card) ==
    /\ DOMAIN card = {"person", "mode", "inline", "items"}
    /\ card.person \in Elements(d)
    /\ DOMAIN card.items = AccItems(d, card.person)
    /\ \A i \in DOMAIN card.items : Sound(card.items[i], <<>>, AccBody(d, card.person, i))

CardsInv == \A c \in DOMAIN cards : SoundCard(response, cards[c])

GroupsInv == \A g \in DOMAIN groups : Sound(groups[g], {}, GroupTables(pairs, g))

AccordionInv == response \in Responses /\ CardsInv /\ GroupsInv

LEMMA ClosedIsSound ==
    ASSUME NEW empty, NEW content
    PROVE  Sound(Closed(empty), empty, content)
  BY DEF Sound, Closed

LEMMA ShownIsSound ==
    ASSUME NEW item, NEW empty, NEW content, Sound(item, empty, content)
    PROVE  Sound(Shown(item, content), empty, content)
  BY DEF Sound, Shown

LEMMA ShutIsSound ==
    ASSUME NEW item, NEW empty, NEW content, Sound(item, empty, content)
    PROVE  Sound([item EXCEPT !.open = FALSE], empty, content)
  BY DEF Sound

\* A click on an item.
LEMMA ToggledIsSound ==
    ASSUME NEW item, NEW empty, NEW content, Sound(item, empty, content)
    PROVE  Sound(IF item.open THEN [item EXCEPT !.open = FALSE] ELSE Shown(item, content), empty, content)
  BY ShownIsSound, ShutIsSound

LEMMA CardIsSound ==
    ASSUME NEW p \in Elements(response)
    PROVE  SoundCard(response, Card(p))
<1> DEFINE k == Card(p)
<1>1. /\ DOMAIN k = {"person", "mode", "inline", "items"}
      /\ k.person = p
      /\ k.items = [i \in AccItems(response, p) |-> Closed(<<>>)]
  BY DEF Card
<1> HIDE DEF k
<1>2. \A i \in DOMAIN k.items : k.items[i] = Closed(<<>>)
  BY <1>1
<1>3. QED
  BY <1>1, <1>2, ClosedIsSound DEF SoundCard, k

\* One item of a card is replaced.
LEMMA CardWithItem ==
    ASSUME NEW d, NEW card, NEW i, NEW item, SoundCard(d, card),
           Sound(item, <<>>, AccBody(d, card.person, i))
    PROVE  SoundCard(d, [card EXCEPT !.items = [card.items EXCEPT ![i] = item]])
<1> DEFINE its == [card.items EXCEPT ![i] = item]
           new == [card EXCEPT !.items = its]
<1>1. /\ DOMAIN card = {"person", "mode", "inline", "items"}
      /\ card.person \in Elements(d)
      /\ DOMAIN card.items = AccItems(d, card.person)
      /\ \A j \in DOMAIN card.items : Sound(card.items[j], <<>>, AccBody(d, card.person, j))
  BY DEF SoundCard
<1>2. /\ DOMAIN its = DOMAIN card.items
      /\ \A j \in DOMAIN its : its[j] = IF j = i THEN item ELSE card.items[j]
  OBVIOUS
<1> HIDE DEF its
<1>3. /\ DOMAIN new = {"person", "mode", "inline", "items"}
      /\ new.items = its /\ new.person = card.person
  BY <1>1
<1> HIDE DEF new
<1>4. \A j \in DOMAIN its : Sound(its[j], <<>>, AccBody(d, card.person, j))
  <2>1. TAKE j \in DOMAIN its
  <2>2. CASE j = i
    BY <1>2, <2>2
  <2>3. CASE j # i
    BY <1>1, <1>2, <2>3
  <2>4. QED
    BY <2>2, <2>3
<1>5. SoundCard(d, new)
  BY <1>1, <1>2, <1>3, <1>4 DEF SoundCard
<1>6. QED
  BY <1>5 DEF new, its

LEMMA AccordionInit == ResultsInit => AccordionInv
<1> SUFFICES ASSUME ResultsInit PROVE AccordionInv
  OBVIOUS
<1>1. DOMAIN cards = {} /\ DOMAIN groups = {} /\ response \in Responses
  BY DEF ResultsInit
<1>2. QED
  BY <1>1 DEF AccordionInv, CardsInv, GroupsInv

LEMMA CardsKeep ==
    ASSUME CardsInv, UNCHANGED <<response, cards>>
    PROVE  CardsInv'
  BY DEF CardsInv

LEMMA GroupsKeep ==
    ASSUME GroupsInv, UNCHANGED <<pairs, groups>>
    PROVE  GroupsInv'
  BY DEF GroupsInv

LEMMA NewCards ==
    ASSUME AccordionInv, Load \/ Focus
    PROVE  AccordionInv'
<1>1. UNCHANGED <<pairs, groups>> /\ response' = response
  BY DEF Load, Focus
<1>2. CASE Load
  <2>1. \A c \in DOMAIN cards' : \E p \in Elements(response) : cards'[c] = Card(p)
    <3>1. IsDocument(response)
      BY ResultsAssumption DEF AccordionInv
    <3>2. \A i \in DOMAIN findPeopleNodes(response) : findPeopleNodes(response)[i] \in Elements(response)
      BY <3>1, PeopleAreElements
    <3>3. cards' = [i \in DOMAIN findPeopleNodes(response) |-> Card(findPeopleNodes(response)[i])]
      BY <1>2 DEF Load
    <3>4. QED
      BY <3>2, <3>3
  <2>2. \A c \in DOMAIN cards' : SoundCard(response, cards'[c])
    BY <2>1, CardIsSound
  <2>3. QED
    BY <1>1, <2>2, GroupsKeep DEF AccordionInv, CardsInv
<1>3. CASE Focus
  <2>1. \A c \in DOMAIN cards' : /\ cards'[c] = Card(cards[c].person)
                                 /\ cards[c].person \in Elements(response)
    BY <1>3 DEF Focus, AccordionInv, CardsInv, SoundCard
  <2>2. \A c \in DOMAIN cards' : SoundCard(response, cards'[c])
    BY <2>1, CardIsSound
  <2>3. QED
    BY <1>1, <2>2, GroupsKeep DEF AccordionInv, CardsInv
<1>4. QED
  BY <1>2, <1>3

LEMMA ItemKeeps ==
    ASSUME AccordionInv, NEW c \in DOMAIN cards, NEW i \in DOMAIN cards[c].items, ToggleItem(c, i)
    PROVE  AccordionInv'
<1> DEFINE card == cards[c]
           content == AccBody(response, card.person, i)
           item == IF card.items[i].open THEN [card.items[i] EXCEPT !.open = FALSE]
                                         ELSE Shown(card.items[i], content)
           new == [card EXCEPT !.items = [card.items EXCEPT ![i] = item]]
<1>1. UNCHANGED <<pairs, groups>> /\ response' = response
  BY DEF ToggleItem
<1>2. cards' = [cards EXCEPT ![c] = new]
  BY DEF ToggleItem
<1>3. \A k \in DOMAIN cards : SoundCard(response, cards[k])
  BY DEF AccordionInv, CardsInv
<1>4. SoundCard(response, card) /\ Sound(card.items[i], <<>>, content)
  BY <1>3 DEF SoundCard
<1> HIDE DEF content
<1>5. Sound(item, <<>>, content)
  BY <1>4, ToggledIsSound
<1> HIDE DEF item
<1>6. SoundCard(response, new)
  BY <1>4, <1>5, CardWithItem DEF content
<1> HIDE DEF new
<1>7. \A k \in DOMAIN cards' : SoundCard(response, cards'[k])
  BY <1>2, <1>3, <1>6
<1>8. QED
  BY <1>1, <1>7, GroupsKeep DEF AccordionInv, CardsInv

LEMMA InlineKeeps ==
    ASSUME AccordionInv, NEW c \in DOMAIN cards, NEW mode, ShowInline(c, mode)
    PROVE  AccordionInv'
<1> DEFINE card == cards[c]
<1>1. UNCHANGED <<pairs, groups>> /\ response' = response
  BY DEF ShowInline
<1>2. \A k \in DOMAIN cards : SoundCard(response, cards[k])
  BY DEF AccordionInv, CardsInv
<1>3. PICK x, y : cards' = [cards EXCEPT ![c] = [[card EXCEPT !.mode = x] EXCEPT !.inline = y]]
  BY DEF ShowInline
<1> DEFINE new == [[card EXCEPT !.mode = x] EXCEPT !.inline = y]
<1>4. /\ DOMAIN new = DOMAIN card /\ new.items = card.items /\ new.person = card.person
  BY <1>2 DEF SoundCard
<1>5. cards' = [cards EXCEPT ![c] = new]
  BY <1>3
<1> HIDE DEF new
<1>6. SoundCard(response, new)
  BY <1>2, <1>4 DEF SoundCard
<1>7. \A k \in DOMAIN cards' : SoundCard(response, cards'[k])
  BY <1>2, <1>5, <1>6
<1>8. QED
  BY <1>1, <1>7, GroupsKeep DEF AccordionInv, CardsInv

LEMMA ChooseKeeps ==
    ASSUME AccordionInv, NEW c \in DOMAIN cards, Choose(c)
    PROVE  AccordionInv'
<1>1. /\ UNCHANGED <<response, cards>>
      /\ groups' = [g \in GroupNames(pairs') |-> Closed({})]
  BY DEF Choose
<1>2. \A g \in DOMAIN groups' : groups'[g] = Closed({})
  BY <1>1
<1>3. GroupsInv'
  BY <1>2, ClosedIsSound DEF GroupsInv
<1>4. QED
  BY <1>1, <1>3, CardsKeep DEF AccordionInv

LEMMA GroupKeeps ==
    ASSUME AccordionInv, NEW g \in DOMAIN groups, ToggleGroup(g)
    PROVE  AccordionInv'
<1> DEFINE T(h) == GroupTables(pairs, h)
<1>1. UNCHANGED <<response, cards>> /\ pairs' = pairs
  BY DEF ToggleGroup
<1>2. \A h \in DOMAIN groups : Sound(groups[h], {}, T(h))
  BY DEF AccordionInv, GroupsInv
<1>3. /\ DOMAIN groups' = DOMAIN groups
      /\ \A h \in DOMAIN groups :
            \/ groups'[h] = groups[h]
            \/ groups'[h] = [groups[h] EXCEPT !.open = FALSE]
            \/ groups'[h] = Shown(groups[h], T(h))
  BY DEF ToggleGroup
<1> HIDE DEF T
<1>4. \A h \in DOMAIN groups' : Sound(groups'[h], {}, T(h))
  BY <1>2, <1>3, ShutIsSound, ShownIsSound
<1>5. QED
  BY <1>1, <1>4, CardsKeep DEF AccordionInv, GroupsInv, T

LEMMA AllKeep ==
    ASSUME AccordionInv, NEW open \in BOOLEAN, ToggleAll(open)
    PROVE  AccordionInv'
<1> DEFINE T(h) == GroupTables(pairs, h)
<1>1. UNCHANGED <<response, cards>> /\ pairs' = pairs
  BY DEF ToggleAll
<1>2. \A h \in DOMAIN groups : Sound(groups[h], {}, T(h))
  BY DEF AccordionInv, GroupsInv
<1>3. /\ DOMAIN groups' = DOMAIN groups
      /\ \A h \in DOMAIN groups :
            \/ groups'[h] = [groups[h] EXCEPT !.open = FALSE]
            \/ groups'[h] = Shown(groups[h], T(h))
  BY DEF ToggleAll, Expanded
<1> HIDE DEF T
<1>4. \A h \in DOMAIN groups' : Sound(groups'[h], {}, T(h))
  BY <1>2, <1>3, ShutIsSound, ShownIsSound
<1>5. QED
  BY <1>1, <1>4, CardsKeep DEF AccordionInv, GroupsInv, T

LEMMA ResultsKeep == AccordionInv /\ [ResultsNext]_resultsVars => AccordionInv'
<1> SUFFICES ASSUME AccordionInv, [ResultsNext]_resultsVars PROVE AccordionInv'
  OBVIOUS
<1>1. CASE Load \/ Focus
  BY <1>1, NewCards
<1>2. CASE \E c \in DOMAIN cards :
              \/ Choose(c)
              \/ \E i \in DOMAIN cards[c].items : ToggleItem(c, i)
              \/ \E mode \in {"raw", "pretty"} : ShowInline(c, mode)
  BY <1>2, ChooseKeeps, ItemKeeps, InlineKeeps
<1>3. CASE \E g \in DOMAIN groups : ToggleGroup(g)
  BY <1>3, GroupKeeps
<1>4. CASE \E open \in BOOLEAN : groups # <<>> /\ ToggleAll(open)
  BY <1>4, AllKeep
<1>5. CASE UNCHANGED resultsVars
  BY <1>5, CardsKeep, GroupsKeep DEF AccordionInv, resultsVars
<1>6. QED
  BY <1>1, <1>2, <1>3, <1>4, <1>5 DEF ResultsNext, Idle

THEOREM AccordionInvariance == ResultsSpec => []AccordionInv
<1>1. QED
  BY AccordionInit, ResultsKeep, PTL DEF ResultsSpec

\* Every item and group that is open holds what the documents say, for every
\* response and answer (show.bs.collapse and pdToggleAll, which renders by
\* itself the groups that it opens without that event).
THEOREM NothingOpenIsEmpty == ResultsSpec => []OpenIsRendered
<1>1. AccordionInv => OpenIsRendered
  BY DEF AccordionInv, CardsInv, GroupsInv, SoundCard, Sound, OpenIsRendered
<1>2. QED
  BY <1>1, AccordionInvariance, PTL

\* A card whose items are all open shows all that the summary has a place for in
\* its person (Readable), in every document, however deep, wide or full of nil
\* elements (renderSummary and buildNodeContent of gpiv-viewer.js).
THEOREM NothingIsLost == ResultsSpec => []NothingLost
<1>1. AccordionInv => NothingLost
  <2>1. SUFFICES ASSUME AccordionInv, NEW c \in DOMAIN cards,
                        \A i \in DOMAIN cards[c].items : cards[c].items[i].open,
                        NEW r \in Readable(cards[c].person)
                 PROVE  \E i \in DOMAIN cards[c].items :
                           \E o \in ToSet(cards[c].items[i].body) :
                              r \in buildLeavesTable(response, o)
    BY DEF NothingLost
  <2> DEFINE p == cards[c].person
             held(i) == cards[c].items[i].body
  <2>2. IsDocument(response)
    BY <2>1, ResultsAssumption DEF AccordionInv
  <2>3. SoundCard(response, cards[c])
    BY <2>1 DEF AccordionInv, CardsInv
  <2>4. /\ p \in Elements(response) /\ DOMAIN cards[c].items = AccItems(response, p)
        /\ \A i \in AccItems(response, p) : held(i) = AccBody(response, p, i)
    BY <2>1, <2>3 DEF SoundCard, Sound
  <2>5. r \in Readable(p)
    BY <2>1
  <2> HIDE DEF p, held
  <2>6. PICK o \in Elements(response) :
              /\ r \in buildLeavesTable(response, o)
              /\ \E i \in AccItems(response, p) : o \in ToSet(AccBody(response, p, i))
    BY <2>2, <2>4, <2>5, ReadableIsShown
  <2>7. \E i \in AccItems(response, p) : o \in ToSet(held(i))
    BY <2>4, <2>6
  <2>8. QED
    BY <2>4, <2>6, <2>7 DEF held
<1>2. QED
  BY <1>1, AccordionInvariance, PTL

\* No table is in a card twice, in one item or in two, but for the table of a
\* Name that has sections, which is there exactly twice: for every document
\* (buildNodeContent and the _render functions of gpiv-viewer.js).
THEOREM EachTableOnce == ResultsSpec => []ShownOnce
<1>1. AccordionInv => ShownOnce
  <2>1. SUFFICES ASSUME AccordionInv, NEW c \in DOMAIN cards,
                        NEW o \in Within(response, cards[c].person) \cup {cards[c].person},
                        NEW at,
                        at = UNION {{<<i, n>> : n \in {n \in DOMAIN cards[c].items[i].body :
                                                         cards[c].items[i].body[n] = o}} :
                                      i \in DOMAIN cards[c].items},
                        Cardinality(at) > 1
                 PROVE  Cardinality(at) = 2 /\ TwiceByDesign(response, cards[c].person, o)
    BY DEF ShownOnce, TwiceByDesign
  <2> DEFINE p == cards[c].person
             items == cards[c].items
  <2>2. IsDocument(response)
    BY <2>1, ResultsAssumption DEF AccordionInv
  <2>3. SoundCard(response, cards[c])
    BY <2>1 DEF AccordionInv, CardsInv
  <2>4. /\ p \in Elements(response) /\ DOMAIN items = AccItems(response, p)
        /\ \A i \in DOMAIN items : items[i].body = <<>> \/ items[i].body = AccBody(response, p, i)
    BY <2>3 DEF SoundCard, Sound
  <2>5. at = UNION {{<<i, n>> : n \in {n \in DOMAIN items[i].body : items[i].body[n] = o}} :
                      i \in DOMAIN items}
    BY <2>1
  <2> HIDE DEF p, items
  <2>6. \/ Cardinality(at) \in {0, 1}
        \/ Cardinality(at) = 2 /\ TwiceByDesign(response, p, o)
    BY <2>2, <2>4, <2>5, PlacesInCard
  <2>7. QED
    BY <2>1, <2>6 DEF p
<1>2. QED
  BY <1>1, AccordionInvariance, PTL
=============================================================================
