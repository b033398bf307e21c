# XRoadFolk: specifications, model checking and proofs

XRoadFolk is a Razor Pages application (`src/XRoadFolkWeb`) over a client library
(`src/XRoadFolkRaw.Lib`) that looks people up in the Faroese population register
through an X-Road security server.  This directory specifies the parts of it whose
correctness depends on order and interleaving, checks them with TLC on small
instances, and proves what matters most with TLAPS for every instance.

Paths below are relative to the repository, whose own code lies under `src/`.

    tlc -workers 2 -config TokenProvider.cfg MCTokenProvider   # a run
    tlapm TokenProviderProofs.tla                              # a proof

`PROJECT.json` lists the components, the runs, the mutants that show each property
can fail, the source lines of every definition, the hazards and the theorems.

## 1. The system

| component | state | operations | modelled in |
|---|---|---|---|
| Token provider (`TokenHelper.cs`) | `_token`, `_expiresUtc`, the shared `_refreshTask`, a semaphore | `GetTokenWithExpiryAsync`, the refresh task, cancellation | `TokenProvider`, `TokenService` |
| Token cache (`PeopleService.cs`) | the process-wide `IMemoryCache`, one provider and one semaphore per request scope | `GetTokenAsync` | `TokenCache` |
| HTTP log store (`InMemoryHttpLog.cs`) | two bounded channels, a ring buffer with an approximate counter, the log file | `Add`, the ingest task, `Clear`, the file writer, `DisposeAsync` | `HttpLogStore` |
| Rate limiter (`HttpLogRateLimiter.cs`) | the start of a window, a counter, a lock | `ShouldDrop` | `RateLimiter` |
| Log stream and viewer (`SinkLogger.Log`, `LogStreamBroadcaster.cs`, the `/logs` endpoints, `logs-viewer.js`) | one bounded channel per subscriber; in the browser the open stream, pending reconnections and loads, the table | publish, subscribe, unsubscribe, list, clear, write; start, choose a kind, pause, reconnect, flush | `LogStream`, `LogViewer` |
| Log file rolling (`LogFileRolling.cs`) | the rolled files | roll, with a crash in between | planned |
| Role stores (`InMemoryRoleStore.cs`) | roles in memory and in a JSON file (`PersistentRoleStore`); in a database behind a cache (`DbRoleStore`); user overrides; audit | add, restore, remove, purge, load, persist; disable | `RoleStore` for the JSON store, the rest planned |
| X-Road client and resilience handlers (`FolkRawClient.cs`, `XRoadPollyHandler.cs`) | template cache, negative cache, breaker, retries | send, load a template | planned |
| Person details panel (`gpiv-person-details-loader.js`, `index-clear-details.js`, the Details button) | in the browser: the person asked for last, requests under way, a cache, the panel's body, XML, label, spinner and banner, the URL and its history | click, load, answer, retry, Back, submit, timers | `PersonPanel` |
| Search results (`gpiv-viewer.js`, the renderer of the loader) | the XML in the page, cards and groups with lazily filled bodies | render, open, choose, expand all | `PeopleXml`, `SearchResults` |
| Date mask (`date-mask.js`) | the text of the date field and its selection | keys, paste, blur | `MaskedDate`, `DateMask` |
| Search form (`index-form-state.js`, `Index.cshtml.cs`, `InputValidation.cs`, `/set-culture`) | the form on the page, in sessionStorage and under way; language; antiforgery key | edit, submit, clear, visit, link, change of language, answers | `SearchForm` |
| Server side of search and details (`PeopleSearchCoordinator.cs`, `PersonDetailsProvider.cs`) | details cached for some seconds | search, details | an answer that comes, is late or fails |
| Parsers (`PeopleResponseParser.cs`) | none | pure functions | `PeopleXml.Flatten` |
| Culture matching, validation of single characters | none | pure functions | not modelled |
| Configuration, markup, sign-in pages, masking | none that changes over time | | not modelled |

How they interact.  A page asks `PeopleService`, which is created for each request and
asks the token cache for a token; on a miss it asks its own token provider, which sends
a login through the X-Road client; the client goes through the resilience handlers and
logs what it does.  A logger provider hands each record to the log store, which asks the
rate limiter, and to the broadcaster, which feeds the viewers of the logs page.
Administrators edit roles in the role stores, and the claims transformation reads them
back at every request.  A search puts its XML into the page; the viewer lists the people
in it, and the Details button of one of them has the loader script ask the server for
that person.  The form of the search goes to the server with each submit, comes back
with each page, and is kept in sessionStorage in between; the date field is under a mask
that depends on the language of the page.

What is hard.  Requests run on a thread pool: every `await` of the token code is a point
where others run, and a cancelled request leaves in the middle.  The log store is
written without locks by an ingest task, a clear request and a writer task, and is
disposed while all of them run.  The rate limiter mixes a lock with plain reads.  The
role stores keep copies in memory and on disk that fail separately.  The scripts of the
page run one handler at a time, but every `await`, timer and event lets others run in
between, and what one person's details are is written in four places.  `PROJECT.json` lists
these hazards at their lines, with the properties that would catch each of them.

## 2. The modules

Every component has a module with its state, one action per step between two points
where another actor may run, its properties, its fair specification and its inductive
invariants.  `MC*` modules give TLC its model values; `*Proofs` modules hold the theorems.
A definition with a name that ends in `Mutant` is a plausible bug of the definition after
it; no specification uses it.  In each run, TLC finds the property violated once the
mutant takes the place of the definition.

### TokenService and TokenProvider

`TokenService` says what a token provider promises: it holds a token with an expiry, and
a refresh that begins only when that pair is stale replaces first the token, then the
expiry.  It has no callers, gate or tasks.

`TokenProvider` is `FolkTokenProviderRaw`.  A caller is at one of the points of
`GetTokenWithExpiryAsync` (`pc[c]`): at the gate, holding it, waiting for the task it
found or started, at the gate again to clear the task, between the clearing and the
return.  A refresh task (`status[t]`) logs in, stores the token, stores the expiry; it
observes the cancellation of the caller that started it (line 44), which is why those who
join it may be cancelled with it.  Logins may fail before the token is stored, and while
the expiry is computed, after it is stored (lines 83-107).  Tokens are numbered by login,
time is a counter, a lifetime is a choice; the formats of the expiry (ISO text, epoch
seconds, the `exp` of a JWT, thirty minutes by default) amount to that choice.

`SingleFlight`: at most one login is in flight.  `NoOlderToken`: a call returns nothing
older than what the provider held when the call began.  `TaskHasOwner`: a completed task
left in `_refreshTask` still has someone on the way to clear it, unless its starter was
cancelled.  `ServiceSpec`: the provider implements `TokenService`, which says among other
things that a fresh pair is never replaced.  `CallsEnd`: every call returns or throws.

### TokenCache

Two things are put together here: `PeopleService.GetTokenAsync`, with the cache that all
scopes share and the gate of each scope, and the provider of each scope, in larger steps
than in `TokenProvider`: a call holds the gate of its scope from before it asks the
provider until it leaves, so that no two of its calls meet.  A lookup, the wait at the
gate, the second lookup, the comparison of the expiry with the clock, the subtraction
(a second reading of the clock), and the commit of the entry are separate steps, because
the clock and other scopes move in between.

`OneLoginPerScope`, `NewestOfScope`, `CallsEnd` are the provider's promises seen from the
cache.  `ScopesAreServices`: the provider of every scope implements `TokenService`.
`CachedTokenTimely` bounds how long a dead token is served, whatever the options, the
lifetimes and the cancellations: the provider stops trusting a token at its skewed expiry,
and an entry ends at most `DefaultTtl` and the lag of its commit after that.  `Margins` is
what the skewed expiry lies ahead of the death of the token: at most the skew, and not
more than the shortest lifetime, because a login that grants less than the skew gives a
token that is never trusted at all.  The bound is reached in the run.  It does not speak
of a token that a call took from the task of a cancelled one (`joined`, a history):
such a task may lie there for any time.  It does not say that a dead token is never
served, which the code does not keep (section 4).

### HttpLogStore

`InMemoryHttpLog`, one step for each atomic operation of a channel, of the concurrent
queue or of `_size`.  An entry is the number of the `TryWrite` that accepted it.  The
ingest task reads, enqueues, counts, compares with the capacity, dequeues, uncounts and
forwards; `Clear` drains the queue and then writes 0; the writer takes a batch and
appends it, or fails after any prefix of it; `DisposeAsync` sets its flag, cancels and
completes both channels, and awaits both tasks.  Producers may be between the disposal
check and `TryWrite` all the while.

`SizeExact` and `NewestIsKept` say that the ring buffer works until the first `Clear`; the
theorems add that it keeps its capacity and evicts for no other reason.  `DiskInOrder`:
the file repeats and reorders nothing.  `QuietAfterDispose`: nothing runs once
`DisposeAsync` has returned.  `DisposeEnds` and `IngestDrains` are liveness.

### RateLimiter

`ShouldDrop`, one step for each access to the shared fields and the lock.
`AdmittedPerReset`: between two resets of the counter at most the limit is let through,
under any interleaving.  `ForwardResetsApart`: a window that starts later starts a whole
window later, because of the second look under the lock.  `BurstBound` and
`DropsJustified` hold as long as calls do not overlap: of 2L + 1 entries in a row the
first and the last are more than a window apart, and an entry is dropped only when L were
let through within a window before it.

### LogStream and LogViewer

`LogStream` is the server: a logging thread adds its entry to the store and then
enumerates the subscribers, who come and go meanwhile.  .NET's concurrent dictionary
lets an enumeration see or miss whoever comes or goes during it, and `Visit` and
`VisitedAll` say just that.  A connection is asked for, subscribes, is read and written,
leaves, is taken out of the dictionary, and its channel is completed, in separate steps.
The store is abstract here: it shows what it accepted later, in order, or never.

`LogViewer` puts one browser before it.  A script runs an event handler to its end, so
that each handler is an action.  What makes it hard is that the history and the stream
are separate requests, that `setTimeout` calls `connect` when the user may have connected
already, and that both ends find out about a lost connection at different times.
`OneStream` and `AlwaysReconnecting` are about that; `SubscriptionsEnd` says that the
server forgets a client that has gone; `LiveEntryArrives` follows an entry from
`Publish` to a row of the table.

What that row shows is another matter.  An entry goes to the browser as JSON (`Json`), of
which the model keeps the case of the names: `/logs/stream` writes the names of the
properties as they are declared (`Serialized`), `/logs` in camel case (`Listed`), and
`RowFor` makes a blank row of names that it does not know.  `LiveEntryShown`, that the row
can be read, is refuted by a run (section 4).

### RoleStore

`PersistentRoleStore`.  A request changes the list of a user under the lock of that list,
in one step, and starts a task in another: whatever ran in between is what the module is
about.  A purge looks at the lists one after the other.  The tasks take turns at
`_persistGate`; the one that has it truncates the file and serialises the live lists,
entry by entry, without their locks.  `System.Text.Json` walks a list by index, so that
entries removed meanwhile may make it miss others, or run past the end and throw.  A
write may fail when it opens the file or later; the catch-all of `Persist` hides it.  The
process may end at any point and starts again with what the file holds and the roles of
the configuration.  An entry is one of none, active, deleted; whether a deleted one is
old enough for a purge is a choice.

`QuietIsSaved`: once nobody is at work the file holds what the memory holds, unless the
last write failed, although no single write promises it.  `ChangesAreSaved`: that state
is reached.

### PersonPanel

The loader script in a tab with the results of a search.  `loadPerson` is two actions:
up to its `await` (`LoadPerson`, which every click, Retry, Back and wait ends in), and what
it does with the answer (`Answered`, `Failed`, `Rejected` for an aborted fetch).  Between
them all other handlers may run: `loadSeq` and the `AbortController` are what the code has
against late answers, and a browser may be without the latter (`canAbort`).  A person
appears in the body, in the XML of the other tabs, on the label and in the URL; each is a
variable, because they are written at different times.  A submit of the form does not
stop a load under way, and the page stays until the server has answered.

`BodyIsCurrent`: a person in the body is the one asked for last.  `PanesAgree`: XML and label
are that person's.  `UrlNamesNoOther`: once that is settled a reload leads to the same
person.  `SpinnerIsOwned`, `SpinnerEnds`: the spinner turns for a load, and stops.

### PeopleXml and SearchResults

`PeopleXml` has the pure part: a document is a tree of elements with names, texts, nils and
attributes, and each function of `gpiv-viewer.js` and of the flattening is an operator on
it, recursive ones as recursive functions.  `IsDocument` says what a parsed document is: one
root, and elements numbered in document order (what lies between an element and its parent
lies within the parent).  `InTurn` joins what a function makes of elements in that order;
it stands for the loops over `children`.  What an element says is left out but for the
ids.  `SearchResults` is the page over it: cards whose items are filled when they first
open, the groups of the details panel of the person chosen, the label.

`Readable` says without these functions what the summary has a place for in a person:
every element without content and every attribute, unless it lies in a nil element, is an
id, or lies where nothing is listed (a second `Names`, a `Names` under a group, text beside
the `Name` elements: section 4).
`NothingLost`: a card whose items are open shows all of it.  `ShownOnce`: and shows nothing
twice, but for one case in the code.  `OpenIsRendered`: what is open holds what the
documents say, by whichever way it was opened.

The label is in the model (`OfficialName`), and no property is about it: it bears the first
official name in the pairs, which is a relative's when the person chosen has none
of their own, and nothing in the repository says otherwise.

### MaskedDate and DateMask

`MaskedDate` is the text under the mask, `DateMask` a key pressed in the field: what the
browser does to the text and the caret, then `onKeyDown` and `onInput`.  `TypedInPlace`: a
digit replaces the selection, no other digit moves or is lost, and the caret is behind it.
(A page may arrive with more than eight digits, which the mask cuts; the property is about
fields that hold up to eight.)  `BackspaceAdvances`: Backspace gets on where the mask puts the
hyphen back.  The modules share `lang` and `text`, declared in `MaskedDate`, with `SearchForm`.

### SearchForm

The form and its three copies: on the page (`text`, `who`, `token`), in sessionStorage
(`kept`), and in a request under way (`pending`).  A navigation is two steps, and until the
server answers the old page can be edited and another navigation can replace the first.
The page that comes has fields rendered by the server, over which `load()` writes what is
kept, the antiforgery token included (`Arrive`).  A change of language goes through
`/set-culture` and comes back to the address of the page, with whatever criteria are in its
query (`url`); the field keeps its text until it is left, and the mask then cuts the digits
in the format of the new language.  `TryParseDob` reads a text in both exact formats, in the
culture's own, and, for what is no whole date, in one of the ways of `DateTimeOffset.TryParse`
(`Lenient`).  A redeployment may replace the keys that tokens are protected with.

`NeverMisread`: a whole date is searched as the day that was entered or refused, never as
another.  `ClearStaysClear`: no visit and no change of language brings back what was
cleared.  `ResultIsOfForm`: the form beside a result is the one that was searched for.

## 3. The runs

| run | instance | states | shows |
|---|---|---|---|
| `token_provider` | 2 callers, 1 cancellable, 3 logins, clock 0..1 | 136 000 | one login, answers do not age, refinement, liveness |
| `token_cache` | 2 scopes, one with 2 calls, 1 cancellable, 2 logins, clock 0..5, lifetimes 1 and 3, skew 1, `DefaultTtl` 2 | 98 000 | one login in a scope, a dead token is served for a bounded time, refinement, liveness |
| `http_log` | 1 producer, 1 clearer, capacity 1, channels of 2, batches of 2, 3 entries | 133 000 | ring, file and disposal of the store |
| `rate_limiter` | 2 threads, limit 1, window 2, clock 0..4, 4 calls | 108 000 | the limit, the windows, bursts and drops |
| `log_viewer` | 1 thread, 1 entry, 2 connections, 1 load, a click and a loss | 116 000 | one stream, no leak, live entries arrive |
| `live_entry` | the same, no click and no loss | | violation, section 4 |
| `logs_page` | 2 entries, pages of 1 | | violation, section 4 |
| `role_store` | 2 requests, 2 users, 1 role, 1 seed, 2 operations, a failure and a crash | 156 000 | the file follows the memory |
| `person_panel` | 2 persons, 3 loads, with and without `AbortController` | 88 000 | the panel shows one person, the last one, and its spinner stops |
| `search_results` | documents of up to two persons, details of one or more, 4 clicks | 785 000 | nothing lost, nothing twice, nothing empty |
| `date_mask` | 2 digits, a clipboard, a date, nine digits or nothing to start from, any number of keys | 56 000 | keys in a field that formats itself |
| `search_form` | 4 dates, 2 links, 3 edits, 1 loss of the keys | 797 000 | the form on its way through server, storage and languages |

Bounds.  `MaxTime`, `MaxLogins`, `MaxCalls`, `MaxEntries` and `MaxClears` end the counters
and are guards of the actions that move them.  Three logins let one follow another that
follows a third, which is what `NoOlderToken` needs to fail (an old task cleared by a late
caller while the next is under way).  In `token_cache` two
logins let the scopes overwrite each other's entry and let a call of one scope follow
another that failed or was cancelled; the lifetimes lie on either side of skew and
`DefaultTtl`, so that tokens are cached with their own end and with the default one, and
five ticks let an entry end and another follow.  Three entries overflow a ring of one and a channel
of two.  Four calls fill a window, overflow it, and open the next.  In `log_viewer` two
connections let a subscriber leave in the middle of an enumeration; one entry is enough
for two rows, because history and stream both deliver it.  In `role_store` two operations
let one overtake the write of the other; any content of the file is an initial state, so
that a purge finds deleted entries at once.  In `person_panel` three loads are a first
one, one that overtakes it, and one that comes from elsewhere (Back, Retry, a wait).  The
documents of `search_results` are every person of four elements besides itself, with
nested names and one nil element or none, and larger ones for what needs more: sections in
a name, repeated groups, attributes, an id within another person's entry.  `date_mask` has no bound on its keys: the field holds eight digits.
The dates of `search_form` are one in each language's format, whose digits the other
language cuts into no day and into a day of the year 1012; half a date; and none.  Every
mutant of `PROJECT.json` is caught within these bounds.

Deadlock is checked in every run: where the bounds let the program become idle (nobody
calls, or those who do wait), its specification has a `Rest` step (`Idle` in `SearchResults`), so that a deadlock that
TLC reports is a state in which someone who should go on cannot.

Fairness.  Weak fairness of the steps of a call or a task that has begun: the thread pool
runs continuations, and a request to the security server ends, with an answer or an
error.  Strong fairness of taking a gate: `SemaphoreSlim` serves its waiters, none is
overtaken for ever.  In `LogViewer`, weak fairness of an enumeration, of an
endpoint and of each kind of event of the browser.  In `RoleStore`, weak fairness of the
constructor, of a request that has begun, and of the tasks; a failure, an overrun or the
end of the process is never obliged.  In `PersonPanel`, weak fairness of the page's own
timers and events, and of the network: the server answers or the browser gives up.
Nothing obliges a client to call, to cancel, to clear, or to dispose, nor a user to click.
`RateLimiter`, `SearchResults`, `DateMask` and `SearchForm` state safety only, and no fairness.

## 4. Where the code and its documentation disagree

* `logs_page`.  `/logs` pages through the entries oldest first, and the viewer asks for the
  first page only (`WebApplicationExtensions.cs:683`, `logs-viewer.js:135`): with more
  than 100 entries of a kind it shows the oldest, where line 663 says recent ones.

* `live_entry`.  A streamed entry is serialised with the default options, names in Pascal
  case (`WebApplicationExtensions.cs:738`), and `rowFor` reads camel case
  (`logs-viewer.js:44`): the row of a live entry is blank, and under a text filter there is
  none, whereas `README.md:11` has a live viewer and `docs/logging.md:11` streams entries to
  it.
The models have the following too; no run is kept for them.

* A token whose skewed expiry is already past when it is cached gets `DefaultTtl`
  (`PeopleService.cs:205`), as if the provider had named no expiry
  (`TokenCacheOptions.cs:16`), and is served after its death.  With the defaults that takes
  a token granted for little more than the skew of 60 seconds, or less: it may be served
  for four to five minutes too long (`CachedTokenTimely` is the bound).
* The second `_gate.WaitAsync(ct)` of `GetTokenWithExpiryAsync` is in a `finally` block and
  throws when the caller has been cancelled (`TokenHelper.cs:59`), so that the completed
  task stays in `_refreshTask`.  Once its token has expired the next call joins that task
  and returns the expired token, against `TokenCacheOptions.cs:11`.  A provider lives for
  one request, and a cancelled request seldom asks again.  `TaskHasOwner` has the
  exception, and so has `CachedTokenTimely`.
* `Clear` writes 0 to `_size` after it has drained the queue (`InMemoryHttpLog.cs:299`): what
  was ingested in between is never counted again, and the queue exceeds `Capacity`
  (`HttpLogOptions.cs:12`) for good.  The ring properties hold until the first `Clear`.
* A thread that read the clock before another opened a window finds a negative elapsed
  time, also under the lock, and resets the new window to the older start
  (`HttpLogRateLimiter.cs:57`), which the second reading was to avoid (line 54).
  `ForwardResetsApart` speaks of forward resets only.
* The 800 ms timer of `waitForSummaryThenLoadOnceOrInform` (loader, line 167) is not stopped
  when the person has come: it replaces the panel by "Select a person to view details."
* Criteria in the query of a link are overwritten in the fields by the kept form, whereas
  `Index.cshtml.cs:139` says that they pre-fill the inputs; the result beside them is the
  link's.  `ResultIsOfForm` is about searches of the form.
* After a loss of the keys, a reload restores the stale antiforgery token with the rest of
  the kept form, and every submit is answered 400 until the storage is cleared.
* A date typed in one language and left in the other is cut anew.  It is refused or the
  same day only because `TryParseDob` takes no day before 1900.  Half a date is given to
  `TryParse`, which may make a day of it, though `DobAttribute.cs:7` says yyyy-MM-dd.

Met on the way, and not runs of their own: the same `Clear` can leave the counter one too
high, and evictions come one entry early from then on (`docs/logging.md:25`); an entry the
full ingest channel drops is in no counter, because `TryWrite` succeeds with
`DropOldest` (`InMemoryHttpLog.cs:173`, `docs/logging.md:27`); entries in the channels are
lost when the store is disposed; a `TryWrite` after disposal is counted as backpressure;
the flush interval option is not read by the writer; overlapping calls of one provider
may return a token with the expiry of another login; an entry that is published before the
viewer subscribes and ingested after it has loaded the history is in neither, and one in
between is in both; rows that wait to be flushed, and answers on their way, are shown
although another kind has been chosen since; entries written by `POST /logs/write` are not
streamed; a role of the configuration that an
administrator has removed is back after a restart, because the constructor adds it again
(`InMemoryRoleStore.cs:321`); a process that ends while the file is truncated leaves one
that the next start cannot read and overwrites with the configured roles alone; a failed
write is not tried again until the next change, and only the constructor's is logged
(line 336); `DeletedUtc` is local time in one operation and UTC in the others
(lines 329, 331), while the purge compares with UTC.

And in the scripts of the search page: the XML tabs and the label keep the previous person
while another loads, after a failure and after a submit; the banner of an error is hidden
when the panel has finished opening (`_GetPeoplePublicInfoViewer.cshtml:186`); each reload
of a page with a `publicId` pushes that entry once more; `findFirstPublicIdFromEmbeddedXml`
(loader, lines 166, 167, 214) does not exist; the Details button of a card without an id
loads the person before (viewer, line 340); a `PublicId` at any depth makes an entry a
person's (loader, line 49); `if (nodes.length > 0, nodes)` (viewer, line 213) is always
true, so that the search for other elements after it never runs; a person in a person is
listed twice; a second `Names`, a `Names` under a group and text directly in a `Names` are
never shown; a `Name` with sections shows its table twice; pairs under `Status` belong to no
group; all addresses of a person are merged into one card (`gpiv-helpers.js:18` takes the
index from the wrong segment); Delete does not get past a hyphen; the adapters of
client-side validation do nothing, because no page loads jQuery.

## 5. What is proved

Each proof module holds for every value of the constants that satisfies the named
assumption of its component (`ProviderAssumption`, `StoreAssumption`, ...), which TLC
evaluates in every run.

* `TokenProviderProofs`.  The inductive invariant says who holds the gate, that a task
  that runs is the one in `_refreshTask`, that a caller that waits for a task waits for
  one that has started, and what each caller has seen.  From it: type correctness,
  `SingleFlight`, `NoOlderToken`, `FreshTokenKept` (only an expired token is replaced), `TaskHasOwner` (if the starter cannot
  be cancelled a completed task is always cleared), and the refinement of `TokenService`.
* `TokenCacheProofs`.  `GateInv` (one call of a scope past its gate), `RestInv` (a scope
  without a call past the gate has no login in flight) and `LoginInv` (what that call has
  in hand is the newest token) give `OneLoginPerScope`, `NewestOfScope` and
  `ScopesAreServices`.  `CachedTokenTimely` needs four more: the token of a login in flight
  is nobody else's, so that no login moves the death of a cached token (`FreshInv`); the
  expiry in a fresh provider is that of its token (`HeldInv`); the provider trusted the
  token of a call on its way to the commit when it gave it, as long ago as the lag says
  (`PromptInv`); and an entry ends in time (`CacheInv`).  No assumption is made on the
  options or on cancellation.
* `HttpLogStoreProofs`.  `RingInv` relates the counter, the queue and the step the ingest
  task is in, until the first `Clear`; the two ring properties of the run follow, and
  `QueueWithinCapacity` and `EvictOnlyOverCapacity`.  `PathInv` says
  that log file, batch, file channel, the entry in hand and ingest channel hold ever newer
  entries; `DiskInOrder` is its first conjunct.  The lemmas about channels and sequences
  (offer, tail, split, concatenation) keep that order.  `EndedInv`: what `DisposeAsync` has
  waited for has ended; hence `QuietAfterDispose`, an action property.
* `RateLimiterProofs`.  `since <= count` gives the limit; mutual exclusion under the lock,
  and that the holder's reading of the start is current, give `ForwardResetsApart`.
  `BurstBound` and `DropsJustified` are about the history of the entries let through, which
  the code does not keep.  While calls do not overlap (`SequentialInv`) its last entries, as
  many as the counter says, lie in the window that is open; all others came before it, and
  those more than L entries earlier more than a window before its start, because the
  window before took at most L (`WindowInv`).
* `LogViewerProofs`.  `AlwaysReconnecting` and `OneStream` are inductive together with the
  types of three variables; a lemma about `connect()` serves the three handlers that
  call it.
* `RoleStoreProofs`.  `QuietIsSaved` is not inductive.  The strengthening says that every
  change is owed a write, by the request that made it (a purge from the first entry it
  removes) and then by its task until that takes the gate; that what has not yet been
  written is blank in the image of the file; and that while nothing is owed what has been
  written is what the memory holds.  When the file is closed the two meet.

* `PersonPanelProofs`.  The invariant ties three things to the log of loads: an awaited
  request is of the load of its number, a kept entry is of its own key, and `window.lastPid`
  names the latest load unless a click that will load it is still to run.  From it
  `BodyIsCurrent`, `PanesAgree`, `SpinnerIsOwned`, `UrlNamesNoOther`, and that Retry repeats
  the latest load.
  The second half is about the cards of the results page, for every document.  The recursions of
  `PeopleXml` are recursive functions; that each has a solution is proved (`JoinedStep` along
  the document, `ContentStep` against it, because a section comes after what it is in).  What
  is joined holds what its parts hold (`InTurnRange`).  An element is reached from a child of
  the person by sections if nothing between them is nil or a Names (`SectionsReach`, by
  induction on its place); a leaf that has a place has a parent that has one
  (`LeafHasOwner`); so all that has a place is in the table of an element that an item shows
  (`ReadableIsShown`).  Each element is joined once, because two children have no descendant in
  common (`KidsApart`, `ContentCount`), and no element is in two items (`ItemsApart`).
  `AccordionInv` carries this over the clicks: a card belongs to an element and has all the
  items of it, a body is empty until it is rendered and then that of its person and item,
  and Choose gives the panel new groups.  From it `OpenIsRendered`, `NothingLost` and
  `ShownOnce`.
* `SearchFormProofs`.  First the mask, for every text: `DigitsOnly` is a homomorphism, the mask
  keeps up to eight digits, and an empty field stays empty.  `IInv`: the three copies of the
  form agree until an edit tells them apart, and after Clear nothing under way brings
  criteria back.  From it `ResultIsOfForm` and `ClearStaysClear`.
  `DayInv`: wherever the date is kept or under way, its digits are none, or eight that no
  format reads as another day than the one meant.  It is inductive because the mask moves
  hyphens only, and because eight digits are never a day in both orders: years begin at
  1900, so that digits read with the year first have a month of 19 or more, or one of
  more than 12, when they are read with the year last (`OneReading`).  From it `NeverMisread`.
  `FieldInv` says only that the selection lies in the text.  `TypedInPlace`: the caret behind
  the n-th digit cuts the digits of a text after the n-th (`CaretCuts`).  `BackspaceAdvances`:
  the mask of the first n digits is a prefix of the mask of all and ends in a digit
  (`MaskGrows`), so that the n-th digit is at the same offset before and after the key.

Induction over the length of a text or a document goes through `WellFoundedInduction`, in a
form that takes a set in place of a predicate (`Induction`).  `DigitsOnly`, `Joined`
and `buildNodeContent` are recursive functions, whose defining equations are proved
(`PrefixStep`, `JoinedStep`, `ContentStep`) and not assumed.

Only model-checked: every liveness property (fairness and ENABLED are beyond the prover),
and the server of `LogStream`.

## 6. What is not modelled

Text: formatting, masking, resources, markup, the characters of names and SSNs.
Configuration: read once and validated.  Two `DisposeAsync` calls at once (in the
application nothing calls it: the container sees the masking wrapper, which is not
disposable, and the queued lines are lost when the process ends; the module models the
class as it is offered).  The filters of the log viewer, its cards, and further pages of
`/logs`.  The wrap of counters and of the tick count.  A clock that goes backwards.  Focus,
full screen, heights, copying and downloading.  The adapters in `validation-*.js`, which
never run.  The server's cache of details, which is an answer like any other to the page.
Vendored scripts (`wwwroot/lib`) and the build script of the assets.

## 7. Plan

What remains, most important first:

1. `LogRolling`: the renames of a roll with the end of the process between any two, and the
   writer that appends in between; it joins `HttpLogStore`, where a line that is appended is
   on disk.
2. `DbRoleStore`: the cache before the database, the tracked entities that a failed
   `SaveChanges` leaves behind, restarts; with it the user overrides and the claims enricher
   that reads both.  Theorem: what cache and database agree on.
3. `XRoadPipeline`: the client's retries inside the handlers' timeout, breaker and
   retries, and the template caches with their negative entries.
4. More proofs: the subscriptions in `LogStream`.
