# heinapp-backend-service: a verification development

The service is a Django REST backend for a housing community: a calendar that
caches a CalDAV server, bookings of a workshop on Saturdays, a contact form, and
user accounts. This directory holds TLA+ modules that model its state changes,
TLC configurations that check them on small instances, and proofs that TLAPS
checks for every value of the constants.

    tlc -config cal_faulty.cfg MCCalendar.tla     # one run
    tlapm CalendarProvenance.tla                  # the proofs of one module

## 1. Inventory

### How it runs

`docker-entrypoint.sh:12` starts gunicorn with two uvicorn workers. Each worker
serves several requests at once, each in a thread of its own; the two share
PostgreSQL and the CalDAV server, but `conf/settings.py` sets no `CACHES`, so the
Django cache is one `LocMemCache` per worker. There is no `ATOMIC_REQUESTS`: a
database statement takes effect at once, and only the sync of the calendar and a
Django `delete()` with a cascade are transactions. So every handler is a sequence of
single accesses to shared state, and everything between two of them is stale.

### Components

| Component | State | Operations | Hard behaviour | What makes it correct |
|---|---|---|---|---|
| calendar: event sync (`GET /calendar/events/`) | table `CalendarEvent`, keys `caldav_synced_…` per worker and month | read the cached rows, decide, search the server, merge, commit (bulk create, bulk update, zombie cleanup), mark months, answer | applies at commit what it searched before; a failure after the decision falls back to the rows read; a failed search looks like an empty one | never deletes a row of a living event; never answers from the cache while the server has more; converges to the server |
| calendar: event writes (create, update, delete) | CalDAV server, then one row | validate against the cache, write the server, write the row | two stores, no transaction over both; a lost answer; a crash between | what a row shows was on the server; write-through; no room booked twice |
| calendar: single occurrences | the master's EXDATEs, a standalone event | read the master, save it with one more EXDATE, save a replacement, write two rows | read-modify-write without `If-Match`; two saves | no EXDATE or newer version is lost; the occurrence and its replacement are never both on the calendar |
| calendar: CalDAV service | none (a connection per request) | connect, search, look up, save, delete; conversion to and from iCalendar | errors become `None`, `False` or `[]`; times come back in UTC, whole days as midnights in UTC | an operation that reports failure did nothing, or a sync repairs it; what is written is read back, whole days with their dates, and a rewritten series stays where it was |
| calendar: room validation | reads the rows | overlap query with lists of excluded uids | stale rows, series known by their first occurrence | no double booking |
| calendar: admin | rows | add, edit and delete rows without the server | an edit saves a row read before; the next sync overwrites it or brings it back | a sync repairs the cache |
| workshop: bookings | table `WorkshopSlot` with `unique_slot_per_date` | book, cancel; the admin adds, changes, deletes; an account's deletion cascades | `clean` queries and `save` inserts; `cancel_slot` reads and then deletes | one booking per slot, one per member and day, a cancellation removes only the member's own |
| workshop: slot listing | reads | a query per Saturday from the UTC date, a query per owner of a row | not one snapshot; an account deleted between row and owner; the date around midnight | what it shows and what a booking is told agree; it fails only if an account was deleted meanwhile; the next four Saturdays |
| contact | table `ContactMessage`, the mail server | save, mail the admins, mail the sender; the admin changes the status or deletes | no transaction: a mail fails, the visitor gives up or the worker dies after the save; retries make copies | 201 means stored and told; nobody is told twice of one message; retrying succeeds |
| users | accounts, groups | `UserViewSet`; registration and tokens are djoser and SimpleJWT | | no state of this code's own beyond the accounts, see 7 |
| core | none | the exception handler; waiting for the database | an uncaught error is a 500 | used by the handlers above |
| conf, deployment, templates | none | configuration, reverse proxy, mail texts | | not modelled |

The calendar's handlers interact only through the three stores: rows, server,
keys. Other calendar clients (Nextcloud, phones) edit the same CalDAV calendar.
Workshop, contact and calendar share nothing but the accounts.

## 2. Modules

| Module | Models |
|---|---|
| `CalendarData` | events, rows and ranges; the pure functions: the search window and what a search returns, `get_cached_events`, `should_sync_with_caldav`, `_synced_months_key`, the merge, the three bulk statements, the row writes, the serializer's validation and the two exclude lists, `_add_exdate_to_master` |
| `CalendarState` | the variables, the memory of a request, `Init`, and the control helpers |
| `CalendarSync` | `get_events`, an action per access to shared state |
| `CalendarWrites` | `create_event`, `update_event`, `delete_event` |
| `CalendarOccurrences` | `create_exception`, `delete_occurrence` |
| `CalendarApp` | composes the handlers with the clock, other calendar clients and crashes; fairness; the properties |
| `CalendarAdmin` | adds the Django admin's edits of rows to `CalendarApp` |
| `MCCalendar` | instances of `CalendarAdmin` for TLC |
| `CalendarProofs` | type correctness, and that primary keys tell rows apart, proved |
| `CalendarProvenance` | the cache shows only contents the server has had, proved |
| `CalendarHandlers` | what each step of a handler does to the stores, as lemmas; a sync deletes only zombies, proved |
| `CalendarExdates` | an occurrence is suppressed before it is replaced, with any number of threads, failures and crashes, proved |
| `CalendarSerial` | one request at a time: cache and server agree, answers miss nothing, rooms are booked once, proved |
| `Workshop` | bookings and the listing of slots, an action per query |
| `SlotRegister` | the abstract specification of `Workshop`: a register of slots in which requests take effect at once |
| `MCWorkshop` | instances of `Workshop` for TLC |
| `WorkshopProofs` | types, what the listing shows, one booking a day, own cancellations and the refinement of `SlotRegister`, proved |
| `Contact` | the contact form from the request to the answer, visitors who try again, the admin |
| `Postbox` | the abstract specification of `Contact`: a box of letters of which the admins are told |
| `MCContact` | instances of `Contact` for TLC |
| `ContactProofs` | types and the refinement of `Postbox`, proved |
| `CivilTime` | the Gregorian calendar and Europe/Berlin as `datetime` and `zoneinfo` have them (external) |
| `ServiceDates` | the default search window, the months of a range, the listed Saturdays, as computed by the code |
| `EventTimes` | how the CalDAV service turns events into iCalendar and back |
| `Dates` | a clock that runs through the hours of two years, and what the two modules above must satisfy at each |
| `DatesProofs` | the same at every hour, and for series of any length, proved |

`CalendarData` ← `CalendarState` ← `CalendarWrites` ← `CalendarOccurrences` (with `CalendarSync`) ←
`CalendarApp` ← `CalendarAdmin` ← `MCCalendar`; `Workshop` instantiates `SlotRegister`, `Contact` instantiates
`Postbox`, `Dates` extends `ServiceDates` and `EventTimes`, which extend `CivilTime`. The theorems about the calendar are about
`CalendarApp`: its rows are those the endpoints write. The admin is added in a module above, because it
breaks `RowsReflectServer` on purpose: a superuser can type anything into a row.

### Calendar: state and actions

`server` is the calendar by uid, `rows` the table by uid (every row the code
writes has `recurrence_id` NULL, so a uid names one row), `marks[w][m]` the
time at which worker `w`'s key for month `m` expires, `now` the clock. `pc[p]`
and `mem[p]` are a thread's place in its handler and its local variables:
`seen` is `cached_events`, `found` what the search returned, `master` the
recurring event that was read, `source` where `response_events` comes from.
`issued`, `held` and `absent` are observers that no guard of the code depends
on, except that a new uid is one not issued (uuid4).

An action is one access to shared state with all the local work around it.
`get_events`, for instance, is `GetBegin` (parse the parameters, read the rows),
`GetDecide` (`should_sync_with_caldav` reads the keys), `GetConnectFails` /
`GetSearch` / `GetSearchFails` (the server, and the merge in memory), `GetCommit`
/ `GetCommitFails` (the transaction), `GetMark`, `GetReply`. The writing
handlers have, for each call to the server, four outcomes: it works; it fails
and the server did nothing; it fails after the server did it (`…Lost`: the answer
timed out); the worker dies before or after (`Crash`). The handler's own reaction
to each is in the action.

Abstractions:

- Time is a line of instants cut into months of `MonthLen`; a recurrence rule is
  its COUNT, `Period` instants apart. `title` stands for every field no decision
  depends on. Two contents of it matter: `Unparsable` ones, which `_parse_event`
  drops (no DTEND), and rules in `BadRules`, which `_create_ical_content` drops.
- A request the serializer refuses changes nothing and is not received. A lookup
  on the server that fails counts as one that found nothing, as in the code.
- The database reads at the start of `update_event` and of `create_exception` are
  one step. `DeleteBegin` includes the lookup, as no state is kept from it.
- The lists of excluded uids are only used for a community room.
- New rows take the least primary keys that no row and no request holds (`FreshIds`): the database never gives one
  twice, here one may come back once it is forgotten everywhere, which keeps TLC's state space finite. The bulk
  statements of a sync find their rows by primary key, as `bulk_update` and `delete` of Django do, so they also reach a row
  whose uid the admin has changed meanwhile; `bulk_create` finds a conflicting row by its uid.

### The calendar's admin

`AdminForm` is a valid form: Django loads the row, puts the form's fields into it and
checks that no other row has the uid; `AdminSave` writes all columns by primary key, or
inserts the row again if a sync has deleted it meanwhile; `AdminConflict` is the unique
constraint refusing a uid that was free when the form was checked. `last_synced_at` is
read-only and NULL in a row that is added; `should_sync_with_caldav` skips such rows and syncs if there
are no others (`Stale`). A form's content is one of `ExternalEvents`. Typing a `recurrence_id` is left out:
no other code writes one, and `get_cached_events` hides such rows from everything.

### Workshop: state and actions

`bookings` is the table, `nextId` the sequence of its keys, `users` the accounts.
`SaveClean` / `SaveRefused` are `clean()`'s query, `SaveWrite` / `SaveConflict` the
INSERT or UPDATE with the unique constraint and the foreign key, the only checks
made by the database itself. `CancelFound` / `CancelNotFound` are `get()`,
`CancelDelete` the delete by primary key. The admin's form checks `clean` and the
constraint once more before it saves (`AdminBegin`). Deleting an account and its
bookings is one step, as Django's cascade is a transaction.

The listing (`ListBegin`, then for each listed Saturday `ListDay` and `ListOwners`, at the end `ListReply`)
takes one query per Saturday; `booking.user` is one more for each row, taken together in
`ListOwners` (only whether all accounts are there matters; if one is gone the listing is answered 500,
`ListFails`). `Entries` says of each slot what the code does: available if no row takes it, also on a day on which the
member has a booking, or the member's own. `shown` is an observer: per member and day what the last query for it showed,
emptied by the next save, since a save is what may rightly take a slot away.

`SlotRegister` is what requests are told. A booking is answered 200 only if it took a free slot for a member who is
still there, and is refused only for a reason that holds when it is refused: no Saturday, no account, the slot taken or
another slot of the day the member's. A cancellation is answered 200 if it released the slot, or if what it had read was
removed before its delete; which requests these are is kept in `overtaken`, to which only a step that frees the slot for the
member may add them. A listing is answered 500 only if an account was deleted while it was made.

### Contact: state and actions

`messages` is the table, `nextId` its sequence, `adminMails` and `confirmations` the mails that went out, each
by the message it is about. `pc` and `mem` are a thread's place in `submit_contact_form` and its message;
`waits`, `answer` and `tries` belong to the visitors: the thread each waits for, the last answer, how often the form
was sent. `removed` is an observer. `Submit` / `SubmitInvalid` are `is_valid()`, `Save` the INSERT, `Notify` the
mail to the admins, which raises (`NotifyFails`; `NotifyLost` if it went out nevertheless; `NotifyBadHeader` when the
subject cannot hold the sender's name because of a line break in it), `Confirm` the mail to the sender, which fails
silently, and the 201. A visitor may stop waiting (`GiveUp`) while the handler goes on, and sends the form again after
a 500 or no answer. `EditBegin` / `EditSave` are the admin's form: status and notes are editable, all columns are
written, and a row deleted meanwhile is inserted again. `Crash` is of a worker: all its threads stop where they are. `AnonRateThrottle` has no rate configured and lets every
request pass. The reply to a request whose worker died is the proxy's; it counts as a 500.

### Dates

Time is counted in hours, which tell zones and days apart; the code's minutes and seconds change nothing in these
functions but `KeysAreMonthsTouched`'s comparison with midnight, which the hours include. `SyncedMonthKeys` and
`SearchEnd` are the code's own arithmetic; `CalendarData` has them for months of one length. A series is weekly
with a count; `Occurrences` expands it on the clock its iCalendar form has, as RFC 5545 says. The API hands times
to the service in Europe/Berlin (the serializer's fields), `_parse_event` in UTC: so a series ends up "zoned" or
"utc" according to who wrote it last. `CivilTime` agrees with Python's `datetime` and `zoneinfo` for each hour of
2024 to 2030.

## 3. Runs

Instances are named in the cfg, and defined in `MCCalendar` and `MCWorkshop`.

| Run | Checks | Shows |
|---|---|---|
| `cal_sequential` | `QuiescentAgreement` | One thread, all six endpoints, series and standalone events, keys that expire, no failures: whenever no request is in progress, cache and server agree on every event. |
| `cal_faulty` | `TypeOK`, `RowsReflectServer`, `CleanupSound` | Two threads in two workers, every endpoint, an outside edit, one failure (connect, commit, save, lost answer) or crash: rows show only contents the server has had; a sync over the whole calendar removes only rows of deleted events. |
| `cal_masking` | `NoMasking` | One request at a time in two workers, for whole months, while keys expire and events are created and deleted: an answer given without a sync misses nothing, though no worker knows the keys of the other. |
| `cal_booking` | `NoDoubleBooking` | One thread, standalone events: the overlap query with its half-open intervals keeps a room from being booked twice. |
| `cal_exceptions` | `SuppressedBeforeReplaced` | One thread with two failures or crashes, updates included: a replacement is stored only when its occurrence is suppressed on the server. |
| `cal_converges` | `Converges` | Two threads and any three of these: two writes (of contents the service cannot send whole, too), an edit outside (by another calendar client, or in the admin of rows), a failure of any kind. With clients that keep refreshing the whole calendar the cache comes to agree with the server and stays so. |
| `finding_zombie_series` | `CleanupSound` | violated, see 5 |
| `finding_lost_exdate` | `AddsOnlyItsExdate` | violated, see 5 |
| `workshop_sequential` | `TypeOK`, `OnePerDay` | One thread, the admin and account deletion: a member has one booking a day, and no booking outlives its account. |
| `workshop_races` | `ActsAtOnce`, `CancelsOwn`, `HonoredOffer` | Two threads booking, cancelling and listing, the admin adding and deleting, accounts deleted: the table implements `SlotRegister`, a cancellation removes only its member's booking, and a slot shown as available is refused, until the next save, only on a day on which the listing also shows the member a booking. |
| `contact` | `TypeOK`, `KeepsPromise`, `EventuallyAccepted` | Two valid intents and one refused, three threads in two workers, one failure, crash or visitor giving up, two edits by the admin: `Contact` implements `Postbox`, and a visitor who keeps trying is answered 201. |
| `dates` | `WindowReachesNextMonth`, `KeysAreMonthsTouched`, `OffersComingSaturdays`, `WrittenIsReadBack`, `WholeDaysKeepDates`, `DeletesOneOccurrence`, `EditKeepsOccurrences`, `EditUndoesShift` | Each hour of 2024 and 2025: the date functions do what they are for, with the exceptions the properties name. |

Each property holds only within what its run allows; section 5 says what breaks
it beyond. That division is the main result: `QuiescentAgreement`, `NoDoubleBooking`, `NoMasking`
and `OnePerDay` are properties of one request at a time, `SuppressedBeforeReplaced` of one request at a time about each event;
`RowsReflectServer`, `CancelsOwn`, `ActsAtOnce`, `HonoredOffer` and `KeepsPromise` survive any interleaving.
`AddsOnlyItsExdate` is what the code says `_add_exdate_to_master` does, and two requests are enough to break it. In `contact` and
`dates` the visitors' tries and the clock run out, so these runs do not check for deadlock.

### Bounds

`MaxWrites`, `MaxEdits`, `MaxFaults` and `MaxNow` bound write requests, outside edits,
failures and clock ticks; GETs are unbounded. Two or three uids, one of them left
for each new event (`SpareUid`). One write besides a sync, or two writes, are
what a race over one event takes: every property about races relates a step of
one thread to one other. Sequential runs allow three or four writes, enough to
create, change, except and delete the same event with a sync anywhere between.
Three months of four instants hold an event inside a month, one at its border and a
series across them. `TTL` is one tick, so a key and a row are fresh, just expired
or long expired within three ticks. `Ids` has a key for each row and one for each that
a request may still remember; with seven keys in the place of five the runs `cal_faulty`, `cal_masking` and `cal_converges`
have the same distinct states, so five are never too few.
`cal_faulty`, `cal_masking` and `workshop_races` use symmetry of threads (of workers
named after their threads, and of members); no constant of the model orders them, and
the properties checked there are safety properties. `cal_booking` and `cal_masking` name no occurrences (`Occs = {}`), as they
have no series; two months are enough for `cal_masking`, as a key speaks of one month and nothing is asked that crosses them.
`cal_masking` lets any thread serve a request but one at a time (`SerialSpec`): what its two workers do not share is the keys.
`cal_converges` allows two writes, one edit and one failure, but only three of the four in a behaviour (`AtMostThree`): all
four together hold as well, but are five million states and do not fit the time a run may take. `BadRules = {2}` there makes one of the two
payloads one whose rule cannot be sent.

`workshop_races` lists two Saturdays of three dates, so a day is asked for before and after a save or a deletion;
the rule of the listing is the same for four, and two slots a day are enough for one that is free and one that is the
member's. Two writes are a booking and one that races it. `workshop_sequential` has no listing, which writes nothing. `contact` lets a visitor try twice (`MaxTries`) for one fault
(`MaxFaults`): a second fault would need a third try and repeat the same. `MaxEdits = 2` is an edit and a
deletion during it, which bring a message back. `dates` runs over 17544 hours, two years of which one is a leap year, so over each
month with each length of February, both changes of the clocks and the turn of the year; ranges last up to 400 days,
series up to four weeks, so a change of the clocks falls before, within and after them.

In runs with a series the occurrences in `Occs` never suppress all of it: an event with no
occurrence left stays on the server but no search finds it, so its row is
removed by the next sync (harmless to a reader, but not `Mirrors`).

### Fairness

`FairSpec` assumes that a thread serving a request goes on (weak fairness of each
step of a handler: the scheduler runs every thread, and a step is always enabled
until taken) and that an idle thread is given another GET (weak fairness of
`GetBegin`: clients show the calendar and refresh it). The second is an assumption about
clients, not about this code: without any GET nothing repairs the cache.
`AdminFairSpec` adds the admin's save to the steps of a handler that goes on; `cal_converges` uses it with the bound on
writes, edits and failures together (`ThreeFairSpec`), none of which is among the fair steps.
Nothing else is fair: failures, crashes, writes and the clock may or may not happen.
In this run every GET forces a sync (`Forces = {TRUE}`): otherwise a sync
would wait for the clock, which nothing obliges to tick.

`Contact!FairSpec`: a thread goes on with its request (weak fairness), and a visitor who can send the form time and
again is served (strong fairness: threads are idle only now and then, and requests wait in the server's queue for them). That
visitors keep trying after a 500 is again an assumption about them; without it a failed attempt is the last.

## 4. Proofs

Checked by TLAPS 1.4.5, for any sets of threads, workers, uids, payloads and
ranges, any number of failures, crashes, edits and writes. The assumptions are those
named in the modules that declare the constants: `NumbersAssumption`,
`NothingAssumption` (the null values are none of the real ones) and
`ClientsAssumption` (what clients send has its type and can be parsed).

**`CalendarProofs!TypeCorrect`: `Spec => []TypeOK`.** `TypeOK` alone is not inductive:
`CreateDb` writes `mem[p].ev` into a row, which is an event only because of the place the
handler is at. `TypeInv` adds `Locals`: for each label, which local variables are
set (the uid that was generated before `createDb`, the event sent, the master
read before `addSave`, …). `TypesAlways` proves `TypeInv`, one lemma for each handler and
one step for each action; lemmas before it state what each operator of
`CalendarData` returns.

`CalendarProofs!KeysAlways`: `Spec => []KeysApart`. No two rows have the same primary key, and a key that a request
remembers is that of no row but the one it read. A sync's bulk statements go by primary key while the endpoints go by uid;
`CommitByUid` concludes that, as long as only the endpoints write rows, they reach the rows of the uids they are
meant for. The proofs about the calendar use the sync in that form.

**`CalendarProvenance!CacheShowsServerContent`: `Spec => []RowsReflectServer`**, if
`BadRules = {}`. The cache never shows a content the server did not have: the body of each row
was on the server under its uid at one time and its EXDATEs at one time, whatever
interleaves, is lost or crashes. The invariant that is inductive is `Provenance`:
`TypeInv`, and the server's content is in `held` (`AllFound`), each row reflects `held`
(`AllReflect`), and so does all that a request in progress is about to write:
what it found, what it read, the event it has saved, the master (`AllSourced`).
`held` only grows (`Grows`), so a slow request keeps what it needs; the
exdate of a row may come from a later content than its body
(`ReflectsExdate`), which is why the property speaks of two times. `BadRules = {}`
is needed: a rule the server is never sent is written to the row (section 5).

**`WorkshopProofs`**, about `Workshop` for any sets of threads, members, dates, slots and operations
(`CalendarAssumption`, `NobodyAssumption`):

- `TypeCorrect`: `Spec => []TypeOK`. `TypeInv` adds that the memory of an idle thread is there to be written.
- `OffersAreHonored`: `Spec => HonoredOffer`, in any interleaving. The invariant is `ShownIsTrue`: of a slot that a listing
  shows as available no booking has it, and either the listing shows the member a booking of the day or the member has none.
  Deletions keep it, and a save, the only step that could break it, empties `shown`.
- `OneBookingPerDay`: `[]OnePerDay` if there is one thread (`OneThread`; section 5 has the race of two). The invariant
  says that a thread about to write has validated, and that the table has not changed for the worse since: others only
  delete.
- `OnlyOwnCancelled`: `Spec => CancelsOwn`, and `TakesEffectAtOnce`: `Spec => ActsAtOnce`, if no booking is edited in the
  admin (`NoChange`: an edit may give a booking to somebody else between the two queries of a cancellation, section
  5). The invariant is `TableInv`: primary keys and slots are unique and behind the sequence (`KeysUnique`), and each
  thread knows of its request what its label needs (`Knows`): a save inserts, on a Saturday once it has validated; the row
  a cancellation has read is still what it was, or gone, because a primary key is never given twice. Then a save takes effect
  at its write, a cancellation at its delete, a refusal where its reason is found, and all other steps are stutters of
  `SlotRegister`; a cancellation whose row is gone, and a listing one of whose owners is, are the requests in `overtaken`. The
  lemmas `Register…` say what an insert and a delete do to the register.

**`ContactProofs`**, about `Contact` for any sets of threads and visitors, any number of failures, tries and edits
(`IntentsAssumption`, `WorkersAssumption`, `StatusAssumption`, `NobodyAssumption`, `BoundsAssumption`):

- `TypeCorrect`: `Spec => []TypeOK`. `Waiting` is what makes it inductive: a visitor waits only for the thread
  that handles the visitor's form, so the admin's 302 reaches no visitor.
- `PromiseKept`: `Spec => KeepsPromise`. The invariant is `PostInv`: a primary key names one letter for ever (`Genuine`),
  a thread about to mail has a letter the admins do not know of, one about to confirm has a letter they know of,
  and an admin's form is about a letter that is or was there (`AllHands`); no two threads are about to mail the same
  (`Apart`). Each step is then one of `Postbox` or a stutter; a crash gives up all the mails its worker was about to send at once.

**`CalendarHandlers`, `CalendarExdates`, `CalendarSerial`**, about `CalendarApp`. What the calendar promises beyond
`RowsReflectServer` it promises under conditions only, and the theorems carry them: as hypotheses on constants (`ASSUME`),
or on the behaviour (`Spec /\ []OneAtATime => ...`). Each run that checks the property is an instance that meets them, and
section 5 has, for most of them, an instance that fails without. `CalendarHandlers` begins with what each step of each
handler does to rows, server and memory; all the other proofs go by those lemmas, and by `UidsAlways`: the uids on the server, in the rows and in the requests' memory have been issued, so a new one is nobody's.

- `OnlyZombiesDeleted`: `Spec => CleanupSound`, if every event of the calendar lies in every window searched
  (`WindowsCover`) and no search fails unnoticed (`"search" \notin FaultKinds`: the code takes a failure for an empty
  calendar). Threads, crashes, lost answers and edits by other clients are free. The invariant is `FoundOrGone`: of the
  rows a sync has read, it has found all but those of events that were gone when it searched. It is proved as
  `CleanupOfCovered` with `SearchesCover`: what the prover is asked about windows is apart from what it is asked about
  interleavings.
- `ReplacedIsSuppressed`: `Spec => SuppressedBeforeReplaced`, for
  behaviours in which no two requests change the same event at once (`Unshared`) and no other client does (`MaxEdits = 0`).
  Requests about different events, creations and reads interleave freely, and anything may fail or crash. The invariant is
  `OccurrenceSuppressed`: when the replacement is about to be stored, the EXDATE is on the server. Nothing in the code
  sees to `Unshared`; section 5 has two requests that break it and the property.
- `CacheMirrorsServer`: `[]QuiescentAgreement`, for behaviours with one request at a time (`OneAtATime`), in any number of threads
  and workers; no write fails half way and nobody else edits the calendar (`Undisturbed`); a search finds what the cache
  shows (`CalendarLasts`: a series with all its occurrences suppressed is on the server and in no search); and the cache
  was filled (`CachedAtStart`). The invariants are `SerialInv` (rows agree with the server but for the one a handler is
  about to write, and each handler knows what is on the server and in the cache: `Agreement`, `Knows`) and
  `Complete` (every event has a row but the one about to be written).
- `AnswersMissNothing`: `[]NoMasking`, under `OneAtATime`, `Undisturbed` and `CalendarLasts`, for clients that ask for
  stretches of whole months that share none and update nothing (`AsksByMonth`). The cache need not be filled, keys
  expire as they like, and workers do not know each other's. The invariant is `MaskInv`: what is on the server in months some worker
  has marked has a row (`Fetched`), and an answer about to be given without a sync has all of it (`AllAnswered`).
- `RoomsBookedOnce`: `[]NoDoubleBooking`, under `OneAtATime`, `Undisturbed` and `CachedAtStart`, for calendars without
  series in which no room is booked twice at the start (`PlainCalendar`). The invariant is `BookingInv`: what a handler is about
  to store finds its room free on the server, though the code has asked the cache (`AllBook`), which is where `Complete` is needed.

**`DatesProofs`**, about `Dates` for any first and last hour, any spans and any counts (`HoursAssumption`): the clock never runs out, and
series have any length. Eight theorems, one for each of the properties of the run `dates`, each `Spec => []X`. `now \in Nat` is
all that is inductive in them; the work is arithmetic. A year begins on day `YearStart`; a month begins a fixed number of days into it, so
every day has one month (`MonthOfDay`) and months have 28 to 31 days; summer time is one stretch inside the year, so within
ten days of any hour the clocks are told by one stretch (`ClocksNear`), and going from UTC to Berlin and back is the identity but for
the hour shown twice. Midnight in UTC is one or two o'clock of the same day in Berlin, so a whole day that has become one
stays on its date whoever writes it (`DatesKept`). A series without a change of the clocks is then the same set of hours in either form, and a zoned series that
was rewritten in UTC becomes, at the next edit, the series of before, one hour of which is gone.

`KeysCoverRange` (`Until2099 => (Spec => []KeysAreMonthsTouched)`) is about the loop of `_synced_months_key`, which `ServiceDates` has
as a recursive function over the months until 2099; no range may end after November 2099 (`Until2099`), for the model's calendar has no
month after. `KeysAreMonthsFrom` shows that the function exists and satisfies its equation (`Loop`), and `LoopAddsMonths` that any such
function adds the months from each month on that have begun by the end: otherwise there were a last month for which it does not (the
library's `WFMin` on the numbers), and it cannot be that, by `MonthsUnrolled`.

### Only model-checked

`Converges` and `EventuallyAccepted`: liveness under fairness is out of the prover's reach.

## 5. Disagreements between code and documentation

Runs:

- `finding_zombie_series` — every series is among the cached events of every range
  (`date_helpers.py:38`), but the search of one month returns only those with an
  occurrence in it: `cleanup_zombie_events` deletes the others' rows though the events
  exist. The calendar's README says that it removes events deleted on the server.
- `finding_lost_exdate` — two requests each delete an occurrence of one series. Both read the master before either saves it, and the
  second writes its copy back whole (`services.py:471`, no `If-Match`): the EXDATE of the first is gone, and its occurrence is
  back on the calendar, though it was answered 200. `services.py:446` says that the function appends an EXDATE, `views.py:276` that
  the request removes a single occurrence.

More of the same kind, reproduced by changing the constants named (of
`cal_sequential.cfg` unless another is given; `Existing <- TalkOnServer`,
`Cached <- JustU1`, no failures) and checking the property:

| What the code does | Constants | Property |
|---|---|---|
| `services.py:256` turns a failed search into an empty one, and the sync deletes every row of the range | `Ops = {"get"}`, `MaxFaults = 1`, `FaultKinds = {"search"}` | `CleanupSound` |
| a GET without dates compares two months of the server with the whole table | `Ops = {"get"}`, `Ranges <- Unbounded`, `Existing <- LateOnServer` | `CleanupSound` |
| an event moved out of the synced range on the server loses its row | `Ops = {"get"}`, `Ranges <- January`, `ExternalEvents <- OnePayload`, `MaxEdits = 1` | `CleanupSound` |
| an event without DTEND is not parsed, and loses its row | `Ops = {"get"}`, `ExternalEvents <- Unreadable`, `MaxEdits = 1` | `CleanupSound` |
| `update_event` never creates a row, so an uncached event moves into a marked month | `Ops = {"get", "update"}`, `Ranges <- EachMonth`, `Existing <- TwoMonthsOnServer`, `Cached = {}` | `NoMasking` |
| two creations validate before either has written its row (`README.md:122` of calendar_app says that double bookings are prevented) | `Ops = {"get", "create"}`, `Procs <- TwoProcs`, `Payloads <- PartyPayloads` | `NoDoubleBooking` |
| updating a series ignores every standalone event in the room (`views.py:147`) | `Ops = {"update"}`, `Payloads <- ChoirMovedPayloads`, `Existing <- ChoirAndPartyOnServer`, `Cached <- JustU1AndU2` | `NoDoubleBooking` |
| `mark_range_synced` marks each month a range touches: after a sync of a few days the whole month is answered from the cache (`date_helpers.py:110` says this is prevented) | `Ops = {"get"}`, `Ranges <- PartOfMonth`, `Existing <- TwiceOnServer`, `Cached = {}` | `NoMasking` |
| the overlap query compares the first occurrence of a series only (`README.md:122` of calendar_app promises more) | `Ops = {"create"}`, `Payloads <- ChoirPayloads`, `Existing <- ChoirOnServer` | `NoDoubleBooking` |
| `clean` queries before the insert: two requests of one member book two slots of a day (`workshop_sequential.cfg`; `workshop/models.py:41` says one booking per day, `workshop/tests/test_views.py:130` tests it one by one) | `Procs <- TwoThreads` | `OnePerDay` |
| an exception and a deletion of two occurrences of one series: the deletion writes back a master without the other's EXDATE, and the replacement is stored beside its occurrence (`cal_exceptions.cfg`) | `Ops = {"exception", "occurrence"}`, `Procs <- TwoProcs`, `MaxFaults = 0` | `SuppressedBeforeReplaced` |
| two updates reach the server in one order and the row in the other | `Ops = {"update"}`, `Procs <- TwoProcs`, `Payloads <- TalkPayloads` | `QuiescentAgreement` |
| a sync that searched before an update writes the old content back after it | `Ops = {"get", "update"}`, `Procs <- TwoProcs`, `Payloads <- OnePayload` | `QuiescentAgreement` |
| a rule that cannot be parsed is not sent to the server but is written to the row | `Ops = {"create"}`, `Payloads <- WeeklyPayloads`, `BadRules = {4}` | `QuiescentAgreement` |
| a mail fails: `send_admin_notification` raises and nothing catches it, so the visitor of a stored message is answered 500; `contact/README.md:32` says 201 with a `warning` (`contact.cfg`) | `FaultKinds = {"mail"}`, `Unmailable = {}` | `StoredIsCreated` |
| a superuser gives a booking to another member while its first owner cancels it (`workshop_races.cfg`) | `Ops = {"book", "cancel", "change"}` | `CancelsOwn` |

Seen while modelling, without a property of their own: booking a slot another member has
is answered 500, as `book_slot` catches `ValidationError` but not the `IntegrityError` of the
constraint (`SaveConflict`), while `workshop/views.py:65-69` lists it under 400; the flag
`synced` of an answer is the decision to sync and stays true when the sync failed
and the cache answered (`mem.sync` and `mem.source` differ); the listing shows every slot nobody has as available, also on
a day on which the member has a booking and `clean` refuses another (`slot_helpers.py:47`), which is why `HonoredOffer`
speaks of the two together; deleting an event again
after a lost answer is a 404 and leaves its row until the next sync.

Three more come from times (`dates`; the exceptions in its properties are these):
- Deleting one occurrence of a weekly series in Berlin time rewrites the master in UTC (`services.py:468`): from the
  next change of the clocks on, all other occurrences are shown an hour off, until somebody edits the series. Without
  `OneOffset`, `DeletesOneOccurrence` fails. `views.py:276` says that only the one occurrence is removed.
- Until one or two o'clock on a Sunday the workshop still offers the Saturday before, and not the fourth one
  (`slot_helpers.py:23`).
- The months of a range are counted in the zone it is given in. A client whose local months are named in UTC (31
  January 23:00 to 28 February 22:59) marks January as well; viewing February and then April leaves March marked
  in part (a case of the partial months above). The end of a range counts as in it (`date_helpers.py:83`), so a month that begins
  just then is marked too, although the docstring of `get_events` (`services.py:223`) calls the end exclusive.

Whole days have two things of their own:
- An event of whole days is stored by its dates (`services.py:619`) and read back at midnight UTC (`services.py:574`). The
  row a write has stored has the times it was handed over with; the next sync moves it: from midnight in Berlin by one or two
  hours, and from the 10:00 UTC that `tests/test_views.py:192` sends by ten. Its dates stay what they are on the clock it was
  handed over with (`WholeDaysKeepDates`): that of Berlin, to which the serializer converts, so midnight in Berlin sent in
  UTC (22:00 or 23:00 of the day before) keeps its day.
- EXDATEs of whole-day series are read as dates and written back as times (`services.py:640`), which RFC 5545 does not match
  with the series; they are left out of `EventTimes`.

## 6. Plan

Every invariant and every action property of the passing runs is proved, under the conditions said in section 4. What is left, in
this order:

1. An abstract specification of the calendar (a store with a cache that may lag behind), which `CalendarApp` without
   failures implements for one request at a time; `SerialInv` is the invariant its refinement needs.
2. `RowsReflectServer` with the Django admin: what of it survives for rows no superuser has touched since their last sync.
3. What two requests about one master can do to it: that `finding_lost_exdate` is the worst of it, an EXDATE or an edit lost
   and nothing invented (`RowsReflectServer` says so of the rows).

Proofs about the calendar go to `CalendarHandlers`, `CalendarExdates` and `CalendarSerial`, by component.

## 7. Not modelled

- `users`: `conf/urls.py` routes neither `UserViewSet` nor `GroupViewSet`, so their permissions are never asked; what is
  routed is djoser and SimpleJWT, to which `users/` adds fields of a serializer and a mail's template.
  `Workshop` has the one thing that other components see of it: an account may be deleted at any moment.
- `core`: `wait_for_db` runs before the server starts and keeps no state.
- Clients' retries of a calendar request: nothing in a request ties it to the one it repeats; two creations are two events.
- Fields of a CalDAV event that the service does not know (attendees, alarms), floating times, EXDATEs of whole days,
  occurrences named with an offset other than that of the series.
- `recurrence_id`, which every writer leaves NULL.

External to this code: djoser, SimpleJWT, Django, PostgreSQL and the CalDAV server
themselves (modelled only as the code uses them), configuration, deployment and
mail texts.
