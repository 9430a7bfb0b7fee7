# OpenVoice: a TLA+ verification development

OpenVoice is a voice agent that answers telephone calls: it transcribes the
caller, asks an LLM, speaks the answer, books appointments through LLM tools,
and offers the same booking operations over a REST API. This directory holds
TLA+ models of the parts whose correctness depends on ordering, failure and
interleaving, the TLC configurations that check them on small instances, and
proofs, checked by TLAPS, of theorems that hold for every instance.

Contents: [the system](#1-the-system), [modules](#2-modules),
[how the models correspond to the code](#3-correspondence), [runs](#4-runs),
[bounds](#5-bounds), [fairness and deadlock](#6-fairness-and-deadlock),
[proofs](#7-proofs), [what the code does not keep](#8-disagreements),
[what is not modelled](#9-not-modelled), [plan](#10-plan).

## 1. The system

Everything runs on asyncio. There are three kinds of process: the FastAPI
application (REST), the LiveKit telephony worker (one job per call) and the
Celery worker (summaries). They share PostgreSQL; the two that book share the
external calendar, and nothing makes the two stores one transaction.

| Component | State it keeps | Operations | What makes it correct |
|---|---|---|---|
| booking service (`booking/service.py`) | appointments table, calendar events | book, cancel, reschedule | table and calendar agree; no double booking; a slot given up stays free; nobody is told of a booking that does not exist |
| slot search (same file) | none between calls | `find_available_slots` | offers are free, in hours, the earliest |
| booking tools (`agent/tools/booking.py`) | bound to one caller | five tools | act only with consent, only on the caller's own rows; never raise |
| appointments router (`api/routers/appointments.py`) | none | create, delete, patch, slots | errors mapped to HTTP answers |
| calendar provider (`calendar/`) | the external calendar | free/busy, insert, delete, patch | every failure is a `CalendarError` |
| CRM service (`crm/service.py`) | clients table | get or create, queries | one row per phone number |
| conversation manager (`agent/conversation.py`) | history, turn count, last reply | one caller utterance | the history sent is well formed; cost bounded; transfers only when asked |
| structured reply (`agent/structured_reply.py`) | pending text, marker state | parse, feed, finalize | the marker is never spoken; no text is lost; both readers agree |
| LLM providers (`llm/`) | none | generate, stream | bounded retries, one error type |
| telephony worker (`telephony/worker.py`) | the call's row | entrypoint, finalize, transfer | every call is closed; transcript complete; summary after transcript |
| LiveKit agent (`telephony/livekit_agent.py`) | pusher task and detector stream, background transfer tasks | stt, llm and tts nodes | every utterance heard, in order; reply spoken once, transfer started after it |
| summary task (`tasks/`) | the call's summary | one Celery task with retries | ends; reads a committed transcript |
| notifications (`notifications/`) | none | SMS, email | bounded retries, failures contained |
| speech recognition (`stt/`) | none | transcribe one utterance | every failure is an `STTError` |
| configuration and factories (`config.py`, `*/factory.py`) | settings | validate, build | what is valid can be built; what cannot does not cost the call its record |
| prompts (`agent/prompts.py`) | none | the current time for the model | a bad timezone does not cost a call |
| pipeline, health, logging, metrics, audio | none or constants | | not modelled, see section 9 |

Interaction: the worker resolves the caller through the CRM, records the call,
builds a `ConversationManager` (with booking tools if there is a caller and a
calendar) and hands it to the LiveKit agent; LiveKit calls `llm_node` once per
confirmed utterance and cancels it when the caller cuts in. A tool call opens a
database session of its own and calls the booking service. A reply that asks
for a human starts a background task. At the end of the job the shutdown
callback writes the transcript and queues the summary.

What is hard, in short (the `hazards` of PROJECT.json give each its line): two
requests interleave at every await; two writes to two stores are not atomic; an
ORM object is used after an await; a lost response is not a failed call; a
cancelled coroutine leaves its thread running; a barge-in stops a turn
anywhere; the history is trimmed while it is the only record of the call; a
worker may die between two steps; retries must be bounded; text arrives cut in
arbitrary pieces and is spoken in others.

## 2. Modules

| Module | Models | Used by |
|---|---|---|
| `AppointmentBook` | abstract: what the booking service promises of each appointment | `Booking` (refinement) |
| `Booking` | booking service, booking tools, REST handlers, calendar calls, client creation | `MCBooking`, `BookingProofs` |
| `Slots` | `find_available_slots` | `MCSlots`, `SlotsProofs` |
| `History` | a history of messages and its trimming | `Conversation`, `CallLifecycle`, `CommonLemmas` |
| `Dialogue` | abstract: a memory of whole turns | `Conversation` (refinement) |
| `Conversation` | conversation manager, `llm_node`, transfer task | `WireFormat`, `LiveCall` |
| `WireFormat` | the history as the two LLM vendors get it | `MCConversation`, `ConversationProofs` |
| `Notifications` | the retry loop of the SMS and the email provider | `LiveCall` |
| `LiveCall` | composes `Conversation`, `Booking` and `Notifications`: one call whose tools book | `MCLiveCall`, `LiveCallProofs` |
| `Listening` | `stt_node`, its pusher task and detector stream, transcription | `MCListening`, `ListeningProofs` |
| `StructuredReply` | the two readers of the reply format | `Synthesis`, `StructuredReplyProofs` |
| `Synthesis` | composes `StructuredReply` with `tts_node`, from the completion to the sentences spoken | `MCSynthesis`, `StructuredReplyProofs` |
| `Deployment` | settings, their validation, what the provider factories build | `CallLifecycle` |
| `CallLifecycle` | entrypoint, shutdown callback, summary task | `MCCallLifecycle`, `CallLifecycleProofs` |
| `MC*` | instances for TLC | the runs |
| `BookingProofs`, `SlotsProofs`, `ConversationProofs`, `StructuredReplyProofs`, `ListeningProofs`, `CallLifecycleProofs`, `LiveCallProofs` | theorems | |
| `CommonLemmas` | least and greatest elements of sets of naturals; prefixes, suffixes and trimming of histories | `ConversationProofs`, `CallLifecycleProofs`, `StructuredReplyProofs` |

`LiveCall` holds one `INSTANCE` of `Conversation` and one of `Booking` and says
which steps they take together: a tool starts a request of the booking service
and returns when that is answered; a barge-in ends the turn and cancels the
request where it waits; a confirmation is sent one post at a time. What
`Conversation` assumes of its tools (`ToolEnds` happens, once per call) is an
assumption there and a checked property here: `ImplementsConversation`
(its safety half is proved, section 7).
`CallLifecycle` does not include the steps of `Conversation`: it uses what
`Conversation` shows of a turn (answered whole, dropped, or cut off) as its
actions `Answered` and `CutOff`.

A definition whose comment begins "A mutant" is a variant of the definition
that follows it, changed the way a plausible bug would change it. It is used by
no specification: putting it in place of the original must break a property.

## 3. Correspondence

**Booking.** One action is the code between two awaits. A request's `pc` is the
await it is at: `client`/`newClient` (`get_or_create_client`), `check`
(`_find_overlapping_appointment`), `load` (`session.get`), `calendar`,
`commit`, `refresh`, `sms`, `email`; or the answer it got. `rows` is the
appointments table with the check constraint, `events` the calendar, `loaded`
the ORM object a request holds. A request names the row it inserts and the
event it creates (`uuid4` and the calendar draw fresh ids). The database
commits at READ COMMITTED; `Flush` is SQLAlchemy's unit of work, which updates
only the attributes whose value changed, so two requests can mix columns. Every
calendar call may be refused, accepted, or accepted with its response lost
(`CalendarFails`); when its coroutine is cancelled the thread goes on
(`Detach`, `DetachedCallEnds`). `Refused` stands for all checks of a tool before
its first read. Ghosts: `seen` (rows present when a booking looked), `effects`
(stores a request changed), `raced` (rows two requests held at once).
Nothing is assumed of what the calendar does with a deleted event, as nothing in the
code looks: a delete or a patch of it may be refused (`CalendarFails`) or taken, and
then the event stays deleted, since a patch names the times and no status
(`CalendarEffect`). Nor does `reschedule_appointment` look at the row's status, so a
cancelled appointment may become active again, without its event (`Revived`).

**AppointmentBook.** Each appointment is free, booked (its row active, its slot held
in the calendar), unheld (its row active without a slot) or cancelled. `Book` and
`Move` keep or take a slot, `Release` gives it up, `Cancel` follows a release, and
`Revive` makes a cancelled appointment active again, unheld. What it promises is the
order of these, and that a slot given up is never held again.
Left out: the branches for a row without a calendar event (`book_appointment`,
the only place that inserts a row, always sets one), "Caller record not found" (clients are
never deleted), request validation by pydantic (before any state is read), and
`list_upcoming_appointments` (a query).

**Slots.** Time is in whole units from midnight of the first day; `Day` is its
length. The walk over days and positions, the limit and the window are as in
the code. Windows and durations are any integers: both callers pass on what the LLM or
the API client gave them. A given 0 is replaced by the default, so a duration of 0 stands
for a default of 0; a value large enough for `timedelta` to raise `OverflowError` is
left out. `Fetched` is what a free/busy query returns. `NothingPassedOver`
compares the walk with a set-valued reference, `Grid`.

**Conversation.** `pc` is "idle", "llm" (an attempt at a request is under way),
"stream" (its text is arriving), "tools", or "say" (suspended at the last
yield). The providers' own loop is part of it: `Retry` sends the same request
again, `MaxAttempts` (`llm_max_retries`) times at most, and after `Connect`
nothing is retried any more; `spoke` says that some of the reply has already
been yielded to the speech synthesis. The waits between attempts and the retries
inside the vendors' SDKs are left out. `history` holds roles, the turn, and the
number of calls or the call answered; of an answer, whether it has text (`n` is 1 or
0); texts are left out otherwise. Streaming (no tools)
and non-streaming turns are one set of actions, with `tools` as the switch, as
`handle_utterance_stream` itself delegates. `CutIn` is LiveKit's cancellation,
or any exception no handler catches; it leaves `history` as it is. `Dangling`
says which messages the two vendors reject. `tasks` has the transfer task of
each turn. Assumed of LiveKit: turns of one session do not overlap
(preemptive generation is switched off at worker.py:300) and a barge-in cancels
`llm_node`. `max_conversation_turns = None` is not modelled.

**WireFormat.** Both conversions as functions of a history, and what each vendor
accepts: Anthropic wants the results of a response in the one message after it
(docstring of `_to_anthropic_messages`), OpenAI one message for each result
before anything else. Anthropic takes no empty message but the last (`words`); what an
API accepts is knowledge about the vendors, marked external in the map.
`OnlyEmptyAnswersDivideVendors` compares both with `Paired`, by which
`Conversation` decides whether a request can be answered; a request with an empty
answer in it may be answered there or fail, as any request may.

**Notifications.** One message at a time per booking: `posts` made so far,
`reached` once one of them was delivered (also when its response was lost).
`PostAgain` is a transport error or a retryable status with an attempt left,
`SendEnds` the last attempt: accepted, or given up and `logged`.

**LiveCall.** `running` is the request the turn waits for. Requests are numbered
in the order the tools ask, since tools run one after the other. `ReadTool` is a tool
call that makes no request (a query, an unknown tool, invalid arguments); a
request that raises still returns a result (`_execute_tool` catches it). `BargeIn`
takes the turn (`Conv!CutIn`) and the request (`Book!Detach`, `Abandon` or a commit
cut off) in one step. The caller was found or created before the call; `Earlier` are
appointments from earlier calls. Hang-up, the time limit and transfers are left to
`Conversation`, the REST origin to `Booking`.

**Listening.** `audio` is what the caller says, in utterances that are understood
("words"), are not ("noise"), or end without frames; `pushed` and `detected` count
how far the pusher task and the detector are. Frames, resampling and sample rates are
left out. `heard` is what was yielded. `Leave` is the way into the `finally`
clause, which cancels the pusher in the same step; `Close` is the `aclose()` it then awaits.
`Cancel` is the session cancelling or closing the node; that it does so a second
time during `aclose()` is left out. Assumed of the detector: events come in order, and
after `end_input()` its iterator ends.

**Deployment.** A record of the settings providers depend on. `Validated` is what
the two validators of `Settings` require, `Builds*` and `Calendar` what the
factories do, `BuildsPrompt` what `build_temporal_context` does with the timezone: a key no
zone has falls back to UTC, one that is no key raises. Several optional settings are deliberately not validated; a
deployment without a calendar works without tools.

**StructuredReply.** Text is a sequence of symbols: a word, white space, marks
that may end a sentence, and two marker symbols. The marker is `##:`, which like `###INTENT:` starts with a
repeated symbol, so texts contain false starts. Deltas cut the completion in
every way. Case folding of labels is left out.

**Synthesis.** Adds `tts_node` to `StructuredReply`: `taken` and `buffer` are what
has arrived of the released text, `sentences` what was handed to the TTS
provider. The two generators interleave; `Take` stands for any chunk, since a
chunk is only appended. A failing provider ends the node (`SynthesisFails`). A
turn with tools sends its whole text as one chunk: `HeardTheSame` compares with
that. What the sentences of a text are (`SentencesOf`) is said without walking over it:
they are listed in the order of their last words (`LastWords`: an end comes before the
next word does), so that theorems can speak of them. Audio frames are left out.

**CallLifecycle.** `settings` are those of the deployment. A call only reaches a worker
(`Connect`) when they are valid: worker.py imports tasks/summarize_call.py, which imports
tasks/celery_app.py, whose last line reads them, so a worker with invalid settings does
not start. `Equipped` is what the entrypoint needs between the commit of the row and the
registration of the callback: a prompt (`BuildsPrompt`), a calendar that does not raise,
a language model. `StopJob` is a job told to stop at an await of the setup, `CallEnds`
when the call is live. `broken` keeps the last thing that went wrong with a call by
its cause, so that `OpenOnlyWhenBroken` can say which causes leave it open and when. `rows` is the calls table with transcript and summary; `job`
the Celery task. A message has a role and what its text is: the caller's words,
a reply, an aside beside a tool call, a tool payload, or none (such messages are
skipped). `hooked` is the set of calls whose shutdown callback is registered.
Assumed of LiveKit: a job whose entrypoint raised shuts down and runs the
callbacks registered so far. Celery acknowledges a task when it starts it, so a
task whose worker dies is not run again. What a finished call leaves as status
is only "in_progress" or "completed": the code sets no other.

## 4. Runs

| Run | Checks | Shows |
|---|---|---|
| booking_core | TypeOK, StoresAgree, OverlapOnlyByRace, CancelSticks, ToolsActForTheirCaller, NotifiedMeansBooked, ImplementsAppointmentBook | The table and the calendar disagree in three ways only, each after its own cause: a request of that kind that failed between its two writes, a cancelled appointment moved, or a race on one row; a cancelled event stays deleted; double bookings come only from the race the docstring names; the service implements the abstract book |
| conversation_core | TypeOK, SlicedOnlyByBargeIn, CostBounded, TransferOnlyWhenAsked, UnansweredTurnLeavesNoTrace, OnlyEmptyAnswersDivideVendors, SpokenOnce, EveryTurnEnds, ImplementsDialogue | Only a barge-in during a tool makes a malformed history, and only an empty answer one that a single vendor refuses; at most turns times rounds times attempts LLM requests; no transfer from a stale reply; a failed turn leaves nothing; a reply is not spoken twice; the floor always comes back; turns are forgotten whole, oldest first |
| slots_core | TypeOK, OfferedIsFree, OfferedInHours, NothingPassedOver, SearchEnds | The offer is right inside the window and, for a positive duration, in hours and complete; the walk ends in either direction |
| synthesis_core | OnlySpeechIsSpoken, SpokenPromptly, ReadersAgree, CutsDoNotMatter, HeardTheSame | However a completion is cut, the marker is not spoken, nothing is lost, no more than needed is held back, and the caller hears the sentences of the whole text |
| lifecycle_core | TypeOK, TranscriptIsDialogue, OpenOnlyWhenBroken, SummaryAfterTranscript, EverythingEnds | What the calls table may hold after any interleaving, failure and crash, in deployments that work and that do not; a call stays open only after a crash or a failed teardown, or, before its callback is registered, when the job is stopped, the commit's answer is lost, the timezone malformed or the calendar credentials unreadable; setup, teardown and summary end |
| live_call | StoresAgreeInOneCall, NeverBookedTwiceInOneCall, ModelKnowsWhatItDid, ConfirmedOrLogged, ImplementsConversation, EveryRequestEnds | Within one call the tools never race, not even with the calendar thread of a turn the caller cut off, so the races of booking_core need a second actor; the model's history holds what it changed; a booking reported as done was confirmed or its failure logged on each channel; every tool returns, and every request ends |
| listening_core | HeardInOrder, NothingLeftRunning, SilenceEndsTheNode | Nothing said during a transcription is lost or turned round; however the node is left, nothing goes on running; it ends with the audio |
| booking_repeat, conversation_paired, slots_open, lifecycle_full, listening_unhandled | one property each, violated | Section 8 |

## 5. Bounds

- booking_core: three requests, two clients, ten inputs (two overlapping slots,
  an empty one, both origins, no consent, malformed arguments, another caller's
  appointment). Three requests are what the hazards need: one books, two race on
  its row. booking_repeat uses four, over adjacent slots. Requests are
  interchangeable, so this run, which has no liveness property, uses symmetry.
- conversation_core: three utterances of which two may become turns, so the turn
  cap is hit as well as the duration cap; one turn remembered, so the second
  answer trims, with a torn, a cut-off or an answered turn in front; two tool
  calls per response, so a batch can be cut between its results; two rounds and two
  attempts, so both of these caps are hit. Answers come with and without text. conversation_paired needs less.
- slots_*: two days of six units, open from 1 to 5, durations one to three, zero and minus
  two, every calendar of at most two entries, windows of minus one, one and two days, windows that start before, at and after
  opening. Two entries cover a slot with a conflict on either side, and the
  edges of window and day.
- synthesis_core: all completions up to five symbols, all up to seven without
  marks and line breaks (two markers, a false start before one, blanks at any
  place, labels cut in two), and every text of five symbols in front of a marker
  (two sentences with a line break between).
- lifecycle_core: two calls of one number (their lookups race), seven deployments (one that works, no calendar,
  unreadable credentials, a malformed timezone, and three without a key or a provider),
  two turns in all with one remembered (the turns of two calls do not affect each
  other), two retries. lifecycle_full: one call, three turns, two remembered.
- live_call: one caller with an earlier appointment and four inputs (two
  overlapping bookings, one of which overlaps the earlier appointment too, a cancellation, a move), two requests, two
  turns with one remembered, two rounds, two posts of each message. Two requests are what a race
  needs: one left running by a barge-in, one of the next turn.
- listening_*: every sequence of at most four utterances of the three kinds: one
  being transcribed, one detected, one pushed, one still to be said.

## 6. Fairness and deadlock

`CHECK_DEADLOCK FALSE` everywhere: the requests, utterances, calls and texts of
an instance are finite and everything may be over.

Fairness is weak and only on what the program does by itself. `LiveCall`: the turn (`Proceed`) and each request (`Serve`): an await completes
or fails, since the database, the calendar client and the notification providers have
timeouts, and a failure is a step. `Booking` states the same fairness for requests of the REST API
(`FairSpec`); its liveness is checked in `LiveCall`, for requests of tools.
`Conversation`: the turn (`Proceed`) and each transfer task, for the same
reason; the caller is not obliged to do anything. `Slots`: the loop. 
`Listening`: the node, which awaits a library call in a thread, the detector and
the session's next request, and the detector. Nothing is assumed of the caller.
`CallLifecycle`: each call's worker and each summary task (Celery's own time
limits end it). No action that models a fault is needed for progress.

## 7. Proofs

`BookingProofs` proves, for any set of requests, clients and inputs: 
`TypeCorrect`, `StoresAgreement`, `DoubleBookingOnlyByRace`,
`CancellationSticks`, `ToolsStayWithTheirCaller`, `NoPhantomConfirmation`, and
`Refinement` (every step maps to a step of `AppointmentBook` or a stutter).
Assumed: the three ASSUMEs of `Booking` (inputs are of their type, the reach of
the providers is a set of clients, `None` is no record). The properties are not
inductive: `StoresAgree` speaks of settled rows, and says nothing of
what a request in flight remembers. The invariant strengthens it with what ties
a request's `pc` to its effects (a request at "commit" has changed the calendar
and not the row), its loaded copy to the row it was loaded from unless the row
is raced, and the row to the event request by request. The step from `NewRow` to
the row's fields goes through one lemma, `NewRowFields`.

`SlotsProofs` proves `TypeCorrect`, `OffersAreFree` and `OffersAreInHours` for
every calendar, window, duration and business hours allowed by the two ASSUMEs
of `Slots` (hours within a day; windows and durations are any integers). What holds
only of a positive duration says so: `OffersAreInHours` and `SearchIsComplete`; the
invariant then adds that the walk never turns back (`Forward`). It says that the
day being walked is the opening of some day n, not before the search, and that
`busy` is what was fetched; that an entry left out of the query touches no slot
inside the window then follows by arithmetic.
`SearchIsComplete` (`NothingPassedOver`) takes the other direction. `WalkInv` says that
every free position of `Grid` before the one the walk has reached was offered, unless
the limit was reached by then with earlier ones, and that the offers are free
positions, in order. A position is written `At(n, k)`, the k-th of day n, so that the
remainder in `Grid` becomes multiplication (`GridIs`, `Division`), and `GridApart` says
that none lies between two neighbours, which is what a step of the walk passes over.

`ConversationProofs` proves, for any numbers of turns, tool rounds, attempts,
tool calls per response and utterances (the one ASSUME of `Conversation` makes
them natural numbers, and the history kept, the rounds and the attempts at least
one): `TypeCorrect`, `CostIsBounded`, `TransfersAreAskedFor`,
`FailedTurnsAreForgotten` and `NothingIsSpokenTwice`. Types need `TrimKeeps`: the
cutoff of `_trim_history` exists (a least element argument), so trimming keeps
messages and makes none up; and that a turn under way starts before what it
added. `CostInv` strengthens `CostBounded` with what may have been spent when a
given round and attempt of the turn counted last is under way. `TransferInv` adds
that a turn under way has started no task, and that the reply about to be read
is the turn's own. `TraceInv` adds that everything up to `turn_start` is older
than the turn. `SpokenInv` says that a turn that has spoken waits for no request.

`StructuredReplyProofs` proves `MarkerIsNeverSpoken` (`OnlySpeechIsSpoken`),
`LittleIsHeldBack` (`SpokenPromptly`) and `ReadersAlwaysAgree` (`ReadersAgree`) for any marker, any completion and any cut
of it into deltas; assumed are the two ASSUMEs of `StructuredReply` (completions
and the marker are sequences of symbols, the marker is not empty and has no white space). The
invariant, `Extracted`, says that what was released and what is held back are,
end to end, what was received; that no marker starts in the released part; and
that none ends in the received part. The last is what makes the hold-back of one
symbol less than a marker enough: a marker that starts in the text to release
would end in what was received. `Part`, `PartOfPart` and `Adjacent` carry
positions between a text and its parts, `FindIs` and `FindFirst` say that
`Find` is the first occurrence. The readers agree because the label is all that came
after the marker, every word before it was released, and a prefix that holds all
words of a text is, stripped, the text stripped (`StripPrefix`).

Of `Synthesis` it proves `CutsNeverMatter` (`CutsDoNotMatter`) and `AlwaysHeardTheSame`
(`HeardTheSame`), for any marks that end a sentence, too. The key is `SentencesSplit`: a text has
the sentences it has up to one of its ends, taken as a whole text, then those it has
behind it. It rests on two halves, that neither side sees across the end
(`FrontSentences`, `RestSentences`), and on three facts about values listed in the order
of their places: a list splits where its places do, moving the places changes nothing,
none and one are listed as none and one (`InOrderSplit`, `InOrderShift`, `InOrderFew`).
The invariant, `SpokenInv`, says that what has arrived is cut at one of its sentence
ends, `buffer` being what lies behind it and `sentences` the sentences up to it
(`SaidUpTo`); when the node is done, `sentences` are those of all of the text. What has
arrived does not change when more is released, and no more is once the reply is
finished (`ReleaseGrows`). `HeardTheSame` then needs that the blanks `strip` takes off
make no difference (`StrippedSentences`). `VoiceOnlyListens` carries the theorems about
the streaming reader alone over to `SynthesisSpec`, which is what the run checks.

`ListeningProofs` proves `HeardInOrder` and `NothingLeftRunning` for whatever a
caller says (the ASSUME of `Listening`: sequences of the three kinds). The
invariant counts the events taken from the detector's stream, `Taken`, which is
what was reported less what is queued: the k-th event there ever is belongs to
utterance (k + 1) \div 2, the queue holds the ones after `Taken`, and the session
was given exactly what was understood among the first `Taken \div 2` utterances,
one less while that utterance is being transcribed.

`CallLifecycleProofs` proves `OpenOnlyWhenBroken`, `SummaryAfterTranscript`, `TypeOK` and
`TranscriptIsDialogue` for any finite number of calls, callers, turns and retries and any
deployments. The invariant, `PlaceInv`, says for every place in the worker whether the call has its
row, its status and its callback by then, and what excuses a call that is over and
open (`Excused`); that settings were validated once the call is past `Connect` is
what leaves the timezone and the calendar as the only things that can
raise between the row's commit and the callback's registration. `TalkInv` says that
each call's history is in the order of its turns and that nothing follows a reply in
its turn (`Recounted`), which trimming, dropping and writing the transcript keep.

Two more parts of `ConversationProofs` rest on the shape of the history.
`SlicedOnlyByBargeInHolds`: `Sound` says of a history that a result always has its
calls before it with nothing but results in between, and that calls have all their
results unless their turn was torn (the caller cut in while a tool ran) or they are
the ones under way. It survives the two things done to a history besides
appending: dropping a turn keeps a prefix that ends before a user message
(`PrefixSound`), trimming keeps a suffix that starts with one (`SuffixSound`), and
calls are adjacent to their results, so neither border lies between them.
`BatchInv` says where the calls under way are and that their first `done` results
follow; `StartInv` that the message at `turn_start` is the user's; `LaterInv` that
no turn to come has an outcome yet. `VendorsDividedHolds` follows: in a sound history
every result comes after its calls, and then what either vendor asks for reduces to
"no response is short of a result", which is `Paired`, and for Anthropic to that
and no answer without words, since a request never ends with an answer.

`DialogueImplemented` is the refinement of `Dialogue`, whose memory is of turns where
the code's is of messages. `MemoryInv` says that the history is in the order of its
turns, each starting with its user message, and that a turn under way is the history
`before` it, its user message and its rounds (`UnderWay`). User messages then stand for
turns, so that keeping the last messages from a user message on keeps the newest turns
(`TrimNewest`), and whether a turn was answered whole does not depend on its
neighbours. Each kind of step has a lemma: a reply remembers a turn and forgets the
oldest, a barge-in leaves one in part, and of the others the memory knows nothing.

`LiveCallProofs` carries both components into the call they share (`BookP` and `ConvP`
are instances of their proofs, whose assumptions follow from those of `LiveCall`: the
inputs come from tools, earlier appointments are bookings that went through, requests
are numbers). It proves `StoresAgreeInOneCall`, `NeverBookedTwiceInOneCall`,
`ConfirmedOrLogged` and `ModelKnowsWhatItDid` for any caller, earlier appointments, limits
and number of tool calls. Every step is a step of one request or of none
(`SerialInv`: only the request the turn waits for is under way; what else has not ended
is a calendar thread nobody waits for), and `CallInv` adds three facts to `Booking`'s
`IInv`: while a booking is between its overlap query and its commit nothing
overlaps it (`SlotInv`), a copy of a row is still what the row is (`CopyInv`), and a
booking goes past a channel only with its message sent or its failure logged
(`ConfirmInv`). For `ModelKnowsWhatItDid`, `KnowInv` counts the results of each turn that
the history must hold, over all steps of `Conversation`, and `CountInv` that a turn has a
result for each of its requests that is over unless it was torn.
`CallIsAConversation` shows that `LiveCall` implements `Conversation` step for step, so
`ConversationHolds` and `DialogueHolds` inherit the theorems above, the refinement of
`Dialogue` among them; `ServiceHolds` does the same for three of
`Booking`'s, which hold although the earlier appointments are not of the call's making.

Only model-checked: every liveness property (`EveryTurnEnds`, `SearchEnds`,
`EverythingEnds`, `EveryRequestEnds`, `SilenceEndsTheNode`; TLAPS proves none under
fairness), and with them the fairness in `ImplementsConversation`. Every safety
property that a passing run checks is a theorem.

## 8. Disagreements

Each is a run that TLC finds violated, and a finding in PROJECT.json.

- booking_repeat: after a reschedule into an overlap (which is never checked) an
  exact repeat of a booking can be refused as a conflict.
- conversation_paired: a barge-in while a tool runs leaves a call without its
  result in the history, which the vendors reject on every later request.
- slots_open: slots after the end of the search window are offered unchecked.
- lifecycle_full: the transcript lacks the turns trimmed from the LLM history.
- listening_unhandled: one utterance that cannot be transcribed ends `stt_node`
  with an exception; no fallback is spoken and the rest of the call goes unheard.

Met while modelling, too; each is in the models, and the properties that allow for it
allow for nothing else:

- A cancelled appointment can be rescheduled, though `BookingError` is for
  "rescheduling an unbooked appointment" (`booking/service.py:22-25`): the row keeps its
  `calendar_event_id`, and nobody reads its status. If the calendar takes the patch of
  the deleted event, the row is active and nothing is in the calendar (`Revived`).
- An empty answer (or, streamed, one that is only a marker) stays in the history as an
  empty message (`agent/conversation.py:177`, `257`), which OpenAI takes and Anthropic
  refuses in every later request until it is trimmed; swapping providers is called "a
  config change" (`llm/factory.py:6-9`). `OnlyEmptyAnswersDivideVendors`.
- `duration_minutes` is not validated. A negative one makes the slot search walk back and
  offer slots that end before they start, outside "business hours"
  (`booking/service.py:57`): hence `duration > 0` in `OfferedInHours` and
  `NothingPassedOver`. A default of 0 makes it stand still at a busy position: hence
  `duration # 0` in `SearchEnds`.
- "A bad `BOOKING_TIMEZONE` value must not crash every single call"
  (`agent/prompts.py:48-50`), but only `ZoneInfoNotFoundError` is caught, and a key such
  as "/etc/localtime" raises `ValueError`: every call ends between its row's commit and
  the callback's registration, and stays in progress (`Misconfigured`). So does a known
  caller's call when the service account file cannot be read, or a job told to stop at
  that point.

And, without a property that depends on it: a database error, or an end not
after its start, escapes the tool executor that "must never raise"
(`agent/tools/base.py:10-13`; `DbError` and `CommitFails` of `Booking` answer
"raised" for a tool); a time at which another client already has an event is
booked (`FindOverlap` reads only the client's own rows); a completion that is
only a marker is spoken whole by one reader and silent in the other (the
exception in `ReadersAgree`); a text beside a tool call enters the transcript
although nobody heard it (the "aside" lines of `CallLifecycle`); at a cap and
without a transfer number the call goes on with the limit message, where the
class docstring (`agent/conversation.py:67-69`) says it ends (`HandOff` and
`UtteranceOverLimit` of `Conversation`); settings "must fail fast at boot rather
than fail mid-call" (`config.py:79-82`), and do where they are validated, but
providers that are not implemented or installed pass validation and fail in the
call (`StartSession` of `CallLifecycle`); a pusher task that raised leaves
`stt_node` waiting until the session cancels it (`AudioFails` of `Listening`); a
barge-in during the last chunk of a reply drops the transfer it asks for
(`CutIn` at "say").

## 9. Not modelled

Audio: resampling, frames and what a recognizer or a voice makes of them (data
in, data out). Parsing of the vendors' responses, and the retries inside their
SDKs. `CallPipeline`, which the worker does not use and which adds no state and
no concurrency. The health endpoint: three probes, one after the other, of which
nothing is kept. Migrations, the prompts' text, logging and metrics. Of the configuration,
the values that only parameterise (they are constants of the modules) and the
settings no factory depends on. 
Real time appears
only as "the duration cap may have passed". Time zones: `Slots` has one, so that
`datetime.now(UTC)` makes business hours UTC hours is outside the model.

## 10. Plan

Done, in this order: `AppointmentBook`, `Booking`, `BookingProofs`; `Dialogue`,
`Conversation`; `Slots`, `SlotsProofs`; `StructuredReply`, `Synthesis`;
`CallLifecycle`; `ConversationProofs`, `StructuredReplyProofs`; `Notifications`,
`LiveCall`; `WireFormat`; `Listening`; `Deployment` under `CallLifecycle`;
`ListeningProofs`, `CallLifecycleProofs`; `History` and `CommonLemmas`, shared by the two
modules with a history; the refinement of `Dialogue`; `LiveCallProofs`;
`ReadersAlwaysAgree`; `SearchIsComplete`; `CutsNeverMatter` and `AlwaysHeardTheSame`; `DialogueHolds`.

Next, theorems:
1. `Listening`: the pusher's part, that what was pushed is a beginning of the audio
   whatever fails.

Next, models: the origin REST in `LiveCall`, so that a call and the API act on
the same appointments; a second caller in it.
