# A TLA+ model of the Claude A2A bridge policy

The policy (`claude-a2a-bridge-flex/src`) turns an A2A `message/send` into a turn of
a Claude managed agent: it creates or finds the agent's session, posts the message,
polls the session's events until the turn ends, and gates the tools the agent wants to
use, by rules or by asking the human. This directory holds a specification of that
behaviour, TLC configurations that check it on small instances, and theorems about it
that TLAPS checks for every instance.

Paths below are relative to `claude-a2a-bridge-flex/src`.

## 1. The system

| Part | State | Operations | Talks to |
|---|---|---|---|
| Dispatcher (`services/dispatcher.rs`) | per request: its copy of the session entry, the confirmed ids, the anchor, the poll budget | `dispatch`, `recover_session`; pure: `current_turn`, `last_status`, `extract_pending` | all below |
| Claude API client (`services/claude_client.rs`) | none | create session, post message, post confirmations, classify a reply, list events, list idle sessions; for the card: get agent, resolve skill | managed agents, over HTTP |
| Managed agents (external) | sessions: metadata, history of events | serve a message, use a tool, pause, resume, finish, break down | - |
| Tool gate (`services/tool_gate.rs`) | none | `resolve`, `glob_match`, `tool_key`, `render` | configuration |
| Session store (`session_store.rs`) | contextId -> session entry, with a TTL | `load`, `create` (first write wins), `save` (last write wins), `delete` (no caller) | gateway storage |
| Task store (`task_store.rs`) | per replica: tasks, index by context, index by user | `create`, `update`, `persist`, `load`, `list` | gateway storage, registry |
| Replica registry (`replica_registry.rs`) | list of replica ids | `register` (no caller), `list_replicas` | gateway storage |
| Request filter (`lib.rs`) | none | routing, `handle_message_send`, agent card, error mapping, `configure` | dispatcher, Claude API client |
| Card builder (`services/card_builder.rs`) | none | `build_card`, `build_skills`, `slug` | tool gate (`glob_match`) |
| Response mapper, router, JSON-RPC and A2A types, helpers | none | pure mappings | - |

**How they interact.** The filter runs one `dispatch` per HTTP request. Requests run
concurrently, in one replica or in several, and share nothing but the gateway storage
(session store, task store) and the managed agents. A `dispatch` gives up control at
its awaits only: each storage call, each HTTP call, each sleep. Storage errors are
logged and swallowed; HTTP errors end the request, except in the classifier (counts as
a denial) and in recovery (counts as "not found").

**What is hard.** (a) Two requests of one context run at the same time and the entry
one of them has loaded grows stale. (b) A request stops between two calls: crash,
dropped connection, failed call, or a POST that took effect although its answer was
lost. (c) The history is shared by all the turns of a session, is read with a lag, and
says what belongs to which turn only through the position of an event. (d) A question
to the human outlives the request that asked it: it lives in the cache, whose entries
expire, and is rebuilt from the history. (e) A poll loop over an agent that may never
answer.

**What makes each part correct.**

- *Dispatcher*: no conversation reads from or writes to another's session; a tool is
  allowed only by the policy or by the human's approval; the human's message is taken
  for a decision exactly when a question is open, and decides exactly what was asked;
  no question is lost; a turn reports its own outcome; every request ends.
- *Session store*: first write wins on create, last write wins on save, an error is
  like a missing entry.
- *Tool gate*: first match decides; no match, the default; an unknown action defers; a
  pattern covers exactly what a glob covers.
- *Request filter*: a card request gets a card whatever fails; a configured card is
  complete; each POST is answered, with the id of its call.
- *Card builder*: the exclude patterns exclude what they cover and nothing else; no
  declared skill is lost when its lookup fails, and no two skills share an id.
- *Task store*: a created task is listed, and what is listed exists; a persisted turn stays
  in the history, once; a read misses nothing that was there when it began. An `update` keeps
  nothing of what it overwrites. *Registry*: a registered replica stays registered.

## 2. Modules

| Module | Models | State |
|---|---|---|
| `ToolGate` | `tool_gate.rs`: `resolve` | - |
| `SessionEvents` | events, `current_turn`, `last_status`, `extract_pending`, what the client posts | - |
| `SessionStore` | `session_store.rs` and the TTL | `store` |
| `ManagedAgent` | the external service | `tag`, `log` |
| `Dispatcher` | `dispatch`, `recover_session`, the calls they make, the start and end of a request in `lib.rs` | `d`, `taskDb`, `faults` and the above |
| `DispatcherProperties` | the properties | - |
| `ApprovalGate` | what the tool-confirmation gate promises, in the abstract | `question`, `told`, `decided` |
| `GateRefinement` | the refinement mapping from `Dispatcher` to `ApprovalGate` | - |
| `MCDispatcher` | policies and symmetry for TLC | - |
| `DispatcherProofs`, `HistoryProofs`, `GateProofs`, `RecoveryProofs` | theorems and lemmas about `Dispatcher`: under any interleaving, what a turn reads, one message at a time, recovery | - |
| `ApprovalGateProofs` | a theorem about `ApprovalGate` | - |
| `Glob` | `glob_match` of `tool_gate.rs`, and what a glob means | - |
| `AgentCard` | `card_builder.rs`, the check of a configured card | - |
| `RequestFilter` | `configure` and `request_filter` of `lib.rs`, `router.rs`, `get_agent`, `resolve_skill` | `policy`, `setup`, `req` |
| `MCRequestFilter` | configurations, names and patterns for TLC | - |
| `TaskStore` | `task_store.rs`, `replica_registry.rs`, their properties | `task`, `index`, `registry`, `call`, `clock`, `faults` |
| `RequestFilterProofs` | theorems about `Glob` and `RequestFilter` | - |
| `TaskStoreProofs`, `TaskReadProofs` | theorems and lemmas about `TaskStore`: its storage and the calls that write, the calls that read | - |
| `MCTaskStore` | tasks, contexts and registries for TLC | - |

`Dispatcher` extends `ManagedAgent`, which extends `SessionEvents` and `ToolGate`, and
instantiates `SessionStore` as `Cache`. `RequestFilter` extends `AgentCard`, which extends
`Glob`.

**A request** is the record `d[r]`; `pc` names the call it makes next:

    new -> load -> [recover -> rebuild -> adopt | create -> register]
        -> (classify -> relay -> clear | post) -> poll* -> ... -> persist -> save -> respond

One action is one awaited call together with the computation up to the next await, so
the interleavings of the model are those of the code. `Receive` is the part of
`handle_message_send` before `dispatch`; `Respond` and `Leave` are what follows it.

**Data.** A session history is a sequence; an event's id is its position. A tool is its
canonical key, a rule's pattern the set of keys it matches. Message text, answers,
usage, prompts, audit lines, `created_at` and timestamps are left out. The human's
message matters only through what the classifier makes of it, which is a
nondeterministic choice. The confirmations of one POST are one event. An event
records which request posted it (`by`, and `who` for a rule or a human): this is
history for the properties, the model's steps never read it.

**The task record** in `Dispatcher` is the state `dispatch` writes for its task
(`taskDb`), one write that may fail. How that write reaches the storage is `TaskStore`.

**The task store** is modelled on its own, one action per storage call. A call `x` runs
on one replica; `call[x].pc` names its next storage call:

    persist:  create -> (readIndex -> writeIndex) per index | (reread -> rewrite) per attempt
    put:      create -> (readIndex -> writeIndex) per index | overwrite
    list:     replicas -> index per replica -> (fanOut -> slice per replica) per task
    load:     fanOut -> slice per replica
    register: readRegistry -> writeRegistry

`put` is what `dispatch` does with the interface: `create`, else `update`, with times 0
and no history. The policy calls `put` only; `persist`, `load`, `list` and `register` are
part of the module and have callers in its tests only (`lib.rs:10` says so of the
registry). The two write disciplines are kept apart: `PutTasks` are written with `put`,
the others with `persist`. A record keeps its version, its two times and its turns (a
turn is named by the call that wrote it); state, message and artifacts go with the
snapshot time. The version of a key counts its writes, as in the storage of the tests.
A task has one context and one user. Task keys do not expire in the model.

**The abstract gate.** `ApprovalGate` knows of no cache, session or event. A conversation
has at most one open question; `Ask` puts one to the client, `Decide` closes it with one
result for all of its tools and sends that decision once. `GateRefinement` says where the
dispatcher keeps these: a question is the pending set of the cache entry unless a request
has the conversation to itself (`Taken`: from its decision, or its first call when there
is none to take, to its response); what was told is the deferred set of each
`INPUT_REQUIRED` response; what was decided are the confirmations in the histories that
are relayed for the human. So `Respond` is the step that asks, although the question is
in the cache three calls earlier, and `RelayDecision` the one that decides, before
`ClearPending` writes it.

**The request filter.** Requests share nothing in `lib.rs`, so the state holds one, on one
configuration: `pc` goes from `idle` through `agent -> (detail -> version)*`, the calls
behind a derived card, or through `dispatch`, here one call with any of its results. Each
call may fail. A name, a skill id and a pattern are short sequences of letters, because
`slug` and `glob_match` are about letters; a blank name is the empty one. Of a card the
set of its fields is kept, and the skills with id, name and origin.

**The managed agents** are external. The assumptions, all in `ManagedAgent`: a history
only grows; the `user.message`s of a session are served one at a time in the order of
posting, and one posted while a turn is open waits; an agent pauses for all the tool
uses of its turn that are unconfirmed and resumes when each is confirmed, and may
announce the rest when only some are (`AnnounceRest`); confirming a use again changes
nothing; a session is idle when its last status says so, is new or is in error; a
listing shows a prefix that lags at most `MaxLag` events.

**Faults.** Each run names the kinds it allows and bounds their number (`MaxFaults`):
`error` (a call fails without effect), `timeout` (a POST takes effect, its answer is
lost, also a classifier that does not answer), `storage` (a storage call fails), `crash`
(the replica restarts or the client goes away), `expire` (an entry's TTL lapses),
`agent` (an agent's turn ends in an error or its session is terminated), `aged` (the
session is not among those recovery may take).

**Mutants.** A definition whose comment says "Mutant" is a variant with a plausible bug
of the definition below it. The specification never uses one.

## 3. What is checked

| Run | Instance | Properties |
|---|---|---|
| `Sequential` | 3 requests, 1 context, 2 tools (one allowed by a rule, one deferred), 2 polls, lag 1, one failing call or agent breakdown, no recovery | `TypeOK`, `CacheHoldsOpenQuestions`, `DecisionAnswersQuestion`, `OneSessionPerContext`, `ReadsOwnTurn`, `ImplementsGate` |
| `Recovery` | the same with 1 poll, recovery, and one of crash, lost answer, expiry, aged session | `NoQuestionForgotten`, `PendingClearedByDecision` |
| `Overlap` | 2 requests at a time, 2 contexts, a denied and a deferred tool under overlapping rules, recovery, an API that does not echo message ids, and one of lost answer, storage error, expiry, agent breakdown | `PostsStayInContext`, `DecisionsAreSanctioned`, `NoRequestConfirmsTwice` |
| `Liveness` | 2 requests at a time, 1 context, a page of 4 events, no echoed ids, one failing call, fairness | `EveryRequestEnds` |
| `TaskWrites` | 3 writing calls at a time on 1 replica, 3 tasks of one context (one of them with a user, one written by `put`), two of error, lost answer, crash | `TypeOK`, `TurnsKept`, `CreatedIsListed`, `ListedExists`, `RecordsOnlyGrow` |
| `TaskReads` | 2 writing calls and a reading one on 2 replicas, one of which starts meanwhile, 2 tasks, one fault | `ReadsAreComplete` |
| `Requests` | one request on each of some thousand configurations, any call failing, fairness | `ExcludesWhatPatternsCover`, `FailedLookupsLoseNoSkill`, `CardIsComplete`, `CallersAreAnswered`, `CardIsServed` |

- `CacheHoldsOpenQuestions`: between requests the entry's pending tools are exactly
  those that an `INPUT_REQUIRED` response named and no human decision has answered.
- `DecisionAnswersQuestion`: the uses a human's decision is relayed for are all those
  one `INPUT_REQUIRED` response named, and no other.
- `OneSessionPerContext`: a context whose entry is not lost keeps one session, even if
  the first turn fails after the session was created.
- `ReadsOwnTurn`: a request that opened its turn on a session at rest, and had it to
  itself, reports a status that belongs to that turn.
- `NoQuestionForgotten`: an open question about a tool that the policy defers is in the
  cache whenever an entry is, also after the entry was lost and rebuilt.
- `PendingClearedByDecision`: no step removes a tool from an entry that stays in the
  cache unless the tool has been confirmed.
- `PostsStayInContext`, `DecisionsAreSanctioned`, `NoRequestConfirmsTwice`: under any
  interleaving. Messages and decisions go to a session of the request's own context;
  an approval relayed for a human was one, and a rule's decision is what the policy says
  of the tool, or of a tool without a name; one request never posts two decisions on
  one use.
- `EveryRequestEnds`: a response, an error or a crash.
- `TurnsKept`: the turn of a `persist` that no fault met is in the record's history,
  exactly once, however many calls write the record.
- `RecordsOnlyGrow`: a `persist` keeps the turns before its own and the creation time.
- `CreatedIsListed`: a task whose creation returned is in the index of its context and
  of its user, exactly once, however many tasks are appended at the same time.
- `ListedExists`: no index names a task the replica does not have, whatever fails. Like
  `CreatedIsListed`, this is a claim within the TTL of the storage: record and index entries
  lapse on their own, in the code but not in the model.
- `ImplementsGate`: every behaviour is one of `ApprovalGate`.
- `ReadsAreComplete`: a `list` finds each task that was in the index of a listed replica
  when it read the registry, a `load` each turn that was in a slice when it began.

- `ExcludesWhatPatternsCover`: what `glob_match` computes with prefix, leftmost middle
  parts and suffix is what the pattern means (`Covers`: some strings in the place of the
  stars give the name), seen through the card: no covered server on it, every other one.
- `FailedLookupsLoseNoSkill`: each declared skill that has a name or an id is on a derived
  card by one of them, whichever lookups fail, and the ids on a card are distinct.
- `CardIsComplete`: a card that is served has all the fields of a canonical one. The two
  cards that may lack some are named in it: none is configured, or the agent cannot be
  read and the override is all there is (`docs/agent-onboarding.md` wishes for "a minimal
  valid card" there; the code serves the override, unchecked in derive mode, or `{}`).
- `CallersAreAnswered`: no POST is passed on to the upstream or left without an answer;
  the answer has the id of the call, and the text of the turn is in it once.
- `CardIsServed`: a request for the card ends with a card, whatever calls fail.

The first two runs take one message at a time on a context (`Overlap = FALSE`): with
two, an entry is written by whoever is last (`save` says so), and the properties about
the cache do not hold: with `Overlap = TRUE` and no fault TLC finds two requests of which the
later `save`, of an entry loaded before, drops the question that the other has parked and put
to the client, so the reply to it is posted as a message (`NoQuestionForgotten`).

**Bounds.** Three requests suffice for question, answer and a third message that finds
what the first two left behind; two tool uses for a gate of which a rule decides one
and the human the other, and for two gates in a row; two polls for a request that
sees the same gate twice, one for a request that ends in WORKING while its turn goes on.
In `TaskWrites` three calls at a time are the most
for which three rounds of compare-and-set always suffice: each lost round is another
call's write, so with four the last may give up, as the code means it to. One replica is
enough there because no write touches another replica's keys.
Two contexts suffice for a session handed to the wrong one. In `Requests` patterns have up
to four letters with up to two stars and names up to three letters of two kinds: enough for
a prefix, a middle part and a suffix, and for each two of them to overlap in the name. Two
skills and two servers suffice for an id that is met twice, by two skills, two servers or
one of each. `MaxSessions` is the number
of requests, so no session is refused. Deadlock is not checked: when all requests have
ended and the agents wait, the system has stopped.

**Fairness.** `FairSpec` asks weak fairness of each request's own step: a call is
answered or times out (every HTTP call has `timeout_ms`), and the event loop resumes the
request. Nothing is asked of agents, clients or faults. `EveryRequestEnds` then holds
because each iteration of the poll loop consumes one of its attempts. `RequestFilter` asks
weak fairness of its calls (`Step`) for the same reason: each is answered or times out.
Nothing is asked of the arrival of requests.

### What the code does otherwise than its documents say

Five runs are expected to find a violation; each states a sentence of the documents.

- `DoubleConfirm` (`NoToolConfirmedTwice`): ids that were confirmed are remembered for
  one request. After a mixed gate the resume confirms again what a rule had decided.
- `LateTurn` (`AnchorIsolatesTurn`): the end of a turn that outlived its budget is read
  as the result of the next message, since it comes after that message's anchor.
- `UnnamedTool` (`DeniedToolsStayDenied`): a tool use that precedes the slice of the
  turn is resolved as a tool without a name.
- `UnaskedDecision` (`DecisionAnswersQuestion`): recovery takes any message for the
  answer to a gate, also one that no response has mentioned.
- `LostRegistration` (`RegistrationsKept`): `register` reads the list and writes it back
  unconditionally, so of two replicas that start together one is not in the registry.

## 4. What is proved

`DispatcherProofs` holds for any sets of requests, contexts, sessions and tools, any
policy, any budget, lag and page, any kinds and number of faults, with and without
recovery and overlap. It rests on the assumptions `RulesAssumption`, `AgentAssumption`
and `DispatcherAssumption`, which only type the constants.

- `TypeCorrect`: `Spec => []TypeOK`. `TypeOK` is not inductive: an entry in the cache must
  name a session that exists before its history can be read or extended. The invariant
  `TypeInv` adds `Housed`: every session named by the cache or by a request that is past its
  session's creation exists and is tagged with that entry's or request's context.

Its second part holds under the same assumptions, for the three properties that `Overlap`
checks, that is for any number of requests at the same time and any faults:

- `PostsStay`: `Spec => []PostsStayInContext`.
- `OnlySanctioned`: `Spec => []DecisionsAreSanctioned`.
- `ConfirmsOnce`: `Spec => []NoRequestConfirmsTwice`.

The argument has two halves. `CarriesTo` says what a request keeps from one step to the
next (`NextCarried`: its context once it has one, its answer, and from its first decision
on a growing set of confirmed uses, to which each poll adds only uses that are new).
`PostedBy` says what one step may append to a history (`NextGrows`: an event of the
agent, or a message or decisions of one request at the right point of its program).
The invariant `PostInv` follows from these two alone, without a second look at the
actions: each post lies in a session of its request's context (`PostsOK`), the decisions
a rule is about to relay are the policy's and new (`AutosOK`), and no use has two
decisions of one request, those already posted being in the set it remembers
(`ConfirmedOnce`). That a rule's decision stays sanctioned while the history grows is
`RulingKept`: an event once written never changes, so a use that had no name may get one,
but one that had a name keeps it.

`HistoryProofs` is about what a request reads, again under any interleaving and any faults:

- `AnchorsHold`: `ReadsOwnTurn` for every request that has an anchor, with no further
  assumption.
- `TurnsAreOwn`: `Spec => [](HistoriesFit => ReadsOwnTurn)`, for `MaxLag <= 4`. A resumed turn
  has no anchor, and its slice begins at the last message that the listing shows. As long as
  no history outgrows a page (`HistoriesFit`) and a listing is at most four events late, the
  request cannot be shown a list that ends before the gate it has decided: between the message
  and the decision lie the start, a use and the gate. Both limits are needed: with a lag
  of five TLC finds a resume that reports the turn before its own, and a page that ends
  early hides as much. The code has no guard for either; the page holds 1000 events.

Three parts make the argument. `WellFormed` says what the service guarantees of each event given
those before it (who is served after whom, what a gate names, what a status may follow), and
each step keeps it (`NextFormed`). Of well-formed histories alone it is then shown that a
message that met a session at rest, and after which none was posted, is the one each later
status belongs to (`TurnOfMessage`), and that a decision lies well behind the message whose turn
used the tools it decides (`OpenerBefore`). `ReadInv` ties the requests to the histories: what an
entry or a request holds was named by a gate, a human's decision is about such uses, and the
outcome of a request comes from a slice that began no earlier than its turn allows (`ReadFrom`).

The first part of `TaskStoreProofs` holds for any numbers of replicas, tasks, calls and faults, any clock,
and any split into `put` and `persist`, under `TaskStoreAssumption`:

- `RecordsGrowOnly`: `Spec => RecordsOnlyGrow`.
- `NothingListedInVain`: `Spec => []ListedExists`.

Both follow from `StoreInv`. Neither property is inductive: that a write keeps what is
there depends on what the call has read before. `TaskRead` and `IndexRead` say that a call
between its read and its write knows the record, or the index, as it is, unless the
version has grown; `Grows` says that every step on the storage either leaves a key alone
or raises its version, so what one call has read survives the steps of all the others
(`ReadsKept`). `Indexing` says that a call which appends to an index has written the record.

The second part of `TaskStoreProofs` adds `FewWriters`: at most `MaxRetries` calls write, on any number of
replicas, tasks and indexes, and with any readers, starting replicas and faults. The code
gives up after `MaxRetries` rounds, so with more calls the properties are false.

- `TurnsAreKept`: `Spec => []TurnsKept`.
- `CreationsAreListed`: `Spec => []CreatedIsListed`.

This is a counting argument. In `CountInv` each entry of an index, and each turn of a record
after the first, belongs to a call of its own that is past its write (`IndexCounted`,
`RecordCounted`), and the version counts them. A call in a round of compare-and-set remembers
what it read and has lost as many rounds as others have written since it began at that key
(its `tries` is at most the version). Were it to lose its last round, `MaxRetries` other calls
would have written, and with itself that is one more than there are.

`TaskReadProofs` is about all calls again, without `FewWriters`:

- `TypeCorrect`: `Spec => []TypeOK`.
- `ReadsComplete`: `Spec => []ReadsAreComplete`, under `SteadyRegistry`: no replica starts,
  or one does and the registry has an entry. This is how the policy runs, as nothing in it
  calls `register`. The assumption is needed: two replicas that start together may drop one
  from the registry (see `LostRegistration`) between the read of the index and that of the
  slices, and the first of all to register takes the place of the single replica that an
  empty registry stands for; TLC finds both.

`MissesNothing` says where a task or a turn that is due can be at each step of a read: on the
list still to be fetched, in an index or a slice of a replica still to be asked, among those
found. It survives the steps of others because indexes, records and the registry only grow
(`IndexesGrow`, `SlicesGrow`, `RegistryGrows`), and the step of the read itself moves a task
or a turn from one of the places to the next.

`RequestFilterProofs` holds for any configurations, agents, messages and skill names, under
`RequestAssumption`:

- `CardsAreComplete`: `Spec => []CardIsComplete`.
- `PostsAreAnswered`: `Spec => []CallersAreAnswered`.
- `SkillsAreShown`: `Spec => []FailedLookupsLoseNoSkill`.
- `PatternsAreObeyed`: `Spec => []ExcludesWhatPatternsCover`, where the assumption says that
  names and patterns are sequences of letters. The letters, the lengths and the number of stars
  are arbitrary.

`FilterInv` adds what a request knows on its way: a policy that serves has checked its card,
only a derived card is behind the calls to the agent, and only a routed POST that has no
reply yet is in dispatch. `Known` adds that the skills of a request are the declared ones, some
with the name they lacked. What the two folds of `BuildSkills` compute for lists of any length
is shown in `FoldSteps` from the least step at which it would fail (`SmallestPicked`), which
takes the place of an induction theorem: those of the library have an operator as a parameter.

For the patterns, `Fits` says between what the code computes and what a pattern means: a text
fits a pattern if it can be cut into pieces that the letters of the pattern stand for. A part
without stars fits only itself (`PartFits`), a star whatever is left (`StarFits`). `PlaceFits`
is the reason why the code needs no backtracking: the place it reaches at a star is the nearest
one at which the pattern so far can end, and whatever can follow a later place can follow this
one, with a longer piece for the star. So `MatchesIs`: `Matches` holds just if the whole text
fits. On the other side `FlattenSteps` unfolds how `Covers` puts a text together, and
`CoveredFits` and `FittingCovered` turn its pieces into cuts and back. `GlobIsExact` joins the
two: `Matches(t, p) <=> Covers(p, t)` for all sequences. `Glob` defines the parts of a pattern
by the star that ends each, and the place reached as a recursive function over the stars,
since a fold over a list of parts that is itself sorted first would add two more recursions.

The first part of `GateProofs` adds two assumptions: a client sends one message at a time on a context
(`~Overlap`), and writes to the cache succeed (no `storage` faults). Crashes, lost answers,
expired entries, recovery and all else stay.

- `QuestionsSurvive`: `Spec => PendingClearedByDecision`.

`Moves` puts each action into one of a handful of forms, by what it makes of the request
and of its context's entry (`StepMoves`); the actions are not looked at again. `CacheInv`
says that at most one request of a context is active (`Alone`), and what it knows of the
entry at each step (`Synced`): from `clear` on its own copy agrees with the cache or the
cache is empty, and the tools it is about to clear have been confirmed. Only `ClearPending`
then removes a tool.

Its second part narrows the faults to failing calls and agent breakdowns (`Lossless`), since a
lost entry or a lost answer loses track of a question. The numbers of contexts, requests,
sessions and tools, the policy, lag, page and recovery switch are arbitrary.

- `OneSession`: `Spec => []OneSessionPerContext`.
- `Implements`: `Spec => ImplementsGate`.
- `DecisionsAnswer`: `Spec => []DecisionAnswersQuestion`.

`GateInv` adds to `CacheInv` that a request past its load holds the cached entry (`Held`)
and that each session ever created is the one of its context's entry, or is about to be
registered (`Homed`). Hence recovery finds nothing, and no second session is created. For
the refinement, `QuestionStep` and `MoveQuestion` say what a step does to the open question
of its conversation, `DecidedKept` and `DecidedRelay` what it does to the decisions in the
histories, and `StepGate` puts the two together. `DecisionInv` adds that an open question
is the deferred set of one `INPUT_REQUIRED` response of the entry's session.

`RecoveryProofs` allows crashes, lost answers, expired entries and aged sessions again. It keeps
`~Overlap` and the writes that succeed.

- `NothingForgotten`: `Spec => []NoQuestionForgotten`, for `MaxLag = 0` and pages of any size.
  A listing that misses the last gate rebuilds an entry without it, and the next message goes
  out as a message while a question is open: with a lag of one TLC finds this. A page that
  ends early does no such harm, since what was asked was read from the same page.

`ForgetInv` says that the entry, and the copy of each request that has one, hold what is owed
(`Covers`): the uses that were put to the client, that the policy defers and that no human has
decided. Such a use becomes owed only with a response (`OwedStep`), whose request has it in its
own copy, and ceases to be owed only with a human's decision. The hard step is recovery
(`RebuildHolds`). A gate that names a use stays the last status of the history until the use
is confirmed (`StaysGated`), so the rebuilt entry can miss an owed use only if a rule has
confirmed it. None has (`Settled`): a rule says what the policy says of the tool, or what it
says of a tool without a name if a message that listings show lies behind the use
(`Lawful`), and a request that defers a use has read it in the same light (`PollHolds`).

Its second part is about conversations that lose nothing: it narrows the faults to `Lossless`
again and shows the converse too, that the entry holds no question which is not open.

- `CacheIsExact`: `Spec => [](HistoriesFit => CacheHoldsOpenQuestions)`, for an API that echoes
  event ids and `MaxLag <= 1`. The run `Sequential`, whose page no history outgrows, meets all
  of this.

The invariant is `AskInv /\ Answered /\ (HistoriesFit => QuestionInv)`; TLC checked the last two
on the instance of `Sequential` before they were proved. `Answered` is the easy half: what a
response put to the client is decided, or still in the question of its conversation. The other
half needs to know why an open question cannot have been decided already. `Awaits` says it of
a history: the session stands at a gate, the gate names the uses in question, none of them is
confirmed, and none that the policy leaves to the human is missing. `AwaitsKept` shows that only
a message or a confirmation ends this. When a request defers a new set, `HasTurn` gives
`Awaits`: since the event that opened its turn, a message or a decision after which nothing was
left to the human (`Spent`), the session is its own (`Own`), and what it has confirmed is what a
rule or its human decides. A rule can therefore not have confirmed what is deferred. The bounds
on the API are what the slice of a poll needs to show the last gate: TLC finds no violation for
lags of up to 3 on this instance, one at 4, and without echoed ids one at 1. Between these and
the theorem lie lags of 2 and 3, which stay with TLC.

`ApprovalGateProofs` proves `OnlyToldDecided` of the abstract gate: what is open, or was
decided in the human's name, is what some response has put to the client.

**Left to TLC**: liveness (`EveryRequestEnds`, `CardIsServed`), since fairness is out of the
prover's reach, and `CacheHoldsOpenQuestions` beyond the hypotheses of `CacheIsExact`. Every
other property of a passing run is stated by a theorem. No module declares a recursive operator.

## 5. Not modelled

Of the agent card: description, url, version, tags and the provider. Of the response: the
text of an answer and the sums of usage. `render`: wording. The parsing of HTTP, JSON and
headers: its failures are inputs of `RequestFilter`. Logging, and the generated
configuration. The glob that `ToolGate` uses is the set of keys a pattern matches; that the
code computes that set is proved of `Glob` (`GlobIsExact`). Widths of integers: the poll bound
is clamped but not cut to 32 bits. The TTL of task keys.
A POST whose answer is lost takes effect at once or never; that it might reach the service
later, after the client's next message, is left out.

Some of what the code does is modelled and excluded by no property, because nothing in the
repository promises otherwise: a terminated session stays in the cache, a late `update`
replaces a newer state, a slow `persist` writes an older time.

## 6. Plan

In this order:

1. `ToolGate`, `SessionEvents`, `SessionStore`, `ManagedAgent`, `Dispatcher`, properties, runs
   and type invariant - *done*.
2. Proofs of the safety properties that hold under any interleaving - *done*.
3. `TaskStore`, with the replica registry, and its runs - *done*.
4. `ApprovalGate`, with `Dispatcher` for one message at a time shown to implement it, by
   TLC and by proof - *done*.
5. `Glob`, `AgentCard` and `RequestFilter` - *done*.
6. A page smaller than the history and an API that does not echo ids, in the runs that hold
   there - *done*.
7. Proofs of `PendingClearedByDecision`, `OneSessionPerContext` and
   `DecisionAnswersQuestion` - *done*.
8. Proofs of `TurnsKept`, `CreatedIsListed`, `ReadsAreComplete` and `TypeOK` of `TaskStore`,
   and of `CardIsComplete`, `CallersAreAnswered` and `FailedLookupsLoseNoSkill` - *done*.
9. Proofs of `ReadsOwnTurn` and `NoQuestionForgotten` - *done*.
10. Proof of `CacheHoldsOpenQuestions` - *done*.
11. Proof of `ExcludesWhatPatternsCover` - *done*.
