# A TLA+ model of Yuptime

Yuptime is a Kubernetes operator that monitors services. Users write `Monitor`,
`MonitorSet`, `Silence`, `MaintenanceWindow` and `YuptimeSettings` objects; a
controller watches them, creates a Job for a check, and a checker pod runs the
check and writes its result into the status of the Monitor. A watcher in the
controller takes the result from there to Prometheus and Alertmanager.

This directory models the parts of the program where order, failure and time
matter, checks the models with TLC on small instances, and proves the safety
properties that matter most with TLAPS for every instance. Paths below are
relative to `src/` of the repository's own tree (so `controller/index.ts` is
`src/controller/index.ts` there).

## 1. The system

Everything the controller does runs in one JavaScript process: a handler is
atomic up to its next `await` on I/O, and between two awaits the handlers of
other events run. Nothing is persisted by the controller. All that survives a
restart is in the Kubernetes API.

| Component (source) | State | Operations | Talks to |
|---|---|---|---|
| Informers (`controller/informers.ts`, `k8s-client.ts`) | the open watches | list, then watch; `handleAdd`, `handleModify`, `handleDelete` | API server; calls the reconcilers without awaiting them |
| Resource cache (`lib/crd-cache.ts`) | objects by kind and name | `upsert`, `delete`, `clear` | written by informers, read by reconcilers |
| Monitor reconciler (`reconcilers/monitor-reconciler.ts`) | `scheduledMonitors`, pending timers | arm the first check, cancel, reject | job manager |
| Handler and status writes (`reconcilers/handler.ts`, `status-utils.ts`) | none | parse, validate, reconcile, `markValid`, `markInvalid` | API server: each write is an event for the informer again |
| Job manager (`job-manager/index.ts`, `job-builder.ts`) | none | `scheduleCheck`, `cancelJob` | API server: Jobs |
| Checker pod (`checker-executor/`, started by a Job) | none | load the monitor, run one check, `updateMonitorStatus`, exit | API server; the checkers |
| Checkers (`checkers/`) | none | one function per type: await its steps, judge the answer, close its client | the monitored service; helpers |
| Response parsers (`lib/parsers/`) | none | query a JSON, XML or HTML body and compare with the criteria | called by the content checks |
| Secrets, OAuth, DNS (`lib/secrets.ts`, `oauth.ts`, `dns.ts`) | a cache of secrets | the steps before a request | API server, token server, resolvers |
| Job completion watcher (`job-manager/completion-watcher.ts`) | `processedJobs` | watch callback, `handleJobCompletion` | API server, metrics, alert engine |
| Alert engine (`alerting/alert-engine.ts`) | none | one POST per state change | Alertmanager |
| Silence and settings reconcilers (`reconcilers/auth-and-config-reconcilers.ts`) | `silenceCache`, its timers; `globalSettings` | cache, expire, reject | timers of the runtime |
| Maintenance windows (`reconcilers/maintenance-window-reconciler.ts`, `lib/rrule.ts`) | `maintenanceWindowCache` | cache with the next occurrence; `isInMaintenanceWindow`, `getActiveMaintenanceWindows` | nothing in the program asks it |
| Process (`index.ts`, `controller/index.ts`) | what was started | start, graceful shutdown | all of them |
| Helpers (`lib/`, `job-manager/jitter.ts`) | none | jitter, cron, selectors, uptime | |

### What is hard about it, and what makes each part correct

* **Scheduling.** The list, the ADDED replay of the watch, edits made between
  the two, status writes that come back as events, a `cancelJob` that is out
  while the monitor is enabled again, a restart between arming a timer and its
  firing. Correct means: armed once, never missed, never checked if it was never
  enabled, and checked again for as long as it is enabled. The last is not so
  (section 5).
* **Status.** Two writers, the controller and the checker pod; the controller's
  write is read, build, replace, with no resourceVersion. Handlers of successive
  generations overlap. Every write feeds back. Correct means: what it says of a
  generation is true; once all is quiet it describes the current spec; the
  feedback dies out; results are not lost. The last is not so.
* **Completion.** A set of keys cut to the newest hundred, a handler that is not
  awaited, a second read of an object that another Job may have changed. Correct
  means: no completion exported twice, none lost, none older than the Job.
  Alerts are to be sent when the state changes; they are not.
* **Silences.** Timers that are never cleared, a cache nobody empties on
  deletion, 32-bit delays. Correct means: every entry goes away in the end and
  no earlier than it expires; the second half fails for an edited silence.
* **Socket checkers.** Timer, write callback, data in pieces cut anywhere, error and
  close race for one result. Correct means: one verdict in the end, the right one, given once,
  and neither timer nor connection left behind.
* **The pod of a check.** Several steps, each with a time limit of its own or with
  none, any of which may fail, time out or never end; a client that has to be
  closed whichever it is; a patch that may be refused, or applied without an
  answer; a deadline of the Job that kills the pod at any of them, and no retry.
  Correct means: no error passes for an answer and no answer for an error, clients
  are closed, the exit code tells what is stored, and in the end there is a verdict
  or the pod is gone.
* **Maintenance windows.** The next occurrence is computed when an event comes and
  not again, by a walk at the stride of the rule; nothing leaves the cache. Correct
  means: no monitor is suppressed when its window is not meant to be open, or that it
  does not select, and every occurrence is kept for its duration. None of these is so
  for every rule and selector (section 5).
* **Parsers, selectors.** What "selects" means at the edges: one element or several,
  empty ones, texts a library turns into numbers or truth values, missing labels.

The hazards, each at its line, are the `hazards` of `PROJECT.json`.

## 2. Modules

| Module | Models | Abstract to |
|---|---|---|
| `MonitorController` | API objects, informer, cache, handler, reconciler, job manager, restart | a spec is `enabled`, `disabled` or `invalid`; an object is its uid and spec |
| `MonitorStatus` | the status of one Monitor, its two writers and the feedback of events | a spec is the number of its generation and what it is worth: valid, rejected by the validator, or not parsed by the schema; a result is the number of its check |
| `JobCompletionWatcher` | the Jobs of a Monitor and the watcher | a result is a number and a verdict |
| `SilenceCache` | Silence objects, the cache, its timers, the clock | a silence is its expiry; time is in ticks |
| `SocketChecks` | one tcp, websocket or steam check | the answer is a sequence of pieces, cut between characters or inside one; a verdict is up or down |
| `XPathQuery` | the simplified XPath of `lib/parsers/xpath.ts`, beside what XPath means | a document is the sequence of its elements; a text is what stands there and what the parser makes of it |
| `Verdicts` | how each checker judges an answer | an answer holds what the criteria tell apart; a criterion is the set of its value |
| `CheckerPod` | the pod of one check, every type: composes `SocketChecks` and `Verdicts` with the executor, the API server and the Job | a check is the sequence of the steps it awaits; time is in ticks |
| `CheckOnce` | what a check promises: the abstract specification that `SocketChecks` and `CheckerPod` implement | a verdict or its loss, and whether anything is held |
| `Recurrence` | the rules of `lib/rrule.ts`, beside what RFC 5545 means by them | time is in hours; days, months and years are uniform |
| `Selectors` | `matchesSelector` of `lib/selectors.ts` | a label is the set of its value |
| `MaintenanceWindows` | the objects, the cache and the questions asked of it: composes `Recurrence` and `Selectors` | a window is its times, rule and selector |
| `..._proofs` (seven modules) | the theorems of each | |
| `RecursionTheorems` | lemmas on induction and recursion that two of them use | |
| `MCController`, `MCStatus`, `MCCompletion`, `MCSilence`, `MCChecks`, `MCWindows` | what TLC needs beside | |

### Model and code

**`MonitorController`.** `cluster` and `jobs` are the API server. `stage` is where
`startCRDWatcher` is: not started, listing, watching, or left with a closed
watch. `listed` is what the list returned and has not been handled; its objects
are handled one at a time because the code awaits each. `inbox[m]` is what the
watch has sent and the callback has not run for; only the order of events about
one name matters, since all state is kept by name. `Replay` is the stream of
ADDED events with which a watch without a resourceVersion opens.
`DeliverUpsert` is the whole of `handleAdd` and `handleModify` up to the first
await on I/O: cache first, then `Handle`, whose three alternatives are the
invalid, the enabled and the disabled branch. `cancelling[m]` counts the calls of
`cancelJob` that are out; `CancelReturns` is the code after it. `JobLabel` and
`JobSelector` are the two forms of the monitor's id: they differ, and so
`Selected` is empty. `CancelOutcomes` lets the API refuse that selector, which
Kubernetes does (a label value holds no slash), or answer with an empty list.
`claims`, `releases`, `everEnabled` and `born` are history kept for the
properties. There is no action for the deletion handlers: none is registered.

**`MonitorStatus`.** A slot holds one call of the handler. `Deliver` starts it
and decides which mark it will make from the object it was given: `Validated` or
`ValidationFailed` after the schema's parse, or, where that throws, `ReconcileFailed`
from the catch block, which the handler is then in before its first call. `Get` and
`Patch` are the two API calls of `updateStatus`; `Fails` is what a throw does, to
the catch block or, from there, out: the mark made in the catch block has no second
attempt. `Marked` is `markValid` or `markInvalid`
with `updateConditions`, whose rule for transition times decides whether a write
changes anything. `now` alternates at each write: two stamps in a row always
differ, which is the case that feeds back. `Patch` fails where there is no
status, since RFC 6902 refuses to replace what is not there, and `markInvalid`
in the catch block then fails in the same way.

**`JobCompletionWatcher`.** `Deliver` is the watch callback from the filter to
the pruning; `GetMonitor` and `Record` are `handleJobCompletion` before and after
its await. `StaleReplace` stands for what `MonitorStatus` shows: the replace of a
status that drops a newer result.

**`SilenceCache`.** `Deliver` is `validateSilenceExpiry` and `reconcileSilence`;
`Fire` is the timer's callback; `FiresAt` says when the runtime runs it, at once
for a delay that does not fit 32 bits.

**`SocketChecks`.** `completed` is the flag of that name in `tcp.ts`, `resolved` in
`websocket.ts`, `responded` in `steam.ts`. What differs between the three is kept
apart: handlers that look at the flag end in `FinishOnce`, tcp's write callback
and data handler do not look and end in `Finish`; `Resolve` is the promise, which
ignores a second settlement. `Begin` covers the resolution of the name, which in
`tcp.ts` has a time limit of its own and falls back to the system, and what
happens if starting the connection throws: websocket and steam catch it, tcp's
executor is past its `try`, so the promise is rejected with timer and socket left
as they are until the timer fires (stage `failed`; the dispatcher in `checkers/index.ts` turns
the rejection into a result, which is the `down` of the model). A tcp stream nobody listens to keeps
its data, so `TcpData` starts from the first piece when the handler is set in
`WriteReturns`, which may come after the timeout. `Decoded` is the `toString()` of
one buffer: a character cut in two is lost on both sides, and with it an expected
response that holds it. A destroyed socket hands over
no data, but an error may still come. `close()` of a WebSocket is taken as the end
of it: the closing handshake, and messages during it, which find the flag set, are
left out. Expectations are taken to be valid patterns: `new RegExp` on an invalid
one throws out of the handler of the message, which is left out.

**`CheckerPod`.** `phase` is where `main` of `cli.ts` is: `loading` is
`loadMonitorCRD`, `checking` the checker, `closing` its `finally`, `reporting` the
patch, `stored` the patch applied and its answer on the way. `Steps(t)` lists what
the checker of a target awaits; `heard` is how those that are over ended. `Timed`
are the steps with a timer, each started anew with the full `timeoutSeconds`;
`Tolerated` those whose failure the code only logs. `StepAnswers` judges the
headers at the request and the body at the end, by `Accepts`; `Fails` is the
`catch` of each checker, whatever kind of error it names. `Settle` goes through
`closing` if a library's client is open; the client of grpc is closed at once.
`Apply`, `Exit` and `ReportFails` are `updateMonitorStatus` and the exit codes; in
`stored`, `ReportFails` is the answer of an applied patch being lost. `Kill` is the
deadline of the Job, `Crash` an eviction or the end of the process, which an error
of the redis client, having no listener, also is. A target with `credentials`
`"missing"` never gets its pod started and is killed pending; with `"empty"` ones
the database checkers reject it. Several secret headers are one step, as are the
two reads of a container's or an endpoint's state. Socket checks run the actions
of `SocketChecks` with the clock of the pod; the extra steps of `tcp.ts` before its
socket, the resolution of the name, stay part of `SocketBegins`.

**`CheckOnce`.** The caller's view: a verdict given once, or its loss, and `held`,
whether a client or socket is open in a pod that runs.

**`Verdicts`, `XPathQuery`.** One operator for each validator, in the order of its
comparisons where it matters. `QueryXPath` follows the walk of the parser over the
object `fast-xml-parser` builds: `current` is the set of elements it stands at, an
array if there are several; `GetElements` is the property of an object, `GetElement`
the step through one that is an array or not, which goes on only where an element is
`Alone`, and its predicate, which is read only if it is `legible`, that is, fits the
pattern `\w+` for its names. A content is the text that stands in the document and
what the code writes for it: trimmed, and a number anew ("2.50" is 2.5, "007" is 7,
"1e3" is 1000). A bare element with the text "true" or "false" is a boolean
(`IsTruthValue`), which `text()` drops. `Strings` puts what is found in document
order. `XPathValues` is the reference: chains of elements, and the texts as they
stand. `Plain` says where the two agree but for order.

**`MaintenanceWindows`.** `inbox` as in `MonitorController`; a delete is no event,
since no delete handler is registered. `ReconcileMaintenanceWindow` is the
validator and the reconciler; `Entry` what it caches. `IsActive` is both
`isInMaintenanceWindow` and `getActiveMaintenanceWindows`, which compare the same.
`Recurrence!GetNextOccurrence` gives the first candidate that suits instead of
looping; the candidates, their order and the limit on them are those of the loop.
Minutes, daylight saving and months of unequal length are left out. UNTIL is an
instant and whether it is written in the form of RFC 5545, which `Date` does not
read; `IsOver` compares with it only if it is not. BYMONTH is a part of a rule that
`GetNextOccurrence` does not look at. `Occurs` is the reference, what RFC 5545 has of
a `Regular` rule, with both; `Plain` are the regular rules whose parts the code reads.

## 3. What is checked

| Run | Question | Expected |
|---|---|---|
| `controller` | With every fault, both ends of `cancelJob` and a restart: is a name armed twice without a release, is an enabled one missed between list, replay and events, is anything checked that was never enabled, does the cache catch up, does the controller ever go back to an earlier object of a name, does the first object get its Job across restarts? | holds |
| `controller_interval` | Is an enabled monitor checked again? | violated |
| `controller_reenable` | Is a monitor that is disabled and enabled again armed again? | violated |
| `status` | With overlapping handlers, faults and restarts: is what the status calls valid valid, does it end up describing the current spec, rejected and malformed ones included, does the feedback die out? | holds |
| `status_result` | Is a stored result replaced by later ones only? | violated |
| `completion` | Are completions exported once within the window of keys, none older than the Job, none lost once received? | holds |
| `completion_alert` | Does a change of state between two exports send an alert? | violated |
| `silence` | Does each entry have a timer that ends it in time, is an unedited silence active until it expires, does the cache empty? | holds |
| `silence_early` | Does a timer remove entries only when they have expired? | violated |
| `checks` | For a check of each type, with steps that are answered, fail, time out or never end, callbacks in every order, lost patches, deadline and crash: is the verdict earned, is everything closed, does the exit code tell what is stored, how long may it take, does the pod implement `CheckOnce`? | holds |
| `checks_timeout` | Is the timeout of a monitor the most its check takes? | violated |
| `windows` | For each kind of rule and selector, put, edited, deleted and replayed at any hour: where the code reads all of rule and selector, is a window open only when meant, and is the next occurrence kept; does a window without a rule keep its times; is a daily rule judged right? | holds |

Beside the runs stand configurations that each show one more disagreement between the
code and what is said of it, under the property named; `tlc -config X.cfg M` finds it
violated (section 5 says by what).

| Configuration | Module | Property | Question |
|---|---|---|---|
| `MCControllerDisabled.cfg` | `MCController` | `DisabledIsNotChecked` | Is a monitor that is disabled before its first check left alone? |
| `MCControllerRecreated.cfg` | `MCController` | `RecreatedIsChecked` | Is a monitor checked that is deleted and created again? |
| `MCSilenceOverflow.cfg` | `MCSilence` | `RemovedWhenExpired` | Is a silence nobody edits kept until it expires where its delay does not fit the timer? |
| `MCChecksSocket.cfg` | `MCChecks` | `ExpectedResponseIsTaken` | Is a tcp check up that was given all bytes of the expected response, wherever they were cut? |
| `MCChecksXPath.cfg` | `MCChecks` | `XPathIsHonoured` | Does a supported path select what XPath selects, from any document? |
| `MCChecksPod.cfg` | `MCChecks` | `PodsAreWhole` | Is a Pod up only if it runs with all containers ready? |
| `MCWindowsUntil.cfg`, `MCWindowsMonth.cfg` | `MCWindows` | `OpensOnlyAsRuled` | Is a window open only at occurrences of its rule, with an UNTIL in the form of RFC 5545, or with BYMONTH? |
| `MCWindowsSelector.cfg` | `MCWindows` | `SuppressedAreSelected` | Does a window apply only to monitors it selects, by label expressions too? |
| `MCWindowsRecurs.cfg`, `MCWindowsByDay.cfg` | `MCWindows` | `EveryOccurrenceOpens` | Does a window open at each occurrence of its rule, of a daily one, or of a monthly one with BYDAY? |
| `MCWindowsMoved.cfg` | `MCWindows` | `OpenForItsDuration` | Does an open window stay open for its duration? |

### Bounds

Every bound is a constant of its module and a guard of one action.

* `Monitors`: two names. All state is kept by name, and two names share only the
  stage of the informer and the rule that `OpenWatch` waits for all of them.
  The violation runs need one.
* `MaxChanges` = 3: creation, disable and enable, creation, an edit and a status
  event, or deletion and re-creation under the same name, which are the sequences
  that matter. Deletions are not counted. The safety properties of the run are proved
  for any number of changes.
* `MaxRestarts` = 1: the second life of a process has no memory of the first.
* `Slots` = 2 handlers at once: a stale one and a fresh one. `MaxEdits` = 1 makes
  the two generations the stale one needs, each valid, rejected or malformed, `MaxChecks` = 2 a result and one to
  lose, `MaxFaults` = 1 one failing call, after which a second handler corrects.
* `Jobs` = 2 with `Keep` = 1: the window of remembered keys overflows, as in the
  code with 101. `MaxTouches` = 2: a late modification of either Job. Two jobs are
  enough for their handlers to overlap.
* `Limit` = 3, `MaxTime` = 6, `MaxPuts` = 3: delays on both sides of the limit,
  an edit earlier and one later. One silence: the cache is kept by name and no
  step touches two.
* `MaxPieces` = 3: an answer that comes whole, in two parts cut between characters
  or inside one, or in two parts with noise before or between. The check is over at the first answer, so more pieces
  repeat these cases. All three kinds, with and without `send` and `expect`.
* `Timeout` = 2 ticks and a `Deadline` longer than one step and shorter than all of
  the longest check: the verdict may come first, or the deadline, at any step.
  `Targets` has each type, each kind of step with and without, and for each
  criterion an answer that meets it and one that does not, so that every branch of
  `Accepts` is taken.
* Windows: days of two hours, weeks of two days, months of three, years of two
  months; nine hours, so that a rule's next occurrence is reached from every hour of
  the first days, and fifteen where a year has to pass. `MaxIterations` = 8 covers a
  year of daily occurrences, as 10000 does. One window: the cache is kept by name.
  `MaxPuts` = 2, an object and an edit.
* The violation runs, and the configurations beside them, take the smallest instance in which the disagreement shows: one
  name, the one target or spec it is about, no fault, no restart.

### Fairness

* The event loop runs a callback that is ready, an API call returns or fails, a
  timer that is due fires: weak fairness of the corresponding action, for each
  name, slot or Job. JavaScript runs every ready callback.
* Kubernetes restarts a stopped controller (the Deployment): weak fairness of
  `StartController`.
* Users, checkers, faults, status writes from outside and restarts owe nothing.
* `FirstIsChecked` excepts a watch that has ended and a Job that the API server has
  refused: after either the code tries nothing more before a restart.
* `SilenceCache` assumes that time passes.
* `CheckerPod` assumes that time passes, that a timer that is due fires
  (`StepTimesOut`, `SocketTimer`), that a name is resolved or given up
  (`SocketBegins`; the query has a time limit) and that Kubernetes enforces the
  deadline (`Kill`). The service, the network, the API server and a client that is
  to close owe nothing: `PodKeepsPromise`, with the liveness of `CheckOnce`, rests
  on timers and the deadline.
* `MaintenanceWindows` assumes nothing: no property of it says that something
  happens in the end.
* `FeedbackDiesOut` has a premise: handlers stop overlapping. Without it the loop
  need not end. Two handlers that overlap for ever can each undo the other's
  transition time, and the fairness of the event loop allows that schedule.

### How the properties could fail

Each property that holds has a mutant, an operator next to the definition it changes,
that a plausible slip in the code would produce: the name not added to
`scheduledMonitors`, the replay of the watch left out, the cache not updated on
MODIFIED, events handled in any order, `observedGeneration` taken from the current object and not from the handled one, transition times always
renewed, the key set emptied when full, a Job that ends before its result is
written, a timer started only for a new cache entry, a flag set after the cleanup
that may call `onclose`, a failed second request that leaves the result of the
first, a client closed only on success, an error of the patch that is only logged,
a window that counts from the day itself. TLC finds each of them.

## 4. What is proved

For every value of the constants under their named assumptions, as theorems of
the specification:

| Theorem | Says | Argument |
|---|---|---|
| `MonitorController_proofs!TypeCorrect` | types | inductive |
| `ArmedOncePerRelease` | `NoDoubleScheduling` | `ClaimsBalance`: for each name, claims are releases, plus one if the name is in `scheduledMonitors`; timers and Jobs number no higher than claims |
| `CheckedWasEnabled` | `OnlyEnabledChecked` | `EnabledKnown`: every copy of an enabled object (stored, listed, on its way, cached, in a timer or a Job) was stored so |
| `CacheIsCaughtUp` | `CacheCatchesUp` | `LastEventIsCurrent`: the last event on its way about an existing name carries the stored object; with none on its way the cache holds it |
| `CaughtUpMonitorsAreScheduled` | `CaughtUpIsScheduled` | an enabled object that is stored is still to be listed, replayed or delivered, or its name is scheduled |
| `ControllerNeverGoesBack` | `NeverGoesBack`, an action property | `Forward`: what is still to be handled of a name, from the list or the watch, is of no earlier object than what is cached, armed or made into a Job; queues are in the order of creation (`RisingAppend`, `RisingTail`) |
| `MonitorStatus_proofs!TypeCorrect` | types | inductive, with generations of events bounded by the current one |
| `ValidatedGenerationsAreValid` | `ValidatedWasValid` | `PromisesAreValid`: a handler in flight that is to call a generation valid has it valid; generations never change once stored |
| `QuietStatusTellsCurrent` | `QuietStatusIsCurrent` | `Correcting`: while no call has failed, a status that does not tell the current generation is matched by an event about it on its way or a handler of it in flight; after one failure, for a generation the validator rejects and the status calls valid, by such an event or a handler that is to refuse it |
| `SilenceCache_proofs!TypeCorrect` | types | inductive |
| `EntriesHaveTimers` | `EntryHasTimer` | inductive with the types: a timer removes the entry of its name, whatever version it is |
| `UneditedSilenceIsActive` | `UneditedIsActive` | `UneditedHistory`: of a name created once, every event carries its one expiry and every timer is due then |
| `JobCompletionWatcher_proofs!TypeCorrect` | types | inductive; what `Prune` returns is a lemma of its own |
| `NoRepeatWithinWindow` | `NoRepeatInWindow`, for any number of keys kept | `Newest`: the keys remembered are those of the Jobs handled last, so that a Job not among them was handled long enough ago |
| `NoOlderExport` | `ExportIsNotOlder` | `Caught`: events, handlers and exports are about finished Jobs, whose own result is settled; without a stale replace the status holds the last result, and what was read is not older than that |
| `SocketChecks_proofs!TypeCorrect` | types | inductive |
| `NoCheckIsStranded` | `NeverStranded` | `Settlement`: a socket that delivers belongs to a check that is pending; a completed check has no live socket; what is pending or live has its timer |
| `VerdictIsTheAnswer` | `UpIffAnswered`, for any number of pieces | `VerdictFromAnswer` on top of `Settlement`: a pending check that waits has no answer yet, and only a pending check is handed a piece; what the decoded pieces hold is what came whole or cut between characters |
| `ImplementsPromise` | `SocketChecks` implements `CheckOnce` without its fairness | each step is `Acquire`, `Decide`, `Release` or a stutter |
| `PodRunsSocketChecks` | `PodSpec => Spec`: in its pod a socket check takes steps of `SocketChecks` | each action of the pod is one of them or leaves the socket alone; with it `NoCheckIsStrandedInPod` and `VerdictIsTheAnswerInPod` follow from the theorems above |
| `PodTypeCorrect` | `PodTypeOK` | `PodShape`: the types with what each phase implies of steps, client and verdict; it needs lemmas on the steps of each kind |
| `ClientsAreAlwaysClosed`, `ExitAlwaysFollowsStore` | those invariants | `PodShape`, and `Ending`: what is stored is what was decided |
| `XPathAgrees` | the simplified XPath is judged as XPath is, for plain documents of any size and paths of any length | by `Induction` along the path: a walk stands at one element at most (`ReachedIsOne`), an element is reached exactly if a chain selects it (`AbsoluteSelects`, `AnywhereSelects`); after `//` no two walks end at one element (`WalksApart`), so that the values are counted by pairing walks and elements |
| `EveryVerdictIsEarned` | `VerdictIsEarned` | `Earned`: a verdict is up exactly if the steps heard passed so far, by what the code accepts; then acceptance is compared with the documented meaning, kind by kind, by `XPathAgrees` for XML |
| `LimitedAlwaysEndsInTime` | `LimitedEndsInTime`, for any timeout and number of steps | `Limits`: each step began within one timeout for each step before it, and is not late |
| `PodImplementsPromise` | the pod implements `CheckOnce` without its fairness | `Agree`: what a socket returned is the verdict; then each step decides, takes, releases or stutters |
| `MaintenanceWindows_proofs!TypeCorrect` | types | inductive |
| `OneShotAlwaysExact` | `OneShotIsExact` | `Latest`: the last event on its way, or else the cache entry, is of the stored spec |
| `OpenWindowsAreMeant` | `ActiveIsMeant`: the occurrence for `Plain` rules, the selection where there are neither expressions nor tags | `EntriesAreReconciled`: an entry is what its spec gave when it was reconciled; then `NextOccurs`: what `GetNextOccurrence` finds for a plain rule occurs, UNTIL, being the end of a day, included |
| `NextIsAlwaysHonoured` | `NextIsHonoured` | `EntriesAreReconciled`, and `NextIsFirst`: no occurrence at the stride of the rule is passed over, since each is the candidate of its day |
| `MembershipIsAlwaysExact` | `MembershipIsExact` | by `Induction` along the walk: after n steps (`Reached`) either no occurrence is left before now, or n days have gone by; `MaxIterations` exceeds the days of the year it goes back |

Each invariant is proved by its strengthening: it holds initially, each action
preserves it (a step per action), and it implies the property. The strengthenings
were first checked by TLC.

What is computed by recursion is proved by induction: that of `rrule.ts` along its
walk, that of `xpath.ts` along its path. The library's induction theorems take an
operator, which the provers cannot instantiate; `RecursionTheorems` states the same of
a set (`Induction`), from the least element of a non-empty set of naturals (`WFMin`),
and from it that a recursive function follows its steps (`RecursionExists`) and what
flattening sequences of one element or none leaves (`FlattenSingles`). The lemmas on
the calendar are in `MaintenanceWindows_proofs`, those on XPath in `CheckerPod_proofs`.

The proofs found three conditions that the small instances do not show. A rule is
`Plain` only with exactly one hour: of several the code uses the first alone
(`rrule.ts:143`), and RFC 5545 has an occurrence at each. `MaxIterations` has to
exceed `DaysPerYear`, as 10000 exceeds 365: with fewer the walk would end before now.
And after `//` not only `equals` but `contains`, too, is judged on a first value
(`xpath.ts:292`) that need not be the first in the document: `Comparable` leaves out
both.

Only model-checked: the liveness properties (`FirstIsChecked`, `FeedbackDiesOut`,
`ReceivedIsExported`, `CacheEmpties`, the liveness in
`PodKeepsPromise`), since the prover has no reasoning about ENABLED and fairness.

## 5. What the models show about the code

* **One check per monitor.** The first-check timer is the only one: a monitor is
  checked once per process, whatever its interval (`controller_interval`,
  `monitor-reconciler.ts:166`).
* **A disabled monitor stays scheduled.** `cancelJob` selects on a label value
  with a slash, which the API refuses, so the name never leaves
  `scheduledMonitors` (`controller_reenable`, `job-builder.ts:276`). Were the
  selector mended, a race that it hides would show: the name is removed after
  the await, so an enable handled in between is skipped and the name then
  removed, until the next event. `CaughtUpIsScheduled` therefore speaks of names
  that no `cancelJob` has released.
* **A monitor disabled before its first check is checked all the same**: nothing
  clears the timer (`MCControllerDisabled.cfg`, `monitor-reconciler.ts:166`).
* **A monitor created again under its name is never checked**: no delete handler is
  registered, and the name stays in the set (`MCControllerRecreated.cfg`,
  `informers.ts:222`).
* **Results are lost** between the GET and the replace of a handler
  (`status_result`, `status-utils.ts:118`).
* **No alert is ever sent**: both states come from the same field
  (`completion_alert`, `completion-watcher.ts:93`).
* **A silence whose expiry is moved later** is dropped at its earlier expiry
  (`silence_early`, `auth-and-config-reconcilers.ts:70`), and **one that is longer
  than 25 days** at once (`MCSilenceOverflow.cfg`).
* **A tcp answer cut inside a character** is not recognised (`MCChecksSocket.cfg`,
  `tcp.ts:118`).
* **XPath finds nothing** below elements that share a name with a sibling
  (`MCChecksXPath.cfg`, `xpath.ts:178`).
* **The timeout of a monitor is not the most its check takes** (`checks_timeout`,
  `http.ts:197`).
* **A Pod with one of its containers ready is up** (`MCChecksPod.cfg`,
  `kubernetes.ts:139`).
* **UNTIL as RFC 5545 writes it ends no rule, and BYMONTH is dropped**
  (`MCWindowsUntil.cfg`, `MCWindowsMonth.cfg`, `rrule.ts:57, 34`).
* **Windows that select by expressions apply to monitors they do not select**
  (`MCWindowsSelector.cfg`, `maintenance-window-reconciler.ts:200`).
* **A recurring window opens once**, never with BYDAY unless it is weekly, and is
  closed early by an event about it (`MCWindowsRecurs.cfg`, `MCWindowsByDay.cfg`,
  `MCWindowsMoved.cfg`, `maintenance-window-reconciler.ts:126`, `rrule.ts:121`).

Seen on the way and part of the models: a watch that ends is not opened again; a
monitor has no condition before its first result has created its status; one failing
call can leave a valid monitor marked invalid until it is handled again, and, after an
edit the schema does not parse, the monitor marked `Validated`, since the catch block
makes the only attempt to mark it; a silence edited into the past stays active in its
earlier version; `getActiveSilences` has no caller in the alert engine.

Of checks:

* Each step has the timeout of the monitor anew (`LimitedEndsInTime` bounds the sum of
  those that are limited, and `checks_timeout` shows that one is exceeded); the body
  of a content check, a query of a database, the read of a Secret, the load of the
  monitor, the patch and the close of a client have no limit and end at the deadline
  of the Job, 300 s, when the verdict is lost. Nothing keeps `timeoutSeconds` below
  that.
* A content check judges the body of a second request, without the credentials,
  headers and method of the first; its status is not looked at.
* Two documents differ from the verdicts: a Pod is to have all its containers ready,
  but one with some of them is up, and one with all of them counts as one and is down
  if two are asked for; a DaemonSet is documented and rejected. `VerdictIsEarned`
  leaves Pods out and counts replicas for the rest.
* XPath is simplified: through elements that share a name with a sibling nothing is
  found below, an empty element has the text "", texts lose the white space around
  them and those that read as numbers are written anew, `text()` drops one that reads
  as a boolean, a predicate fits only names of word characters, one after `//` is
  ignored and results of `//` come in another order, of which `equals` and `contains`
  look at the first. `Comparable` leaves these cases to `XPathIsHonoured`. Text and
  attribute criteria of an html check pass when no element is found; a JSON null
  compares as 0.
* A push monitor is judged by its own last result, which each check writes anew;
  `recordPush` stores nothing.
* Exit code 2 may follow a patch that was applied.
* A websocket check with `expect` and without `send` looks at no message; a tcp check
  does not read `tls`, which `docs/reference/monitors/tcp.md` offers.

Of maintenance windows:

* BYDAY of a rule that is not weekly has no occurrence. BYDAY of a weekly rule and
  BYMONTHDAY of a monthly one are compared at strides of a week or month from the day
  of the event: if that day does not fit, no candidate does and the window falls back
  to its start. `docs/guide/suppressions.md:36` promises "Every Sunday at 2am".
* The first candidate is one period after the event, so an occurrence later on the
  same day is passed over, and an event or restart during an open recurring window
  closes it. Left alone, a recurring window opens once. Hence `NextIsHonoured` speaks
  of the occurrence one period after the event and of no other.
* `start` does not bound a recurring rule; INTERVAL and COUNT count from the event;
  UNTIL is compared before the hour is set; without BYHOUR the hour is that of the
  event.
* Windows that name monitors or namespaces never apply; tags and expressions are
  ignored, so such a window applies to more than it selects. `ActiveIsMeant` and
  `NextIsHonoured` are stated for the selectors and the rules that are read, and
  `SuppressedAreSelected`, `OpensOnlyAsRuled` and `EveryOccurrenceOpens` for every
  regular rule.
* Deleted windows, and those whose edit is invalid, stay cached, and open until the
  end of their occurrence. Nothing in the program asks for open windows, so none
  suppresses an alert.

## 6. Not modelled, and what is left

* **A check from end to end**: an abstract specification (a monitor is due, is
  checked, its result is stored, then exported) that a composition of
  `MonitorController`, `CheckerPod` and `JobCompletionWatcher` implements. Each of
  the three is modelled, and what one takes from another is an action of it
  (`FireTimer`, `Apply`, `Report`); their product is too large for TLC as they stand.
* **Jitter, cron conversion, uptime, `updateConditions` alone**: pure functions. The
  cron converter and uptime have no caller; jitter only delays a timer whose delay is
  left open in `MonitorController`.
* **Settings and labels of silences**: the settings reconciler overwrites one value;
  `getActiveSilences` has no caller.
* **Shutdown order** of the process: whatever it does, nothing is persisted, and
  `Restart` stands for it.
* Left out for good: JSONPath and CSS selection, done by libraries; the dashboard
  generator, which only lays out a document; the CronJob builder (not imported);
  metrics bookkeeping inside its library; schemas of the resources (a spec is valid
  or not); the monitor set reconciler, which only logs; logging; configuration.
* Hazards beside the listed ones: a list that fails is only logged and the replay of
  the watch makes up for it (in `MonitorController`); two overlapping completion
  handlers may set the state gauge in the opposite order of their GETs.
