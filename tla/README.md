# A verification project for slow-sql

TLA+ models of the slow-SQL system: the pipeline that carries slow statements
from database logs to Elasticsearch, the backend that has them analysed by a
remote workflow, and the pages of the web client that search them, submit them
and show the reports. The models are checked with TLC on small instances; every
safety property is proved with TLAPS for every value of the constants, and what
must happen in the end is left to TLC.

Paths below are relative to `src/`. "Backend" is
`slow-sql-backend-main/slow-sql-backend-main/`, "web" is the React client.

    log file --LogFileProducer--> Kafka --BaseConsumer/ESWriter--> Elasticsearch
                                                                       |
    web client <--HTTP--> backend (FastAPI, one worker) --queries------+
                             |  ^
                             v  | PDF link, report body
                       remote workflow

## 1. Inventory

### 1.1 Consumer loop and ES writer (`kafka-consumer/consumer/base.py`, `es_writer.py`, `main.py`)

State: for each consumer thread its position in the topic, the committed offset
(in Kafka), where it is in `run()`; one `ESWriter` with the buffer `actions` and
the time of the last flush, shared by all threads **without a lock**.

Operations: `run` (poll, process, add, commit; on an empty poll `maybe_flush` and
`flush_pending`; on stop a last flush), `add` (append, then test the length),
`flush` (`helpers.bulk`, and `actions.clear()` in a `finally`), the signal
handler, restart.

Hard: two threads interleave inside `flush`; a bulk request may fail halfway; an
offset is committed while its document is only in memory; time-outs run only when
the topic is idle.

Correct when: every consumed SQL row is written, on its way, or lost to a hazard
one can name; no document is handed to the writer twice between two starts; the buffer is emptied; offsets
never go back.

### 1.2 PG pairing (`consumer/pg_consumer.py`, `parsers/pg_parser.py`)

State: `pending_sql_by_key`, `pending_duration_by_key`, both by pid.
Operations: `process_message`, `flush_pending`. It joins a statement's SQL row
with its duration row. Hard: rows lost, filtered, or late; statements that fail.
Correct when: a duration is spent once, on its own statement; no SQL that would
still be completed is thrown away.

### 1.3 UDAL pairing (`consumer/udal_consumer.py`, `udal_merger.py`, `parsers/udal_parser.py`)

State: `UdalEventMerger.pending`, by request id. Operations: `add_event`,
`flush_expired`. Hard: many requests open at once, ids used again, a cost that is
not a number, late END events. Correct under the same conditions as 1.2.

### 1.4 Log producers (`producer/base.py`, `pg_producer.py`, `udal_producer.py`)

State: the open file, `_checkpoint_inode`, `_checkpoint_pos`, the checkpoint file,
the local queue of Kafka's producer. Operations: `_tail_file` (stat, open, read,
look again), `_save_checkpoint`, `_load_checkpoint`, `stop`. Hard: rotation between
any two steps, restart from an old checkpoint, a checkpoint that cannot be
written, reuse of inode numbers. Correct when: no line is passed without being
sent; every line is reached.

### 1.5 Analysis tasks (Backend `services/report_provider.py`, `analysis_task_service.py`, `report_service.py`, `routers/tasks.py`)

State: a row of `analysis_tasks` (status, report URL, result, finished, hidden,
remote ids) and, in memory only, a background task of the event loop. Operations:
submit, `_follow_until_close` (up to three attempts, up to four forms of the
input), GET with write-back, hide one or many. Hard: calls that fail or time out
anywhere, updates that fail inside an `except`, reads racing with the background
task, a restart. Correct when: the columns of a row agree; a task ends at most
once and keeps its outcome; every task ends.

### 1.6 Search page (web `pages/RecordSearch`, `components/SearchPanel`, `components/RecordTable`; backend `services/es_service.py`)

State: the criteria, what is typed in the form, the highlighted quick filter, the
current request (`activeSearchControllerRef`), the rows, the spinner, the clusters
selected on all pages and the scope they belong to. Operations: `handleSearch` (drop
the selection if the scope changed, abort the last request, send), quick filter,
reset, paging, sorting, selecting, the end of a request. Hard: requests end in any
order or fail; the user acts while they run. Correct when: rows, spinner and
highlight belong to the criteria on the page; a batch holds clusters of one scope;
a search that changes only the page or its size keeps what is selected; every search ends.

### 1.7 Analysis submission (web `pages/RecordSearch`: `handleAnalyze`, `submitAnalysis`)

State: data source dialog, progress dialog, `pollingIntervalRef`, timers, requests in
flight. Operations: match a data source, ask the user if several fit, post, wait 2 s,
poll every 10 s, open the list 1 s after the end. Hard: one ref for all intervals;
timers that outlive the page; polls lost or answered late. Correct when: attempts do
not meddle with each other, nothing polls for ever, the user is never locked in.

### 1.8 Result list (web `pages/AnalysisResultList`, `components/AnalysisSearchPanel`)

State: criteria, the task in the address, rows, spinner, selection. Operations: a load
for every new criteria object, filters, paging, removal of one task or of the selected
ones. Hard: loads are neither aborted nor compared; two effects and two handlers write
criteria and address; a removal ends on a page that has changed. Correct when: the list
shown is that of the criteria and the address, without removed tasks, and never empty
while something matches.

### 1.9 Report detail (web `pages/AnalysisReportDetail`) and the report's text (`report_provider.py`)

State: the answer shown, the spinner, polls in flight, the task of the address.
Operations: load, refresh, poll every 5 s while the task is pending, take the report
apart; on the backend `_normalize_report_markdown`. Hard: polls that overlap, a jump
through the browser's history, reports that keep to no format. Correct when: the page
comes to show the end of its own task, the whole report, and each risk beside its
statement.

### 1.10 Data sources (web `pages/DataSourceManagement`; backend `services/data_source_service.py`, `routers/data_sources.py`)

State: the table `data_source` (enabled, target, password, last test), the list and the
form on the page. Operations: list, create, update, enable, disable, test,
`require_ready_for_analysis`. Hard: changes and lists in flight together, a form filled
from an old list. Correct when: the page shows the table in the end, a source that is
ready passed its test, a disabled source stays disabled.

### 1.11 Not modelled

| Component | State and operations | Why |
|---|---|---|
| Metadata context (`analysis_context_service.py`, `database_service.py`, `remote_db_service.py`) | a fetch with a time budget over several tables; upsert of table information | a pool of workers inside one request; what it collects goes into the text of the input document, which is not modelled |
| Input document (`report_provider.py`) | composes, redacts and compacts the input; extracts a report from fragments | pure text functions without state |
| Grouping of records (`es_service.py`) | normalises SQL, groups by template | pure functions of Elasticsearch's answers; order and paging are in `RecordSearch` |
| SQL viewers, downloads (`components/SqlViewer`, `api.ts`) | rendering, clipboard, files | no shared state, no request that changes anything |
| Database start-up (`database.py`, `main.py`) | schema migration, wiring | before any request; library calls |
| Health endpoint, configuration | reads counters and environment | no state of its own |
| Import and workflow scripts (`scripts/`) | one-shot tools | sequential; the importer pairs rows as 1.2 does |

The hazards of all components, each at its line, are in `PROJECT.json`.

## 2. Modules

| Module | Models | Uses |
|---|---|---|
| `PairingContract` | what `run()` relies on from any `process_message` | |
| `ConsumerPipeline` | `BaseConsumer.run`, `ESWriter`, signals, restart | `PairingContract` |
| `Pairing` | abstract: one set of kept rows under the contract | `PairingContract` |
| `PgPairing` | `PgConsumer`, fed by PostgreSQL servers | implements `Pairing` |
| `UdalPairing` | `UdalEventMerger`, fed by a proxy | implements `Pairing` |
| `LogTail` | `LogFileProducer`, its files and Kafka's queue | |
| `TaskLifecycle` | abstract: what a client relies on of a task | |
| `AnalysisTask` | submit, follow-up, GET, hide, crash | implements `TaskLifecycle` |
| `RecordSearch` | the search page, its form and table, the server's order and paging | |
| `AnalysisSubmit` | dialogs, timers and polls of a submitted analysis | |
| `ResultList` | the list of results and removal from it | |
| `ReportText` | a report's text: normalised by the backend, taken apart by the page | |
| `ReportDetail` | the detail page: loads, polls, changes of address | `ReportText` |
| `DataSources` | the management page and the service behind it | |
| `MC*` | model values for TLC | the module they are named after |
| `PgLogProofs` | theorems | `LogTail`, `PgPairing` |
| `AnalysisProofs` | theorems | `AnalysisTask`, `AnalysisSubmit` |
| `ConsumerPipelineProofs`, `UdalPairingProofs`, `RecordSearchProofs`, `ResultListProofs`, `ReportDetailProofs`, `DataSourcesProofs` | theorems | the module they are named after |

`LogTail` and `AnalysisSubmit` put their name before what every module has (`TailInit`,
`SubmitNext`, `TailSpec`, ...), so that one module can extend them together with the component at
the other end: `PgLogProofs` has the reader of PostgreSQL's log and the pairing of its rows,
`AnalysisProofs` a task at the server and in the client.

`ConsumerPipeline` and the pairing modules are composed by assume and guarantee:
the pipeline takes any outcome `PairingContract` allows, and both pairings are shown
to implement `Pairing`, whose steps are the contract's outcomes. So the pipeline's
properties hold for each consumer without the product of their states.

### 2.1 ConsumerPipeline

One `Step` per place where the other thread may come between. `pc` is the place in
the code:

| `pc` | the thread is about to |
|---|---|
| `loop` | look at the stop event: `EnterPoll` (not set), `LeaveLoop` (set) |
| `poll` | return from `poll()`: `Consume` (a message), `Idle` (none), `PollFails` (an error event, the end of a partition) |
| `added` | test the length of the buffer after its append: `CheckSize` |
| `flush`, `bulk`, `clear` | enter `flush()`, run `helpers.bulk`, run the `finally` clause |
| `commit` | `consumer.commit` |
| `expire`, `drain` | pop what timed out, add it row by row |

`poll()` takes up to a second, so a signal may come between the look at the stop event and
the message that `poll()` returns, which is then still processed, buffered and committed.
Append, `clear` and the dictionary operations are each one step: they are single
bytecode-level operations under the interpreter's lock. `helpers.bulk` reads the
buffer and returns later; between, `actions` may grow and the batch does not. The
library really sends chunks of 500; a longer buffer is taken as one chunk.
`process_message` is one step, because its dictionaries belong to one thread. A
message is named `<<consumer, offset>>` and its document has the same name:
`_id` is a hash of that message's content. `lost` is a history variable: by reason,
the documents a known hazard may have dropped. `handed` is another: everything `add` has
appended since the process started, in order, whatever was flushed since.

Rebalances of partitions are not modelled (one consumer per topic).

### 2.2 PgPairing and UdalPairing

The environment is the log of a real server: a pid runs one statement after
another, each begun, then finished or failed; a proxy serves many requests and
uses an id again only after END. Rows reach the consumer in order or not at all.
Parsing is abstracted to what it finds (SQL wanted, filtered, or none; a
duration or none; a cost that is a number or not).

A dictionary is the set of the names in it; `At` is `get`, `Without` is `pop`.
`pending_duration_by_key` never expires in the code and does not here.
`_flush_pending` builds a document, and both callers in `process_message` discard
it; the model's `dropped` holds that SQL.

### 2.3 LogTail

The thread's places are `stat`, `open`, `read`, `wait`, `stopped`; the writer, the
rotation and Kafka's delivery are external actions that come at any time, with
any inode number that is free. A position is a number of whole lines: torn
lines, a file truncated in place and `parse_line` filters are left out.

### 2.4 AnalysisTask

The backend runs one event loop, its database calls block, and handlers are
interrupted only where they await the workflow or sleep; so an action is what a
handler does between two awaits. A fault is a `create` or `update_status` that raises, before
its commit or after it, while the row is read back (`analysis_task_service.py:350`):
`Written(change)` has both cases. When the update that stores a result raises, the `except`
branch, which uses the same session, marks the task failed, over a result that was
stored or not (`StoreBoth`), or raises too. A crash
forgets every background task; nothing resumes them. `seen` is a history variable:
the parts of a report that replies have held.

### 2.5 RecordSearch

One action is one event handler run to its end, or the end of one request: JavaScript
runs a handler without interruption and React applies its updates together. The
criteria are a JavaScript object: the entries in the order of their keys, beside page and
size. A filter value is "this field is constrained"; what matches which filter, and the
ranking, are constants. `Scope` is `buildSearchScope`'s string, the entries that are not undefined.
It tells apart more than the request does: a text that was typed and erased leaves `""`
(`SearchPanel.tsx:216`), and keys may come in another order, so a search that sends the same
parameters may have another scope and drop the selection. `controller` is the number of the request that
`activeSearchControllerRef` holds; a request that is no longer current ends in
`AbortError` or is dropped by the comparison, and either changes nothing. The table is
covered while a search runs. A change of page size makes the table's pagination call
the handler twice, so it sends two requests of which the first is aborted. A selected
cluster keeps the scope its record was read under. `selectionScopeRef`
is a copy of the scope, so only `handleSearch` and `handleReset` write it.
`emptied` is history: it flips when the selection is emptied on purpose, by the user, by a
reset or by an accepted task, and so tells these steps from a search that loses it.

### 2.6 AnalysisSubmit

An attempt is one click on an analyse button. `intervals` are the intervals the browser
runs, `ref` is the one `pollingIntervalRef` knows: the difference is what leaks. A
poll carries the status the server gave when it read the task; answers come in any
order. When the page is left its state is gone, but its handlers still send requests,
write refs and navigate. That there are dialogs which mask the page is part of the
guards of `Analyze`.

### 2.7 ResultList

Each new criteria object is a load (`Apply`); a change of the task in the address makes a
second object through the effect (`ApplyWithUrl`, `Navigate`). A load or removal in flight
holds what its closure saw; the server reads the tasks between sending and answering.
`raced` and `crossed` are history: a load answered while a different one was in flight,
and a removal that met another one or a change of criteria, was confirmed while the list
was loading, or was of tasks of several pages. What the server counts and cuts into pages are
places in its list (`Hits`, `Slice`): a task has one. The confirmations of a removal, of one row or
of the selected ones, lie over the page and can be pressed while the list loads.

### 2.8 ReportText and ReportDetail

A text is a sequence of kinds of lines, as the tests of the parsers tell them apart;
what the page shows of it is a set of line numbers. The backend's substitution
(`Cut`) and the page's parsers (`Section`, `Groups`, `Items`, `Item`, `TableShown`) are
operators over such texts, and `ReportDetail` applies them to what the workflows wrote.
`Format` says which line may follow which in the format the workflow is told to write, and
`WellFormed` that a text begins with its title and ends with a table: a header, a line under
it, and at least one row. `WellFormedShown` says that such a report is shown whole. It has
two parts: `ArrivedShown` is about the text that reaches the page, and `GluedShown` about what the
workflow wrote, through the normalisation, if its headings were glued to the line before. That
`ItemsShown` fails (3.3) is what the second part leaves out: headings on lines of their own.
`requests` is a bag, since polls of one task differ in nothing. An answer is the row as
it was when the request was sent or when it is answered: between, only the end of the
task can change it. `Mount` is the first render and `LoadFirst` the effect after it, which sends
the first request. `Screen` is what a page without an answer says: "not found" whenever `detail`
is null (line 964), under a spinner while a load runs, and bare in the first render and after
a failed load.

Two things of the text are outside of the kinds: the prompt of the workflow writes
`- 原始SQL：` where the page looks for `- 原始 SQL：` (with a space), and what stands
on the line `- 分析结果：` itself is dropped (line 239). A pending task shows
"当前任务暂无可展示的远端分析结果", not "正在生成中" (line 808), which no state reaches.

### 2.9 DataSources

A handler of the server runs to its end on the event loop, so serving is one step and
its answer another. `form` holds what the dialog was filled from; what is typed is
chosen when it is saved. The buttons of a row are covered while the list loads, but the confirmation
of a switch lies over the page (`Press`). `tested` and `moved` are history: logins that passed a test,
and sources whose target changed under their password.

## 3. What the runs show

| Run | Instance | Shows |
|---|---|---|
| `ConsumerSafety` | 2 threads, 3 and 2 messages, batch of 2, 1 crash, 1 failure | every consumed SQL row is accounted for; what a `clear` may drop; nothing is handed to the writer twice between two starts, or left by the last stop; offsets never rewind |
| `ConsumerLive` | 2 threads, 3 and 1 messages, 1 crash | the buffer is emptied, kept rows are released, although both happen only on an idle poll |
| `PgTables` | 2 pids, 3 statements each, 1 lost row, 1 expiry | one side waits, nothing is spent twice, nothing that would finish is dropped, a wrong duration needs a muddled pid; refines `Pairing` |
| `UdalTables` | 2 ids, 3 uses each, 1 lost event | the same for request ids; costs are right while nothing is lost; refines `Pairing` |
| `TaskSafety` | 2 tasks, 3 attempts, 2 forms, 1 crash, 1 fault | rows stay consistent, tasks and workers match, a link is kept, tasks end unless something broke; refines `TaskLifecycle` |
| `Tail` | 2 files of 2 lines, 2 crashes, 1 failing save, 1 refused line | a line is passed unsent only in a file with a reused inode number or after a failing save; every line of a file that stays is reached |
| `SearchPage` | 2 clusters, 2 fields, 2 page sizes, 3 searches, 1 failure | rows, spinner and highlight belong to the criteria; the selection belongs to one scope unless a search failed, and is kept by what changes only page or size; searches end |
| `SubmitAnalysis` | 2 attempts, 2 polls of each in flight, 1 lost | without a double click no interval leaks and no empty batch is sent; the progress dialog is stuck only after a failed task; tasks are followed to their end; polling ends |
| `ResultList` | 3 tasks, 2 page sizes, 4 loads, 1 removal, 1 failure | address and criteria name one task; an outdated list needs an older load answered last, an empty page a removal that crossed something; removed tasks are not selected |
| `ReportDetail` | 2 tasks, 1 jump, 2 requests in flight, 1 failure; 2 reports in the format, 49 in none | the page comes to show its task's end; another task's report needs an answer that came after the jump; reports that arrive in the format, or were written so with glued headings, are shown whole; risks stand beside their statements |
| `DataSources` | 1 source, 2 targets, 2 passwords, 3 changes, 3 lists, 1 form, 1 failure | the page comes to show the table; a ready source passed its test unless its target was changed; a source is enabled on purpose or by an outdated form |
| `ReportItems` | as `ReportDetail`, without jumps and failures | **violated**: a report in the workflow's format loses its analysis by item |

`CHECK_DEADLOCK FALSE` everywhere: every system here may come to rest (topics
consumed and threads closed, bounds used up, all tasks ended).

Many of these properties name the exceptions they allow, and each exception is a
behaviour of the code: section 3.3 lists them.

### 3.1 Why the bounds are enough

- Two threads are what `main.py` starts. The overlap of two flushes needs one
  document more than the batch size, which three SQL rows give. The topics of `ConsumerSafety`
  (`MCTopics`) hold a message that is kept, one that raises, one that completes the first, and
  two self-contained ones; those of `ConsumerLive` (`MCShort`) have a filtered one in place of
  the one that raises.
- One crash reaches every redelivery; a second one starts from a state of the same
  kind. One failure is a bulk request or a commit, at any place.
- A pid needs two statements to mix them up and a third to see what the mistake
  leaves behind. A second pid is there so that one pid's mistakes can be seen not to
  reach it.
- Three uses of an id: the first is stored, the second overwrites it, the third
  meets what the second left.
- Three attempts are the code's `PDF_LINK_RETRY_ATTEMPTS`; two forms stand for the
  four, which differ only in which is the last. Tasks share nothing but the
  process; two show it.
- Two files are one rotation, at any of the thread's steps; the second crash restarts
  from a checkpoint the first restart wrote.
- Three searches: the initial one, and two more, of which one can change the scope, be
  answered late, fail, or be of the page before; a change of page size takes two. One field of
  the form is a text, which can be typed and erased. Two clusters and sizes of one and two
  give a second page, a page that vanishes, and a filter that separates them.
- Two attempts show everything one ref can confuse; two polls of one task in flight
  answer in either order.
- Four loads of the list are the two of the opening page, one for the user, and one after a
  removal. Three tasks and pages of two make a second page that holds one: the
  removal of a row of the first page empties it. One removal can be of one row, of a
  page, or of tasks of both pages.
- The two reports in the format have one group with one item, and an empty group beside
  one with two items, with headings on their own lines and glued. The loose ones are
  all pairs of lines after a statement: a risk, statement or heading that comes or does
  not come between is what the parsers' memory (`current`) can get wrong.
- Three changes of a data source: a test, an edit and a switch in every order, with
  any two of them in flight.

The bounds are guards (constants whose names begin with `Max`), so no state is cut off
in the middle of an operation, but for `MaxInFlight` of the two pages, where a click
beyond the bound does not happen.

### 3.2 Fairness, and why the code justifies it

- `ConsumerPipeline`: weak fairness of each thread's step (threads run; `helpers.bulk` and
  `poll` have time-outs), of the clocks, and strong fairness of `Consume`: while the
  topic has messages, `poll` does not come back empty for ever; and strong fairness of `Idle`:
  `poll` does not come back with error events only. With finite topics
  this makes the topic idle in the end, which is when the idle branch runs; a
  topic that is *never* idle postpones both flushes by time without limit. No
  fairness for signals, crashes and failures.
- `AnalysisTask`: weak fairness of what the event loop does for each task, since every
  call ends, by its reply or by `report_api_timeout`. None for submit, GET, hide.
- `LogTail`: weak fairness of the thread. None for the log, Kafka or signals.
- `RecordSearch`: the browser fires the timer of the first search, and each request ends
  (`fetch` is given a signal, and an answer, an error or an abort settles it). None for the user.
- `AnalysisSubmit`: timers fire, polls end, and the server ends its tasks, which
  `EndsUnlessBroken` shows of the backend (without a restart or a failing update). None for clicks,
  nor for the posts and matches: a hanging submission is not followed.
- `ReportDetail`: the effect of the first render runs, the interval fires, requests end. None for the end of a task.

### 3.3 Where the code and what is said of it differ

`ReportItems` is violated. `_normalize_report_markdown` (`report_provider.py:1090`) puts a heading that
is glued to the line before on a line of its own. Its pattern looks one character back, so
in a heading of three or four #s that already has its own line it matches from the
second # and cuts the first one off: `### （三）…` becomes `#` and `## （三）…`. The page's parser takes `## …` for
the end of the section of details and shows no items, although it says (line
589) that it gives the analysis by item first. The stored reports
(`task_report_content.txt:17-23`, `docs/workflow-upload/reports/`) are of that form.
The normalisation does what it is for: reports whose headings are glued are shown whole
(`GluedShown`, proved for every such report in 4.8).

What the other properties name as exceptions:

| Exception | Property |
|---|---|
| One thread's flush clears what the other appended meanwhile | `ConsumedAccounted`, `ClearDropsNothingElse`: `overlap` |
| A bulk request that fails loses its documents, whose offsets are or will be committed | `ConsumedAccounted`: `refused` |
| A stop or crash forgets the rows that wait for their cost and whose offsets are committed | `ConsumedAccounted`: `killed` |
| The duration of a filtered statement, or one that came after the time-out, goes to the pid's next statement | `WrongCostExplained`: `muddled` |
| A report body that came without a link is forgotten when a later attempt brings nothing | `LinkKept` is about links only |
| A restart, or a `create` or update that raises, leaves a task pending for ever | `EndsUnlessBroken` |
| An update that raises after its commit is followed by one that marks the task failed: it keeps its result beside the status "failed", without the link, until a GET writes the link back | `RowConsistent`: `Contradicts` |
| A new log file with the inode number of the old one is read from the old position; so is the next file after the first checkpoint could not be written | `SkipsExplained`, `LineSent` |
| Lines sent after `stop()` flushed Kafka's queue are still queued when the process exits | `Sent` includes `killed` |
| A search with a text field typed and erased, or with its keys in another order, drops all ticks, though it sends the same request (`RecordSearch.tsx:33`) | `CrossPageKept` |
| After a failed search, clusters of the old scope can join a batch of the new one | `SelectionInScope` |
| Two clicks on analyse before the first one's data sources have come leak an interval, or submit an empty batch | `AttemptsApart`, `TaskFollowed`, `PollingEnds` |
| After a failed task the progress dialog stays: its close button has no handler | `StuckNeedsFailure` |
| An older load of the list, answered last, is shown, and its pages are used | `ShownIsCurrent`; with `raced`, `EmptyPageNeedsCrossing`, `RemovedNotSelected` |
| A removal that meets another one or a change of criteria, is confirmed while the list loads, or spans pages may end on an empty page | `EmptyPageNeedsCrossing`: `crossed` |
| The page says "task not found" before anything was asked (first render), under the spinner while the first answer may still come, and after a failed request | `PageConsistent` of `ReportDetail` |
| A first load that failed is not repeated, and an answer that is late can hide the end | `EndArrives` |
| An answer for the last address is shown under the new one | `WrongReportNeedsLateAnswer` |
| Two statements under one heading, or a risk before its statement, are shown as one | `RiskOfItsStatement` |
| An edit form filled from an old list enables a source that was disabled meanwhile | `EnabledOnPurpose` |
| A source whose host or user is changed keeps the success of the old one's test | `ReadyWasTested`: `moved` |

## 4. What is proved

Every safety property that a passing run checks is a theorem: invariants, action properties and the
three refinements. The proofs hold for any threads, topics, files, pids, request ids, tasks, reports,
clusters, filters, sources and bounds, under the modules' named assumptions (`ConsumerAssumption`,
`TailAssumption`, `PgAssumption`, `UdalAssumption`, `TaskAssumption`, `SearchAssumption`,
`SubmitAssumption`, `ListAssumption`, `DetailAssumption`, `SourceAssumption`), which
only say that the constants are what the code makes them: topics, rankings, reports and the list of tasks
are sequences (a task is in its list once), counts and page sizes are numbers, no row, no answer and no
password are values of their own, and the loads that open a page are within the bound.

### 4.1 The consumer pipeline

`ConsumerPipelineProofs` proves `TypeCorrect`,
`Accounting` (`ConsumedAccounted`), `ClearLosesNothingElse` (`ClearDropsNothingElse`),
`CommitsMonotone` (`CommittedNeverRewinds`) and `BufferedOnceThenWritten`
(`BufferedOnceAndWritten`). The inductive invariant of the first four is

    IInv == TypeOK /\ OffsetsOrdered /\ DueWhileDraining
            /\ ConsumedAccounted /\ ClearDropsNothingElse

- `OffsetsOrdered`: a committed offset is not ahead of the position. Without it, a
  restart could put a position ahead of what was consumed, and a commit could go
  back.
- `DueWhileDraining`: a thread that has rows popped and not yet added is inside
  `flush_pending`, or in an `add` called from there. Without it, `Expire` could overwrite
  such rows.
- `ClearDropsNothingElse` is needed for `ConsumedAccounted`: it says what `Clear` may take
  from the buffer. It holds because every append of another thread during a flush
  is recorded as `overlap`.

The argument follows a document: `Consume` puts it in the dictionary or the
buffer, `Expire` and `Drain` move it between, `StartFlush` copies it, `BulkSucceeds` writes it or
`BulkRaises` records it, and `Clear` removes only what was settled. At a crash, a
document is either behind the committed offset, and recorded as `killed`, or ahead
of it, and then it is no longer claimed.

`BufferedOnceThenWritten` has an invariant of its own (`OnceInv`, about `handed`, all that was given
to the writer since the start, not only what is in the buffer now): a row waits in one place and
was not handed over yet (`RowsKeptOnce`); what was handed over was handed over once and is behind the
position of its topic (`HandedOnce`), so a message that is consumed is new to both. Besides, a document
in the buffer has a thread that has not closed, since `add` never returns to the exit
(`ClosedAfterFlush`).

### 4.2 The pairings

`PgLogProofs` proves `TablesStayConsistent` (`TablesConsistent`), `WrongCostsExplained`
(`WrongCostExplained`) and `PairingImplemented` (`ImplementsPairing`); `UdalPairingProofs` proves
the same of the UDAL tables, with `CostsRight` (`RightCost`). With them the contract of
`PairingContract` that `ConsumerPipeline` uses is met by both consumers, not only in the checked
instances.

Both inductive invariants name what the dictionaries can hold:

- The names in the tables have begun (`NamesBegun`, `NamesUsed`): the next statement of a pid, or the
  next use of an id, is new to all of them. `SpentOnce` and the contract's `Fresh` rest on it.
- `KeptCurrent`: what is kept beyond its end will never get its cost. Whatever
  `_flush_pending` or `add_event` throws away is not current, so `DroppedNeverFinished` follows.
- `WrittenGone` and `CostsEnded`: what was written is not kept, and a cost that was spent, or waits, is
  of a statement that is over, so the cost of a statement that ends now is new.
- PG only: `WaitingMuddled` (a duration waits only for a pid that had a row lost, ignored or
  late) and `CleanKept` (else the SQL a pid is running is the one that is kept). They are why the
  durations of a clean pid cannot go astray. `OneSideWaits` is what makes `_pop_duration` inside
  `flush_pending` find nothing.
- UDAL only: `LosslessCurrent` (nothing lost: only requests being served are kept), for `RightCost`.

A row changes the PG tables in one of five ways (`Keeps`, `Writes`, `Completes`, `Waits`, `Ignored`); one lemma
per way shows that the tables stay right, whichever action the row comes from.

### 4.3 Analysis tasks

`AnalysisProofs` proves `RowsConsistent`, `WorkersPending`, `LinksKept` and
`LifecycleImplemented` (the refinement of `TaskLifecycle`). The inductive invariant is

    IInv == TypeOK /\ RowConsistent /\ WorkerMeansPending
            /\ PendingHasWorker /\ LinkKept

`RowConsistent` is not inductive alone: an update of a task that had ended would
leave a result beside the status "failed" (`StoreFailed` does not touch
`analysis_result_json`). `WorkerMeansPending` excludes it: only pending tasks are worked
on. `LinkKept` needs it too. (`WorkersMatch`, the property of the run, is the type with `WorkerMeansPending`
and `PendingHasWorker`.) The refinement uses `WorkerMeansPending` to see that every
ending starts from a pending row.

After an update that failed behind its commit a task can read "failed" beside its result
(`Contradicts`), and a GET's write-back then finds its link again. The refinement allows a failed
task a report: what it forbids is that an outcome or a report, once there, is changed.

The proof is by task: `TaskOK(t)` is the invariant of one task, `OneTaskStep` says that a
step of one task keeps the others', and there is one lemma per action.

### 4.4 The search page

`RecordSearchProofs` proves `PageStaysConsistent` (`PageConsistent`), `SelectionStaysInScope`
(`SelectionInScope`) and `CrossPagesKept` (`CrossPageKept`). The inductive invariant is

    IInv == TypeOK /\ SpinnerHasRequest /\ ShownIsCurrent /\ QuickFilterInForce
            /\ RequestsOK /\ SelectionInScope

`RequestsOK` is what the page relies on without saying so: the request that is current was
sent for the criteria on the page, so its answer is theirs; and a quick filter cannot be
highlighted while the first search's timer is set, which would search without it. That
`selScope` is the scope of the criteria is part of `TypeOK`. `SelectionInScope` needs both, and
`ShownIsCurrent`, because a row that is ticked carries the scope of the *answer*: only when no
search has failed is that the scope in force. `CrossPageKept` is a property of single
steps, and of the invariant it needs only `TypeOK` (`StepKeepsPages`): a search drops what is
selected when its scope is not `selScope`, which is the scope of the criteria on the page, so
one with the same entries keeps everything. A selection that is emptied on purpose counts as
such only if the step flips `emptied`.

### 4.5 Analysis submission

`AnalysisProofs` proves `AttemptsStayApart` (`AttemptsApart`) and `DialogStuckByFailure`
(`StuckNeedsFailure`). For the first, `OneStage` says that, without a second click, one attempt
is under way and at one stage (matching, asking, posted, delayed, polled), and `Masked` that the progress
dialog covers the buttons from the post on; without `Masked`, a click could start an
attempt behind the dialog. The second holds also with second clicks: `Followed` says that
behind the dialog there is a post, a timer or a failed task, and `PostedOnce` (an attempt is
posted once) is what makes a failure final.

### 4.6 The list of results

`ResultListProofs` proves all four invariants of the run: `PageIsConsistent` (`PageConsistent`),
`ListShowsCurrent` (`ShownIsCurrent`), `RemovedAreNotSelected` (`RemovedNotSelected`) and
`NoEmptyPage` (`EmptyPageNeedsCrossing`). The inductive invariant is

    PageState /\ ListCurrent /\ Paging

- `PageState` is `PageConsistent`, and that every load was sent by the page.
- `ListCurrent`: the newest load is for the page's criteria, and a row of it, or a selected task, that
  is hidden by now has its removal in flight (`Covered`), which will load the list again. Once
  the spinner is off, every load that is left repeats the newest, unless they differ (`raced`).
- `Paging`: without a removal in flight the criteria's page begins before the last match
  (`InRange`) and the newest load is what the server would answer now (`Untouched`); with one, what the
  click saw is the server's page until it hides the tasks, and then the page that
  `handleHide` will go to is in range (`Removing`).

`Removing` needs arithmetic about pages. `Slice(S, page, size)` takes the places whose rank in `S` is
between two numbers; `CountedUp` (counting from below meets every number, by the least
number of a set) gives `FirstRanks` (the first k are k), this gives `SliceSize` (how many a page
holds), and this `PageAfterRemoval`: whoever removes some or all of a page, and goes one page back
if the removal was as large as the page, is on a page with tasks if any are left.
`CountPlaces` turns tasks into places, which needs that a task is in the list once.
`OfferedPages` says that the pagination offers only pages that hold something.

The user's handlers come to one form (`Browse`): new criteria, with a newest load for them,
on page 1 or on a page that the total of the rows shown offers.

This proof corrected the model twice. `EmptyPageNeedsCrossing` used to name
only removals that met each other or a change of criteria: with three tasks and pages of two, a
removal confirmed while the next page is being loaded (`AnalysisResultList.tsx:351`) also ends on an
empty page, which two tasks were too few to show. And two properties asked for the newest
load to be shown, which follows from `raced` and is no longer assumed.

### 4.7 The data sources

`DataSourcesProofs` proves all that the run checks. `ReadyAreTested` (`ReadyWasTested`) is made independent
of the switch "enabled" (`SuccessTrue`); what else is needed is that rows never go away, so that lists,
forms and requests, however old, are for a row that is there (`ListsTrue`, `FormTrue`, `OpsTrue`).
On top of this (`PageTrue`):

- `PageShowsTable` (`PageConsistent`): as long as no change has been served whose answer is still on its
  way, the newest list has the rows of the table wherever it is (`ListsCurrent`); the answer loads
  a newer one.
- `EnablingIsOnPurpose` (`EnabledOnPurpose`): a form opened when nothing was in flight keeps the table's
  switch until something is, and while it is open only its own saves are, since it masks the
  buttons (`FormCurrent`). A change that no other mixed with is alone in flight, and a save then
  writes back the switch of the table (`SavesCurrent`).

### 4.8 The report and its page

`ReportDetailProofs` proves the four invariants of the run: `PageStaysConsistent` (`PageConsistent`),
`WrongReportExplained` (`WrongReportNeedsLateAnswer`), `ReportsShownWhole` (`WellFormedShown`) and
`RisksOfTheirStatements` (`RiskOfItsStatement`), for any tasks and any texts. The inductive invariant is

    IInv == TypeOK /\ SpinnerHasLoad /\ NotFoundExplained /\ OwnReport /\ Stored

- `SpinnerHasLoad` is a property as it stands; `NotFoundExplained` says the other half of
  `PageConsistent` of the state and not of the screen: a page with no answer that is not
  loading is in its first render, or a request has failed.
- `OwnReport`: as long as nothing failed and no late answer was shown, the report is that of the
  address or a request for the address is on its way, whatever polls for other tasks are still
  to be answered. `WrongReportNeedsLateAnswer` is the case of no request left.
- `Stored`: an end is final at the server, so what a request found ended, and what the page shows of
  it, is what the server has, written text included. It carries `GluedShown` from what the workflow
  wrote to the screen.

The rest is about texts, that is, about line numbers:

- The greatest and the least of a set of numbers (`Max`, `Min`, `Latest`, `Above`) are taken from
  `Least`: every set of numbers has a least one. The same argument replaces induction for what `Normalize`
  makes of a text: `FlattenSeq` is a recursive function, and the first place where it
  would go wrong cannot be (`FlattenTyped`, `FlattenSingles`).
- `ItemConvex`: from the start of an item to any of its lines no heading comes, and every line between is
  the item's too, although items are taken out of groups, these out of the details, and empty groups
  are left out. From this, and `LeftConvex` of the lines that points leave, follows
  `RiskUnderStatement`.
- `Parts`: what `WellFormed` says of neighbours is turned into places: where the headings and the
  table are, and what stands before each line of the details (`WellFormedParts`). Then there is a
  lemma per kind of line (`RowsShown`, `NoneShown`, `SqlShown`, `RiskShown`, `PointShown`), and
  `ShownWhole` puts them together.

This proof corrected the model. `WellFormed` used to allow a table that is only a header and the line
under it, of which the page shows nothing (`parseMarkdownTable` wants three lines), and a line like
that under any row; and it allowed no table of several rows. `ReportsShownWhole` was false of the
first kind, which the reports of the run did not contain. It is also why `TypeOK` asks of the
bag of requests that it is a bag of requests, and not how many there are: the bound is a guard.

### 4.9 The tail of the log

`PgLogProofs` proves `SkippedLinesExplained` (`SkipsExplained`) of `LogTail`. The inductive invariant
(`TailIInv`) has a part that always holds:

- `InodesCounted`: the n-th file has a number up to n, so the number n + 1 of the next one is new;
  `InodesKnown`: thread, memory and checkpoint know only numbers of files. Together: a file that is not
  `Reused` has a number nobody remembers when it is created.
- `HasFile`: between `stat` and the next one the thread has a number, and then an open file;
  `RoomForFile`: there may always be another file.

and one that holds until a checkpoint could not be written (`saveFaults = 0 => PositionsSent`):
wherever a position is kept, the lines before it were sent, if the number it is kept with is only that
of the file at the path. There is one conjunct per place: on disk (`DiskSent`), in memory before `stat`
(`StatSent`), between `stat` and `open` (`OpenSent`) and while a file is read (`ReadSent`). The last one
is needed of the open file also after its rotation; `ReadsPath` says that a thread with the number of the
file at the path has that file open, and `NoneIsStart` that without a number the position is 0.
A failing checkpoint breaks exactly this: memory and disk then know different files, and the
next file starts at the position of the old one.

### 4.10 Only model-checked

Liveness, which is out of this prover's reach: `BufferDrains`, `HeldReleased`, `EndsUnlessBroken`,
`LineSent`, `SearchSettles`, `TaskFollowed`, `PollingEnds`, `EndArrives`.

## 5. What could come next

1. The budgeted fetch of metadata: workers, time-out, errors, what is left behind
   (`analysis_context_service.py:541`).
2. The grouping of records, and the extraction of SQL sections, as functions checked against
   reference definitions.
