# WebCLI in TLA+

WebCLI is a workbench in the browser for one user, built on `codex app-server`.
A Node server starts codex as a child process, talks JSON-RPC with it over
stdio, and serves pages over WebSockets. This directory holds models of its
stateful parts, the TLC configurations that check them, and proofs that TLAPS
checks. Line numbers are of the repository at the commit beside which this
directory is kept; `PROJECT.json` maps every definition to the lines it models.

Contents: [the system](#the-system) · [the modules](#the-modules) ·
[runs](#runs-and-bounds) · [fairness](#fairness) · [proofs](#proofs) ·
[disagreements](#where-code-and-documents-disagree) · [plan](#plan) ·
[left out](#what-is-left-out)

## The system

```
 page (React)                     server (one Node event loop)                child
 store <- dispatcher <- SessionClient <== ws ==> WorkbenchService <-> CodexRuntime <= stdio => codex
   effects, prompt queue                        broker, caches, views     pendingRequests      app-server
                                                SessionManager, WorkspaceRepo
```

A page calls (`codexClient.call`), the service answers after its own awaits, and
codex's notifications are translated by the runtime, applied to the caches of
the service and broadcast. Everything in the server shares one event loop: a
callback runs to its end, then the promise jobs it caused, then the next
callback. So interleavings happen at every `await` and between callbacks, and
the lines of one chunk of stdout are all handled before any continuation. On a
page, a change of the store is rendered and the effects of that render run
before the next message; queries, timers and frames come in between.

| Component | State | Hard behaviour | What makes it correct |
|---|---|---|---|
| CodexRuntime (`runtime-codex/src/codex-runtime.ts`) | child, status, startPromise, restartTimer, pendingRequests | exits at any time, restart timers, calls during start, writes to a dying pipe | one process; "connected" only when initialised; every call settles once |
| Server requests (runtime, ApprovalBroker, WorkbenchService, cards) | pendingServerRequests, pendingById, threadOwners, cards | two pages decide at once, codex withdraws, pages go offline, codex restarts | one reply per request; every page of the session sees what is pending; clicks take effect |
| Forms of requests | cards, pending maps by id | nine kinds, ids used again after a restart, a second way to answer | codex is told what the user chose |
| SessionClient (`session-ws-client.ts`) | socket, connectPromise, timer, pending | events of several sockets overlap, server restarts | always a next event; every call settles; it comes back |
| Timeline (WorkbenchService, `event-router.ts`, store) | turns and items of a view, pendingDeltas | deltas wait for frames, notifications pass answers, reads are older than the view | text in order and complete; nothing shown disappears; an open thread is not left blank |
| Timeline items and cards | entry, its details, the card's text | three sources of one entry, kinds with different fields | the card shows what codex said last |
| Summary cache, views, catalogue (WorkbenchService) | threadSummaries, threadViews, cachedWorkspaceCatalog, warm-up | refreshes cross events, warm-ups are retried, views are pruned | the cache is what codex said; the catalogue is that of its tables |
| Sessions (SessionManager, SessionProcess, WorkbenchService) | two registries of connections | deletion against open sockets, a socket that closes late | the registries agree |
| Commands (CommandService) | sessions, processOwners, a page's copy | start fails, codex exits, output before the answer | a page shows a command as the server has it; it ends |
| Prompt queue (`WorkbenchScreen.tsx:1653`, `:1960`) | queuedPrompts, dispatching flags | lost answers, effects that only run when something changes | in order, each once, none stuck |
| Thread list and badge (`WorkbenchScreen.tsx`, react-query) | summaries, connection, three queries | HTTP against socket, stale queries, exits | the list is right or about to be |
| Thread views (`WorkbenchScreen.tsx`) | activeThreadId, hydratedThreads, marks | sweeps, forks, failing answers | the thread on screen is whole or about to be |
| Realtime sessions | sessions by thread, audio chunks, object URL | sessions replace each other, timer of the URL | no URL leaks; sessions do not mix |
| Device-code login, account | logins, account in three copies, refreshes | child, timer, cancel, exit and stop race | no login is beyond control; the page hears of every change |
| Settings | codex's file, three copies, form | every save writes all fields | a page shows what codex has |
| Integrations | four lists, query by place, store's copy | many writers, answers for another place | the lists are those of the place on screen |
| Git snapshot and detail | index, snapshot, detail | refreshes finish out of order | what was asked for arrives; a detail belongs to its snapshot |
| Git tree | groups, selection, expansion, remote diff | effects that follow one another | they belong together |
| Conversation | window, following, anchors | layout effects against scroll events | who follows sees the newest entry |
| Task workflow (`scripts/task-workflow.mjs`) | worktrees, branches, main | developers and GitHub act in between | no committed work is lost |
| Scripted runtime (`fake-runtime.ts`) | threads, timers, approvals | timers of turns interleave | what it starts it ends |
| Workspaces of the page (`WorkbenchScreen.tsx:1361`, `:1813`) | list, selection, form, requests | requests overtake each other, effects choose the selection | the list is the server's; what the user picked stays |
| Path of a workspace (`WorkbenchScreen.tsx:5398`, `home-paths.ts`) | text, its suggestions | three functions cut one text at home | they mean the same directory |
| File search of the palette | text, timer, calls | answers to earlier texts | what is listed was found for the text there is |
| Preview of files | dialog, query, models of the editor | timers of 0 ms, reads while a file changes | the editor shows its heading's file and the text read last; nothing leaks |
| Session of a tab (`use-active-client.ts`) | localStorage, lookups, socket | tabs that start together, StrictMode, replayed status | tabs share a session; a tab shows codex's status |
| Branches of the composer | snapshot, list, pending switch | two sources of one menu, lost switches | the menu is as new as it was asked for |
| Panes | width, drag, frame | pointers, keys and the window at once | it fits, is stored and painted |
| Links of answers | none | one text is resolved twice | a click opens what the text says |
| Mappers, HTTP routes, presentation, generated types | none | none | not concurrent |

The full list, with what is not modelled and why, is `components` in
`PROJECT.json`; `hazards` lists, at its line, each thing a test would hardly
reach, and the properties that watch it.

## The modules

### Server

**`CodexRuntime`** — a step is one callback. A process is named by the number of
its spawn; `start()` makes the promise and the process in one stretch, so the
start attempt has the same name. `proc` is the operating system's view of a
process ("dead" until Node runs the exit callback, then "exited"), `child`,
`connected`, `startPromise`, `restartTimer` and `pendingRequests` are the fields
of the class. `phase` and `gen` follow the promise of each call: idle, waiting for
a start, sent, settled. The account refresh that ends a start is a call like the
others, made by the attempt. `Call`/`Resume` are `call()` before and after its
await, `HandleInitialized`, `HandleInitializeError`, `FinishStart` the stages of
`spawnProcess()`, `ChildExit` the exit callback with the rejection of what is
pending and the timer, `TimerFires` the timer (which may be one that
`this.restartTimer` no longer refers to). `Boot` is the first start, which
`WorkbenchService.start()` (`workbench-service.ts:91`) neither awaits nor lets fail the
server: from then on the server listens (`Listening`), and calls and stops meet a first
start that is initializing, refreshing or rejected. `Die` and `PipeError` are the
environment's. An unhandled rejection, which only the start of a restart timer can have, ends
the server (`serverUp`), as Node does.

**`RpcContract`** — what a caller of the runtime is promised: a call is idle,
open, then settled, once, and it does settle while the program runs.
`CodexRuntime!ImplementsContract` is the refinement, with `waiting` and `sent`
both mapped to open.

**`Approvals`** EXTENDS `CodexRuntime`: its next-state relation has the runtime's
steps (`RuntimeStep`; the end of the server closes its sockets) and those of requests that codex makes. A request is the pair
of the process and the JSON-RPC id it chose; the maps of runtime and broker go
by the id alone, as in the code, so a restarted codex can reuse one, for a request of
another kind too. Then the decision on an old card is refused after the runtime has forgotten
its request (`Mismatch`, `codex-runtime.ts:952-953`), while codex runs; `crossed` names the requests
that were mixed up so. What a page
will show (`WillShow`) is decided by the last message about a card on its way to
it, or by the card it has. **`Decisions`** is the same path with contents and
without faults: nine kinds, the form of each card, the answer it submits, the
older approval message, and the mapping to the reply codex gets.

**`Sessions`** — sessions, the connections registered in SessionManager,
SessionProcess and WorkbenchService, and commands with the pages that are told
of them. The routing of runtime events in SessionManager is left out:
`subscribeToRuntime()` has no caller. Its bindings of threads and processes, and
what a SessionProcess replays, are in `ActiveClient`.

**`Workspaces`**, **`ThreadCache`** — the two SQLite tables and the catalogue made
from them and from directories of threads (a path is the sequence of its
segments); summaries, views, the warm-up and every call and event that changes
them. A change of codex and the line that announces it are one step, because
stdout keeps their order; what an answer resolves goes on later, as a promise
job, before any other callback (`NoJobs`).

**`Account`** — the login children, their timers and promises, the account as
codex, the runtime and the page have it. A refresh asks two things and is an
operation with a program counter; `call()` applies codex's answer where it arrives
and the refresh applies it again. **`GitReview`** has the refreshes of the
snapshot for one path, from `git status` to the review panel.

**`FakeRuntime`**, **`TaskWorkflow`** — the runtime of the end-to-end tests with
the timers of its scripted turns; the script that starts, syncs and finishes
tasks, where developers, git and GitHub act between its git calls.

### Page

**`SessionClient`** — sockets have an identity, because the listeners of older ones
write the fields of the client too. `NewSocket` is `connect()`, `SocketOpens` and
`SocketCloses` the listeners, `CallNow`/`CallLater`/`ResumeWaiters` the two ways
`call()` goes. The server knows its sessions until it stops; an unknown one is
closed with 4004.

**`Timeline`** — one thread, from codex to a page. The server reads a line
(`ServerReadsLine`): a notification is broadcast at once, an answer resolves a
promise whose job is due (`jobs`). The chunk may have ended anywhere, so any number
of notifications may pass an answer. A read waits once more (`held`), for the
catalogue. `PageReceives` is the message listener with the dispatcher (deltas are
kept, everything else flushes first) or, for answers, the continuation that
writes to the store directly. `Restore` is the effect that reads an empty active
thread, part of every step that changes the store. Text is the sequence of chunk
numbers. `Followed` says that the page has not read or left the thread.

**`Items`** — one item of any kind, chosen at Init: notifications, the read's copy,
normalisation, the delta dispatcher, the entry and its card. `past` is its
history and `at` where an answer was made; the line break between two deltas of a
reasoning is left out.

**`PromptQueue`** — one thread beside others. The effect belongs to the steps that
change what it depends on. React 19 renders the updates of an answer in a
microtask, before the `finally()` that clears the flag, so the effect still finds
the thread dispatching; `OtherThreadChanges` is the only other thing that runs it.

**`ThreadList`** — bootstrap, active and archived queries with react-query's rules
(stale, invalidated, in flight, structural sharing), the effects that apply them
as one Commit, and the replayed status message of a session. The server refreshes
in one step here. **`ThreadViews`** — a view is the set of its turns, possibly with
its history missing; Commit is the render with the effects that restore, sweep
and mark. History variables (`partial`, `stale`, `failed`, `ended`, `misled`) name why
a view is not whole. **`Realtime`** — sessions, items and chunks by number; the
URL's timer.

**`Settings`**, **`Integrations`** — the copies of codex's configuration and lists.
A save writes all fields from the copy of the bootstrap; a list is the place it
was made for and a revision, and the query goes by place.

**`GitTree`**, **`Conversation`** — the store changes at once, the page at the next
Commit (render, then effects in their order). In `GitTree` renders of the page and
of the panel differ, cancelled reads are dropped and unmounting loses the state;
in `Conversation` layout effects are part of Commit, the effect on the active
thread is `Reset`, scroll events come with frames (`Paint`).

**`Projects`** EXTENDS `Workspaces`: the page's list, the form that makes, changes
and removes workspaces, and its requests, which change the tables where they
arrive (`Serve`) and the page where they are answered (`SaveAnswered`,
`RemoveAnswered`). The effect that chooses a selection belongs to every step that
changes what it depends on (`Selected`). Threads select too, after an await and whatever the user
has selected since: one that is opened by a button or a prompt (`OpenThread`, `ThreadOpened`),
forked (`ThreadForked`) or restored (`ThreadRestored`), each by `Follow`. `picked` remembers what
the user selected until something that may select brings another. **`PathField`** — the text of the form's
path, as its pieces, through the page's normalisation and test and the server's
resolution and suggestions; `entered` is the directory the user meant.

**`FileSearch`** — the effect with its timer and its calls; a call that was replaced
goes on and is dropped. **`Preview`** — dialog, query and editor; each dialog has
paths of its own for the models, whose timers are `disposals`. **`CodeLinks`** — which
file and line a text means, and how its address carries them; it resolves with
`PathField`'s operators, as the server does.

**`ActiveClient`** — `useActiveClient()` of several tabs of a browser that share
localStorage: the session is looked up or made, then connected to; what the
session replays and what the server then sends; bindings of threads. **`Branches`**
— each call of the page for the menu with a program counter; `version` numbers the
changes of the repository, so that what was read says how old it is. **`Panes`** —
width, drag and the frame that paints it; `strayed` and `undrawn` name two drags
after which the code leaves something else.

### Compositions

`Approvals` is a composition proper: runtime, broker and pages write the same
state. **`MCPage`**, **`MCControls`**, **`MCPane`**, **`MCServer`**, **`MCShell`** and **`MCDesk`** (which EXTENDS
`MCShell` by what the page offers beside it) are sums: their parts
write no state of one another, a behaviour moves the part it starts with, and so
each part has exactly the behaviours it has alone. Their constants have to fit one
`.cfg`, and a property of a sum may join the properties of one of its parts:
`PromptsAreDue` those of `PromptQueue`, `ViewsAreTrue` those of `ThreadViews`,
`PlacesAgree` those of `PathField` and `CodeLinks`. **`MCApprovals`** and **`MCSessions`** supply
constants and symmetry. Symmetry is used only where no property is a liveness property, and only over
model values that no definition tells apart. Parts of a sum share such values, which their own modules never
compare with another part's, so that few permutations serve them all.

## Runs and bounds

| Run | Question | Instance |
|---|---|---|
| `runtime` | Do starts, exits, timers, stops and calls ever leave two processes, a false "connected" or a call nobody settles, also while the first start is under way or has failed? Is the contract implemented? | 2 calls, 3 processes |
| `approvals` | Does every page of a session show what is pending and nothing else, is a request replied to once, does a submitted card go? | 2 pages of 1 session, 1 id, 1 thread, 1 process; with 2 processes (a restart), 1 page |
| `client` | Has the client always a next event, is no call lost, does it come back? | 3 sockets, 2 calls, 2 drops, 1 restart, 2 doublings of the delay |
| `timeline` | Is an open thread ever left blank by reads, sweeps and notifications, and is everything shown that is written? | 1 turn of 2 chunks, 2 reads, 1 change of thread |
| `server` | Is the catalogue fresh, the cache recovered, current until overtaken, are pinned views kept? Does the scripted runtime end what it starts? Does the task script lose work? Is the thread on screen whole or about to be, are marks true? | cache: 2 threads (1 listed), 1 of each event; fake: 2 threads (1 seeded), 2 turns, 1 command, 2 calls; task: 1 slug, 2 patches, 1 rewrite, main moves twice; views: 1 thread and one that is opened or forked off, of which the page keeps 1, 3 events |
| `sessions` | Do the registries agree, and do pages show commands as they are? | 3 connections of 2 pages, 2 sessions, 1 command, 1 chunk, 1 exit |
| `page` | List and badge; realtime; prompt queue; text of a streamed item | list: 2 threads, 2 events; realtime: 2 threads, 5 messages, 1 close; queue: 2 sends, 3 turns, 2 troubles; line: 2 turns of 2 chunks |
| `controls` | Account and logins; settings; decisions; integrations | account: 1 login, 1 key, 2 operations, 1 exit; settings: 2 requests, 2 models; decisions: 2 requests of nine kinds, 1 id, 1 restart; integrations: 2 places, 1 button, 2 turns |
| `pane` | Snapshot and detail; tree; conversation; cards | git: 2 refreshes, 2 reads, 2 changes; tree: 2 workspaces, 3 paths, 4 listings, 5 acts; conversation: 2 threads, 3 entries, 4 events; item: every kind, 2 chunks, 1 read, 1 loss |
| `desk` | Are the workspaces of a page, what the palette lists, the preview and the session of a tab right, whatever overtakes what? Do texts and links mean the directory and file they say, is a pane's width kept, is the menu of branches right? | workspaces: 2 ids, 3 paths, 2 requests, 1 lost, 1 thread being opened; palette: 2 workspaces, 2 texts, 2 calls; preview: 2 files, 2 lines, 2 dialogs, 1 change, 1 failure; tabs: 2, with 2 sessions, 2 threads, 1 process (2 of the three bound at once), 1 mishap; path: 7 pieces, up to 3 of them, trees over 6 directories, 1 text typed after the first; links: 8 pieces, up to 3 of them (three only from the root, home, above or a directory of the thread's), 4 directories; pane: 3 windows, 3 positions, 2 stored widths; branches: 2, with 2 calls and 2 of what others do |
| `client_restart`, `timeline_ended` | see [disagreements](#where-code-and-documents-disagree) | smallest that shows it |

Why these are enough. Three processes let a process, its replacement and a late
timer of the first coexist. Two calls are one that waits and one that is sent.
Two pages are the one that acts and the one that sees; over a restart of codex it is the
cards of one page that matter, and the run has one (`PagesAt`). Three sockets are one
closing, one connecting and one more that the timer makes while both are about;
the reconnect delay matters only as reset or not. Two chunks can be swapped,
doubled or lost. Two reads are the first and one that crosses it. Two operations
on the account, two saves, two refreshes, two reads of a detail are the least
that overtake each other; one loss or exit between them is the least that
separates them; two searches, dialogs or requests of a form overtake each other, and two
tabs start together. A text needs three pieces for home, a name and one that goes up.
Three windows are a wide one, one in which a stored width no longer fits, and one between. Events of users and codex are counted together where an order of
them matters more than their number (`MaxEvents`, `MaxTroubles`, `MaxActs`). Where
theorems say so, the bound does not matter at all (see [proofs](#proofs)).

Larger instances that were explored once, with no violation: the queue with one
more trouble (3 million states), commands with two processes, views of
two threads and a third (4 million), integrations with three turns (0.7 million), settings with three requests (2.5 million), a conversation of
five events (1.3 million), and partly two logins (more than 14 million), a
thread list of three events (more than 19 million) and a tree of six acts.

`CHECK_DEADLOCK FALSE` everywhere: users, codex and the network owe nothing, the
program may stop, and behaviours end at the bounds.

## Fairness

`WF` is asked of what the platform owes: the event loop runs due callbacks,
promise jobs and timers; an exited child's callback comes; an open socket delivers;
a browser runs listeners and frames; the server closes refused sockets and is
started again after it stopped. Of codex it is asked, in `CodexRuntime` and what
extends it only, that it answers a request or dies, and dies on SIGTERM: `call()`
has no timeout, so without that no call need settle. `Approvals` asks only for the delivery of
messages and that the jobs of settled promises run (`JobsRun`), which calls wait for; not that codex
answers, as its requests are its own. Nothing is asked of users,
of crashes, or of codex's notifications. No strong fairness is used.

The modules of `MCServer`, `MCPage`, `MCControls`, `MCPane` and `MCDesk`, and `Sessions`, have
no fairness. What must happen is stated there as safety: whenever something is
not as it should be, something is under way that will put it right
(`CacheIsDue`, `PromptsAreDue`, `ListIsDue`, `AccountReachesPage`, `ListsAreDue`, `TreeIsTrue`,
`ConversationSettles`). That is stronger where it can be said, since it names the step
that is due, and it can be proved.

## Proofs

All for every value of the constants; the assumptions are those named in the
modules: bounds are naturals; `NoGen`, `NoSession`, `NoSocket`, `NoLogin`, `NoAccount` and
`Warmup` are not members of the sets they extend; calls are not numbers of
processes (`CallsAssumption`); the pages there may be with so many processes are pages (`PagesAtAssumption`); a path is a sequence, and home is one
(`PathsAssumption`); what stands for no copy of the configuration is neither one nor a
model, and what stands for no data of a list is neither a part of one nor lists
(`ControlsAssumption`); threads are finitely many (`CacheAssumption`); what stands for no session and no URL is neither (`PageAssumption`); a thread that exists is one that can be viewed, and no thread is the absence of one (`ServerAssumption`);
what stands for no snapshot, drawing, workspace or path is none, nor is what stands for no
detail or no scroll position one, and the paths that git lists are among those it orders
(`PaneAssumption`); what stands for nothing selected, found, previewed or stored is none of what can
be, and ids of workspaces are not the words of an answer (`ShellAssumption`); positions and widths
are numbers, and what stands for no drag, branch or call is none (`DeskAssumption`).

| Module | Theorems | Argument |
|---|---|---|
| `RuntimeProofs`, of the runtime | `TypeCorrect`, `AlwaysConnectedToOneProcess` (of `OneProcess`, `ConnectedIsInitialized`), `NoCallIsOrphaned`, `NoWaiterIsStranded`, `EveryCallIsHeld`, `CallsFollowContract` | The properties are not inductive: `start()` looks only at `startPromise`, so `IInv` says that the promise and the child are those of the same process and that a process that runs is the child, how far the attempt of a connected process can be, and where each call can be. `CallsFollowContract` is the refinement of `RpcContract`: initial states map to initial states and each step to a step of its `Progress` or a stutter; only its fairness is left to TLC. |
| `RuntimeProofs`, of requests | `NoSecondReply`, `CardsAreAlwaysAnswerable` (of `LivePendingIsAnswerable`, `CardsAreAlwaysPending`) | `ApprovalsRefineRuntime`: each step is a step of the runtime or a stutter, so `IInv` holds here too. `AskInv` adds that what the runtime holds was asked and has not been replied to, and that the broker holds one entry for an id (`OneEntryPerId`), so that a decision that is refused names in `crossed` the entry the property speaks of; it does not mention the pages. `CardsInv` adds the types of what is on its way: with those the property of the cards is inductive, because it is about what a page *will* show. The lemmas `LeaveAppend`, `LeaveTail`, `LeaveReplay` say what a message more, a message less and a replay of the broker's map leave on a page. |
| `ShellProofs`, of the client | `TypeCorrect`, `NothingIsEverStranded` (of `ClientIsNeverStranded`, `NoCallIsLost`) | `PromiseOfSocket`: until `dispose()`, a promise the client holds is that of its present socket, whose event is to come. |
| `ShellProofs`, of the shell | `ProjectsAlwaysAgree`, `ResultsAreAlwaysMeant`, `PreviewIsAlwaysTrue`, `ClientsAreAlwaysServed` | `ShelfInv`: the list is what the server would answer now, or it is being fetched, or a request that has changed the tables is answered and will have it fetched (`ListIsDue`); a request that was refused has changed nothing, which is why its handler need not fetch. Only a workspace of the list is selected, or "all" while none is shown (`SelectionIsListed`), and what the user picked is listed and selected (`PickIsListed`): the effect keeps a selection that is listed, and a step that selects something else forgets the pick. `PaletteInv`: whatever waits or is under way and not cancelled is the search the palette means, because each step that changes what it means runs the effect, whose cleanup cancels the rest. `DialogInv`: a model that no timer will dispose is the one of the dialog there is (`NoModelIsForgotten`), and an editor stands for a text that is shown (`EditorIsShown`). `ClientInv`: the last message on its way to an open socket is codex's status (`StatusIsLast`); as long as nothing parted the tabs, one at most is starting, and it asks for the session the others have or makes one when none has any (`OneStarts`). |
| `ShellProofs`, of the desk | `DeskKeepsShell`, `PaneIsAlwaysKept`, `BranchesAreAlwaysTrue` | `DeskKeepsShell`: the desk begins as the shell and each of its steps is one of the shell's or a stutter, so what is proved of the shell holds of the desk. `PaneInv`: the live width is one that fits, unless the window changed under the drag, and is the width itself while nothing drags; a clamped width fits for every window by arithmetic (`ClampFits`). `BranchInv`: what was read says at which version of the repository, so all that was read at the present one agrees with it (`ReadIsTrue`), and what the page is owed is no newer than that; one switch is under way at a time, and its menu is locked (`SwitchIsOne`). |
| `PageProofs` | `TextIsAlwaysPrefix`, `StreamAlwaysGrows`, `OpenIsNeverBlank`, `RealtimeIsAlwaysTrue`, `PromptsAreAlwaysDue` | `LineInv`: what the page has of an item is its first n chunks, the messages on the socket carry n to some m, and the lines of the pipe carry m to what codex wrote. `Carries(q, t, a, b)` is about a queue and two numbers and no state, so it is proved once how it goes with `Append` and `Tail`. `BlankInv`: a view that is blank although codex has turns is followed by something that shows one: a message, kept deltas or a read to come. It holds because the effect asks again whenever a view becomes blank, which `AskedIs` says. `VoiceInv`: URLs and sessions correspond one to one, which is kept because a session's sound changes in three ways only (`Kept`, `Muted`, `Renewed`); and for each message on its way, the session the store will have when it arrives is the one it is of (`Knows`), unless the message that started that one was lost. `QueueInv`: every call has a number of its own and one place on its way (`CallsAre`); what codex has of an entry and what is on its way to it (`Count`) exceeds one only by the sockets and processes that were lost, and an entry whose call was answered without codex having it was lost with one of them (`AnswersAre`). Codex gets the entries in order because the queue is in order and only its head is dispatched (`DispatchIs`). |
| `PaneProofs` | `ReviewIsAlwaysTrue`, `TreeIsAlwaysTrue`, `ConversationAlwaysSettles`, `CardIsAlwaysTrue` | `ReviewInv`: the read the panel waits for is one of the snapshot it shows (`CurrentIs`), and a refresh that covers what was asked for survives each store of another (`DueStores`); that a detail is true of the tree is a lemma about the letters of `git status` and no state (`DetailIs`). `PanelInv`: what the panel drew last is told from what the store has now by the stamps of snapshots, which two workspaces never share (`Apart`); a row that was clicked has its group open until the render that opens the way to it (`RowsAre`), and a remote diff or the read of one is of the workspace drawn (`ReadsAre`), so that the render which forgets it is the one that shows another. `TalkInv`: a reader who follows is at the end, or a frame or a scroll event is to come (`FollowIs`), and a frame that will scroll is of the thread on screen (`FramesAre`). `ItemInv`: what a message says was true of the item when codex said it (`Tells`), a delta being the one that follows what its page had; so the entry, with what the dispatcher keeps, is the item as it was at some time (`CardIs`). That the card then has its text and details is a lemma about each kind and no state. |
| `ServerProofs` | `CacheIsAlwaysDue` (of `RecoveryIsAlwaysDue`, `CatalogIsAlwaysFresh`), `OnlyOvertakenAnswersEverSpoil`, `FakeAlwaysSettles`, `WorkIsAlwaysKept`, `PinnedViewsStay` | `CacheInv`: what an operation keeps of the answers it waits for (`OpsAre`), that the warm-up's lists are out or its retry is due (`WarmupGoesOn`), and the catalogue itself. The catalogue is made of the directories of threads only, so the proof shows of each write to the summaries that it changes no directory, or that the catalogue is dropped with it. The action property follows step by step from the same invariant. `FakeInv`: the rest of a script that asks ends with the question, and a turn that can still make its thread idle waits for an answer, will ask or will end (`Settling`). `TaskInv`: only work that is in main leaves a branch (`Landing`), a finish that has passed its checks keeps that true until it has deleted both branches (`FinishLands`), and what origin's branch holds is held by the local one or by main (`RemoteIsHeld`). `PinnedViewsStay`: the pruning is a fold over the order of views; `Iteration` turns it into steps taken one after the other (`Walk`), each of which keeps what is pinned. |
| `SessionsProofs` | `TypeCorrect`, `PagesAreAlwaysServed` (of `RegistriesAlwaysAgree`, `CommandsAreAlwaysShown`) | `RegistryInv` is inductive with what each open socket is registered as. `CommandInv` needs it: pages of a session are those the service tells, messages on their way are of the session that owns the command and go from older to newer (`LastIsNew`), and a page without a socket is described too (`SeenIsNew`), as it may open one again. |
| `ControlsProofs` | `LoginsAreAlwaysHeld`, `AccountIsAlwaysDue`, `DecisionsAreAlwaysMeant`, `SettingsAlwaysAgree`, `ListsAreAlwaysDue` | `LoginInv`: what child, timer, promise and call of a login agree on. `AccountInv`: that a login codex knows will be read again, because its child has still to exit (`TruthIsDue`) and exits with a refresh unless it was cancelled (`CanceledIsUnseen`); that the page hears of it, since a rejected refresh finds codex down (`FailedIsDown`) and a poll whose answer is ignored is the only one (`OnePoll`). `DecisionInv`: two requests with one id were made in different runs (`RequestsAre`), both tables have a request under its id (`TablesAre`) and a card holds nothing of another request (`CardsAre`). `SettingsInv`: what is promised when nothing is under way holds because of what each request will still do. An answer that no write has overtaken is what codex has (`RequestsFit`); a copy that differs from it has such an answer to come (`CopiesAreDue`); an overlay's field that was not edited is the copy's (`DraftIs`); unless a save was composed from an old copy, there is one at a time and it has the choices (`ChoicesAreDue`); a control that shows another value than the copies waits for a request that changes what its effect depends on (`ModelIsDue`, `EffortIsDue`, by `Recomputes`). `ShelfInv`: while the overlay is open a list of the store is codex's, or something on its way will say that it is not (`Told`), or the query is being fetched (`OverlayIsDue`); what the query's data has right the store is told, since equal answers are not copied (`SharedIsTold`); and skills, whose notification carries no list, are newer than all data when one is on its way (`NewsIsNew`). |
| `SequenceLemmas` | lemmas only | Least and greatest of a set of naturals, by well-founded minimality; `SetToSeq` of a finite set; one more and one less of a sequence. |

Each inductive invariant was checked by TLC on the instance of its run before it
was proved. One step per action, and under it one per conjunct that the action can
disturb.

Model-checked only, and why:

* Liveness and everything with fairness: `ChildIsReplaced`, `CallsSettle`,
  `ReconnectsToItsSession`, `SubmittedClearsWhileCodexLives`, `WrittenIsShown`, and the
  fairness of `ImplementsContract`. ENABLED is out of the prover's reach.
* `ListIsDue`: the strengthening found so far orders the messages of two sources and the
  answers of three queries against the run of codex they were made in; TLC finds no
  violation of it, but its proof is not done.
* `ViewsAreTrue`, that is `ViewsAreKept` and `MarkIsTrue`: its pruning is a fold that needs the
  argument of `ServerProofs` once more; the proof is not done.
* `PlacesAgree`, that is `PathsAgree` and `LinksAreTrue`: they say what folds over the pieces of a
  text compute, and for texts of every length that is an induction over data.

Two attempts failed for a good reason, and the properties name the exception since.
`PinnedViewStays` was false beyond the first bounds: `hydrateRuntimeThread()` sets the
view before the summary, so after a refresh of the summaries the read of a running
thread may prune the view it made. `ListsAreDue` was false with one change more: a
notification that arrives while the overlay is closed fetches nothing, and an overlay opened
again joins the older fetch, whose answer equals the data and is not written to the store.

## Where code and documents disagree

With a run that shows it:

| Run | The document | The code |
|---|---|---|
| `client_restart` | e2e-test-plan.md:281 "Simulate disconnect (server restart or network drop)", :282 "Client reconnects automatically with backoff" | After a restart the session is unknown; the client opens and loses a socket every second for ever and never asks for another session. |
| `timeline_ended` | e2e-test-plan.md:118 "Response stops, turn marked as interrupted" | The answer of `turn.start` is applied after the end of its turn, which then runs for ever and blocks the prompt queue. |

Seen while modelling, written into the models as the code has it (a property that
would deny it names the exception), without a run of its own:

* e2e-test-plan.md:63 "Selects 'all workspaces' view": the effect that keeps a selection
  (`WorkbenchScreen.tsx:1428`) replaces "all" by the first workspace at the next render,
  whenever one is shown. `SelectionIsListed`, in the proof of `ProjectsAgree`, says so.
* session-manager.ts:133 "Clean up reverse lookups": `deleteSession()` removes the session's
  last thread only; earlier ones stay, and a process may be bound to a session that is gone.
* wave1-release-checklist.md:30 "Submit a resolution and confirm the pending card
  clears": `codex-runtime.ts:952` forgets the request before a write that throws when
  codex is down; the broker keeps it and its card can never be resolved. Hence
  "while codex lives" in `SubmittedClearsWhileCodexLives`.
* `session-ws-client.ts:10` "Connection state tracking": the close event of an older
  socket (:149) makes the client "disconnected" while a new one opens.
* wave1-release-checklist.md:59 "Confirm streaming output grows continuously without
  disappearing and reappearing": the answer of a `thread.read` (store,
  `session-slice.ts:320`) replaces a view that is newer. Hence `Followed` in
  `StreamGrows`.
* e2e-test-plan.md:106 "Switch back to thread A → previous messages visible": a
  notification makes a view of a swept thread, and a view with a turn is taken for a
  whole one and not read (`WorkbenchScreen.tsx:1908`). Hence `partial` in `ViewsAreKept`.
* e2e-test-plan.md:249 "Go to settings → History → thread visible in archived list":
  archiving invalidates a query key that no query has (`WorkbenchScreen.tsx:2162`), so the
  list is up to a minute old. `ListIsDue` says when it is read again.

What else the models keep that a reader may not expect:

* Runtime: `stop()` is not final, a later call starts codex again (`ensureStarted()`,
  `codex-runtime.ts:1083`). After a restart of codex ids are reused and the broker keeps
  the old card, so an answer to it goes to the new request with that id if the kinds
  agree, and to none if they differ (`DecisionsAreMeant` names both); in the second case the runtime
  has forgotten the new request, whose card is then in vain (`CardsAreAnswerable` excepts it).
  A first start that fails is not tried again but by a call or the restart timer.
* Timeline and items: an old answer of a read leaves a thread "active" until its next
  event. A delta that waits for its frame when a read's answer comes is appended to text
  that may have it already. Output of a running command is not in a read. The "body" of
  a file change is `[object Object]: path` and shown only when there are no changes; its
  output deltas are never shown. Reasoning deltas of one frame are joined with line
  breaks.
* Prompt queue: two prompts sent directly before the first is answered both go to codex,
  as the composer is emptied by the answer. After a failed dispatch the queue waits for
  any other change of a view.
* Thread list: `archivedThreadCount` does not count when the answer of archive comes
  before the notification. The page asks for 500 threads and gets 200.
* Settings: overlapping saves undo each other's field; Save in the overlay before the
  first answer writes unset fields; an effort corrected for a model stays when the model
  is changed back; saves of another page never reach the bootstrap's copy.
* Integrations: answers without a place carry the lists of no workspace and overwrite the
  selected workspace's, and an equal refetch does not repair them, because of structural
  sharing; nor does the fetch that an overlay joins on opening, when a notification overtook
  its answer while the overlay was closed; going back to a place within five minutes puts its old lists back; answers
  of buttons are not checked against the place now selected.
* Forms: an elicitation leaves a choice without default empty, where the older message
  takes the first one.
* Git: selecting a file re-opens top-level directories the user closed; a filter or a
  refresh re-expands all groups; a filter that hides the selected file changes the
  selection; Refresh with the remote diff open ends in the working tree's; every render
  of the page restarts a remote read. A path removed from the index only (`git rm
  --cached`) is shown without the file that is still there.
* Conversation: closing the git workbench puts the list at its top although it follows;
  growth by replacement of an item is not followed; a batch whose render finds no
  container leaves older entries "loading".
* Workspaces: the answer that opens or forks a thread, or the restoring of one, takes the page off a
  workspace the user has selected meanwhile (`WorkbenchScreen.tsx:1893`, `:1946`, `:2136`, `:1508`); the gear of another workspace retargets the open form and leaves its fields;
  Save stays enabled until the path is checked. A text with a doubled slash after home is
  taken for an absolute path by the page.
* Palette and preview: a search that failed leaves "loading"; a file opened again before its
  timer fires has an editor without a model; the same file at another line moves the heading
  only; after a failed reread the editor keeps the older text.
* Tabs: those that start together, or while the session cannot be read, make a session each; a
  connection is told first that codex is connected, and what comes before the page has
  subscribed is lost.
* Links and panes: a column without a line is lost; in a directory named like a file of code
  every place in the page is a link to it. A window resized under a drag leaves a width out of
  bounds, and a drag that ends where it started leaves what was painted last.
* Branches: the effect sets neither snapshot nor list before both have come, so that a switch
  answered in between is overwritten by the branch of before.
* Task workflow: `finish` asks GitHub by the name of the branch, so commits that are not
  in the merged request are deleted with it (`WorkIsKept` names them); a worktree removed
  by hand makes `start` reuse a missing path.
* Scripted runtime: the status of a record stays idle while "active" is reported;
  `startTurn` stores only the user's message and its turn never ends there; the approval
  of a realtime turn is stored and never asked; interrupt cancels no timers.

## Plan

Done: the modules above and, of the theorems, all safety properties of `runtime`, `approvals`,
`client`, `timeline`, `sessions`, `pane` and `controls`; of `page` all but `ListIsDue`, of
`server` all but `ViewsAreTrue`, of `desk` all but `PlacesAgree`.

Next, in this order:

1. `ListIsDue`, from the strengthening named under Proofs.
2. `ViewsAreTrue`, with the walk of `ServerProofs` as a lemma of its own.
3. `ThreadList` with `ThreadCache` in place of its one-step refresh, as a composition.

Theorems stay in the modules listed under [proofs](#proofs), by the side of the system they are about.

## What is left out

* Text: parsing, formatting, translations, patches, markdown; names, times, counts.
* Mappers of notifications and configuration, HTTP routes, environment, entry point: no
  control of their own; the modules that receive a message have it translated.
* Presentation: React components as far as they are functions of the store.
* SessionManager's event routing: no caller.
* Calls that change no state of the program: input, resizing and termination of commands,
  remote skills; rate limits; the browser login with ChatGPT.
* Lists of more than one page on the server; panel layout on a phone.
* The event `account.login.completed`, beside the account event that `Account` has; the minute for
  which a browser may keep a file it previews (`app.ts:280`).
* Authentication, the reverse proxy, SQLite itself, faults of the installation.

Codex, network, browser, git, gh and Node are modelled only from how the code uses
them and are marked external in the map.
