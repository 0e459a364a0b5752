# hermes-hands in TLA+

hermes-hands is the local half of an agent: Hermes (hermes-agent, a server, the
*brain*) decides, hermes-hands (this repository, the *hands*) asks it, runs the
calls it asks for on the operator's machine, and hands the results back, round
after round, until Hermes answers. The program is small, but most of what it
does happens between two parties that do not wait for each other: a server that
may be slow, gone, or wrong, an operator who types, approves and presses Ctrl-C
at any moment, a watchdog, and a process that may die and reopen its session.
These modules model that, check it with TLC and prove the core of it with TLAPS.

Paths below are relative to the repository.

## 1. Inventory

| part | state it keeps | operations | talks to | what makes it correct |
|---|---|---|---|---|
| **loop** (`internal/loop`) | round, calls, fixups, stops; `t.send`, `t.stopped`, `t.pending`, `t.added`; `PendingNote`, `ResumeNote`; the inbox | one turn: request, handle, runCalls, nudge, stopped, recover, takeAdded | api, compact, dispatch, session log | Hermes reads every result before it answers or asks again; budgets hold; the countdown is told; additions are asked; rounds end |
| **turn** (`internal/turn`) | `cancel`, `runID` under `mu`; the watchdog's `armed`, `fired`, `deadline`, `gen` under its own | Run, Cancel, watchdog guard, probes | loop, api, shell, ui | who ended a turn is what the footer says; a live run that a probe could vouch for is not timed out; a dead gateway does not hold a turn |
| **api** (`internal/api`) | one request: key, attempt, `dropSess`; one stream: `steered`, `stopping` | submitRun, awaitRun, streamRun, pollRun, steer, stop, approval | gateway, guard, prompt | one run per message; the answer is that run's, whole; a stop counts only when taken; every wait ends |
| **compact** (`internal/compact`) | the meter; `Rec.Compactions`; through the store the checkpoints | Compact, History, Verbatim, Due, Observe, Overflow | session, loop | what Hermes reads is the whole log, once; the prefix it was sent stays; a checkpoint is never rewritten |
| **session** (`internal/session`) | `session.json`, `events.jsonl`, `chat-checkpoints/`, `out/` | Create, Resolve, Save, AppendEvent, LoadEvents, StoreOutput, Prune, Transcript, SaveChatCheckpoint | disk | an event is in the log whole or not at all; a reference leads to its own output; the record is whole; a transcript depends on the log only |
| **dispatch, prompt, knowsystem** | plan mode, approval mode and the `[a]ll` latch, the rules already `given` | Dispatch of shell, read, write, edit, list; Confirm; Take | shell, operator, disk | nothing denied runs; a write waits until Hermes has read the rules for its directory |
| **shell** (`internal/shell`) | one bash over pipes, `killPgid` | Run, start, execOne, stop, Stop, Kill | OS | an output and an exit are those of the command they are given for; what is given up is over; Kill unblocks |
| **repl** (`internal/repl`) | the box: draft, answer, question; the loop: `turning`, `deferred`; the line under edit, its history, a read's rest | onKey, confirm, submit, afterTurn, interrupt, /commands, exit | turn, app, ui | what is typed is asked once, or answers the question it was typed for; the dock shows what is so; /exit ends |
| **rpc** (`internal/rpc`) | `busy`, `lastAppend`, the inbox | turn, append, interrupt, session and switch requests, compact | turn, app | every id is closed once; a text goes to Hermes once, in order, under the switches its client knew of |
| **app, config, setup** | the settings and where each came from; config file, `keyseed`, `secrets.enc`, `secrets`; the startup values | Load, Setup, EnsureConfig, WriteEncryptedSecrets, SetApprovals, NoteDebug, ResetRuntime, OpenSession | disk, prompt | a finished setup is in effect; the operator's values stay; the strongest layer wins and is shown |
| **cli, ui, ttyio, guard, redact, excerpt, compat, debuglog** | screen, text | | | sequential, pure or display |

How a turn goes: `repl`/`rpc` start `turn.Runner.Run`; it arms a watchdog and
calls `Loop.Run`; each round of the loop empties the inbox, lets the Keeper
compact, asks through `api`, hands the reply to `handle`, runs the calls through
`dispatch`, logs them, and puts their results into the next message.
`Runner.Cancel` (the operator, the watchdog) cancels the turn's context, kills
the shell's child and asks the gateway to stop the run.

Where it is hard, and where the models therefore put their effort:

* *what the next message is.* A message carries results that nobody else has.
  It is put together again by nudges, by re-asks of stopped runs and by tighter
  fits of a refused request, each from a different field of the turn's state.
* *who ended the turn.* The loop's goroutine, the watchdog's, its probes' and
  the caller of `Cancel` meet under two locks, and each may be one step late.
* *what Hermes reads.* Once compacted, the conversation is computed from a log
  that goes on growing, by three readers (`History`, `Verbatim`, the checkpoint)
  which must agree, with the compaction itself split over three files.
* *what became of a request.* A POST may be lost, late or answered late; the
  stream may end or break at any frame, also after hermes-hands interfered with
  the run it reports.
* *what was typed.* The terminal's reader, the main loop and the turn each own a
  piece of the line's way: a question may come up between two keys, a turn may
  end between the check that it runs and the push into its inbox.
* *what is on disk.* Several processes share a session store and the settings,
  each write is several, any of them may be the last, and the next process has to
  make sense of what is there.
* *which command wrote that.* One bash, one pipe; the end of an output is a mark
  in it, and what was given up may still be writing.

## 2. Modules

| module | models | source |
|---|---|---|
| `Budget` | the countdown and what of an envelope may run (pure) | `loop/budget.go` |
| `Exchange` | abstract: what a turn promises - calls only after Hermes read the results before them, an answer only after it read them all | - |
| `Turn` | the turn loop, any Hermes, an operator who adds | `loop/*.go` |
| `Runner` | the runner, its watchdogs and probes, Cancel, a gateway that goes away | `turn/*.go`, `loop/calls.go`, `api/runs.go` |
| `Transcript` | the conversation rendered from a log (pure) | `session/transcript.go`, `elide.go`, `fit.go` |
| `Keeper` | a session's log, its compactions, what each request carries, crashes | `compact/*.go`, `session/*.go`, `loop/request.go` |
| `Ask` | one request: POSTs, stream, steers, stop, approvals, poll; the gateway as environment | `api/runs.go`, `api/stream.go` |
| `Hands` | the calls of Hermes' batches: rules handed out, writes held back, approvals | `dispatch/dispatch.go`, `prompt/prompt.go`, `knowsystem/scoped.go` |
| `Store` | processes on one session store: prune, create, resolve, open, log, outputs, the record; torn and failed writes, crashes, a server that forgets | `session/session.go`, `events.go`, `checkpoint.go`, `app/session.go`, `app/host.go` |
| `Server` | `--rpc`: the reader, the turn beside it, appends, switches | `rpc/rpc.go`, `rpc/front.go`, `app/*.go` |
| `Repl` | the REPL's three goroutines and the operator: typing, questions, queueing, deferred /commands, /setup, /exit | `repl/repl.go`, `box.go`, `front.go`, `commands.go`, `ui/live.go` |
| `Line` | bytes into keys into an edited line: escape sequences, pastes, history, completion | `repl/keys.go`, `input.go`, `edit.go` |
| `Quote` | how setup writes a value and how it is read back (pure) | `setup/setup.go`, `config/parse.go` |
| `Settings` | setups, starts, switches: files, layers, secrets stores; the compaction threshold | `config/*.go`, `setup/*.go`, `app/runtime.go` |
| `Shell` | commands framed over one bash, timeouts, resets, Kill; bash as environment | `shell/shell.go` |
| `TurnProofs`, `RunnerProofs`, `AskProofs`, `HandsProofs`, `ServerProofs` | the theorems about each | |
| `SessionProofs` | the theorems about `Store` and `Keeper` | |
| `ShellProofs` | the theorems about `Shell` and `Line` | |
| `AppProofs` | the theorems about `Settings`, `Quote` and `Repl` | |
| `MC*` | the instances TLC checks | |

`Turn` takes its arithmetic from `Budget` and implements `Exchange`; `Keeper` is
built on `Transcript`, `Settings` on `Quote`. `Keeper` and `Repl` prefix the
names of their specification (`KSpec`, `RSpec`, ...), so that the proofs of two
components can stand in one module. The others meet at named seams
rather than in one product: `Repl` and `Server` have a turn that takes what is in
its inbox and ends (what it does in between is `Turn`'s and `Runner`'s), `Runner`
has a call that the shell runs and a request that the gateway answers, and
`Store`'s log is what `Keeper` renders. `PROJECT.json` maps every definition to
the lines it stands for.

**Turn.** A message is the record of what its reader learns from it: texts in
full and restated, results, countdown tier, correction mark, note, log. Hermes'
replies are the kinds `handle` tells apart: `Answer` (a final, or prose),
`Resend` (botched or empty, with nudges left), `Unusable`, `OverBudget` (an
envelope of which nothing may run), `Envelope`. A run may instead be `Stopped`
by hermes-hands, fail (`Failed`) or be refused for its size (`RecoverCompact`,
`RecoverRefit`, `Overflow`). The state's names are the code's (`send` is
`t.send`, `stopped` is `t.stopped`, `pending`, `added`, `recap`, `noted`, ...);
`ran`, `told`, `used`, `noteTurn` and `outcome` are history variables that no
guard reads. `Budget` is the code's arithmetic, percentages included.

**Runner.** The goroutines are interleaved action by action at the points where
they take a lock: the loop's (`StartTurn` to `Record`), each turn's guard (`Arm`,
`Fire`, then `OnFire` after the unlock, `GuardStops`), the probe (`LaunchProbe`
reads the run id, `AnswerProbe` asks the gateway and bumps), and `Press`. The
probe timer is `Every`: the interval, but no less than the floor of 15 seconds
(`Floor`), and there is none where timeout or interval is 0 (`Probing`). Time
is a `Tick` of the watchdog's clock; a probe that is out or a deadline that is
due holds the clock back, as a tick stands for many of the machine's steps.

**Transcript, Keeper.** The log is a sequence of event records; a call and its
result are one event `round`. A conversation is a sequence of parts, each the
event it carries and its form: `full`, `cut` (fitted), `line` (elided), `same`
(a reference to an earlier output), `gist` (a collapsed turn). A compaction is
three steps on disk - the checkpoint's file, the record, the event - and the
process may die before any of them. Sizes are left out: whether a compaction is
due, worth it, or how far it goes is any of the outcomes the code's arithmetic
can come to; what it then elides is exact.

**Ask.** The client is sequential, the gateway and the network are not: POSTs
are a set from which the gateway may take one at any time, with its reply heard
or not; the run appends tool calls, approvals and its end to a stream which may
end early or break anywhere. `Take`, `RunWorks`, `RunEnds` are the gateway's
(external), modelled from what `api` relies on: a known idempotency key gives
the run it has, a run waiting for an approval goes on when it is answered or
stopped; and the stream tells a run's text from its start. `text` is what was
streamed so far, as `api` keeps it: a run that completes with an empty output is
answered with it (`ReadEnd`), unless it is blank too, and then polled for. `told`
is the history variable of what the run said.

**Hands.** A call is a sequence of steps, since the mode and the rules files may
change between any two: `Refuse` (unknown tool, missing argument, jail, denylist,
`local_output`), `DoRead`, `DoReadRules` (`Saw` before `Take`), `DoShell` and
`DoWrite` (held back, not applicable, refused in plan mode, or on to the
approver), `Confirm`, the four answers, `RunShell`, `Apply`. `Take` is exact:
`given` per file, `texts` across files, both kept for the process, blank files
counted as given. What Hermes has read of the rules (`read`, `lost`, `carried`)
and what the operator said (`modes`, `answer`, `saidAll`) are history variables.
A front end with no terminal denies, one with `--yolo` allows: modes `never` and
`auto`. Limits on the length of rules are left out.

**Store.** A process runs once; starting the program again is another one, so
each variable with a `p` is one process's memory and everything indexed by a
session is on disk. `AppendEvent` may be lost (the disk is full), torn, or
written without its newline by a death; `events` joined to a torn line are
unreadable, so `log` has the readable ones only and `tail` what the last line is
like. The record is written beside the old one (`tmp`) and renamed, in two
steps, and either may fail or be the last. `Prune` collects its victims first
and removes them afterwards, one at a time, as the code does; another process
may have opened one by then. `Lose` is the server forgetting a conversation,
which only matters when a session is opened.

**Server.** One action per request kind (`StartTurn`, `Queue`, `SwitchTo`,
`SetApprovals`, ...), each waiting for the turns unless it is an append, and the
turn's goroutine: its rounds, its end (`Close`), and what follows (`Over`):
nothing, or a turn of its own for what was appended too late, under the last
append's id. What is no request (bad JSON, an unknown type, an append without a
text) is answered at once, also during a turn, the rest of what is refused after
it (`Refuse`). A request is its number; `told`, `accepted` and `ran` record what
the client knew when a text was taken and what it then ran under.

**Repl, Line.** `Repl` interleaves the reader (a key's effect under the box's
lock, then `after`: the send on the channel outside it), the main loop (one case
of its select at a time), and the turn (which takes the inbox, asks, waits for
the reply, ends). What is typed is known piece by piece, so that a property can
say where each piece is. The footer names the approvals, and the session between
turns only; `ahead`, a history variable, says that a round took a line between
its `Push` and its `Queue`, so that the dock lists one that went. `Line` is the
code's key loop as a function of the bytes read: `First` is one turn of it,
`Feed` all of them, `Reading` with what the reader has over from the last read
(`rest`) before them. Its bytes are symbols, each of its sort: `Final` are those
that end a CSI sequence, be it a key or not, and of the parameters the code
knows there are those that lead to keys of their own ("3", "5", "200", "201";
not 1, 4, 7 and 8, other names of Home and End). The only choice is the next
byte.

**Quote, Settings.** `Quote` has both directions character by character, as
whether they fit is the question. In `Settings` two credentials and two switches
stand for all settings (a credential can be a placeholder and can come from a
store; a switch has a default and can be changed at run time). A setup is as
many steps as it has writes, each file is first emptied; a start reads in the
order `Load` reads. What a load prefers is computed as the code computes it
(`Layered`, `NeedsStore`, `Plain`, `Filled`, `From`), and compared with a
reference definition of what the strongest layer says (`Strongest`).

**Shell.** `Run` is a plan (`todo`: start, priming, the command) of items that
are sent, and read line by line up to their mark; bash reads its input when it
gets to it, and the pipe is of bounded length. A timeout may come at any read, a
`Kill` at any moment in two steps (`KillLoad`, `KillSignal`). Commands are the
environment: they print, end with any status, leave a process behind, read the
line with their mark, or end the shell.

## 3. Runs

| run | states | what it shows |
|---|---|---|
| `turn` | 272 k | both budgets, nudges, stops, refusals, additions over two turns: `AnswerInformed`, `WithinBudget`, `ResultsInOrder`, `NothingForgotten`; refinement of `Exchange` (`ImplementsExchange`); `TurnEnds` |
| `runner` | 776 k | two turns, watchdogs, probes, Ctrl-C and outages in every interleaving: `TimeoutAuthoritative`, `InterruptionRecorded`, `LiveRunSpared`, `OutageEnds` |
| `keeper` | 929 k | two turns, two compactions, a crash anywhere: `ReadWhole`, `ReferencesResolve`, `RequestUpToDate`, `SentStands`, `CheckpointsStand` |
| `ask` | 1.3 M | retries, session drop, steers, stop, approvals, cancel, broken streams: `OneRun`, `AnswerIsTheRuns`, `StoppedIsStopped`, `AskEnds` |
| `hands` | 4.0 M | two batches of two calls in two nested directories, every mode, switched at any moment, a rules file changing at any moment, lost results and new sessions: `OperatorAllowed`, `RulesBeforeWrite`, `HeldOnce` |
| `store` | 2.5 M | two processes, one session, a fault, a crash anywhere, retention that passes, a server that forgets: `LogStands`, `IndexWhole`, `RecapWhenLost` |
| `server` | 175 k | six lines, two sessions, every request beside a turn that ends at any moment: `ClosedOnce`, `RanAsTold`, `EveryRequestServed` |
| `repl` | 965 k | three pieces typed, two questions, five /commands, over the box, the loop and the turn: `TypedIsKept`, `AnswerIsMeant`, `DockIsTrue`, `QuitEnds` |
| `line` | 19 k | every byte, cut into reads anywhere: `ReadsDoNotMatter`, `DraftComesBack` |
| `settings` | 1.5 M | two processes, each a setup or a start, dying and overlapping, with an edit, a move or a switch: `SetupTakesEffect`, `OperatorKept`, `InEffect` |
| `shell` | 615 k | two commands, two shells, a Kill: `AnswerIsItsOwn`, `OneAtATime`, `KillUnblocks` |

Some of them say less than their names, and the difference is in their
statements:

* `TurnEnds` excepts a turn of which one request, or one call, never comes back:
  `api/stream.go:72` sets no time limit on the stream, and an approval may wait
  for ever. It is about the rounds: no replies, nudges, stops, refusals or
  additions keep a turn going round after round.
* `LiveRunSpared` is about timeouts longer than `Every + ProbeTime`. A shorter one
  passes before the first probe can vouch for the run (`turn/watchdog.go:124`;
  `config/config.go:195` sets no lower bound), and a live run is then timed out.
* `ReferencesResolve` covers the conversation and the names in the results a
  request carries, which have to be whole in the history sent with it. It excepts
  a name that the request's own compaction elides (`ElidedSince`), which the code
  gets wrong: see `MCKeeperNamed.cfg` below.
* `DockIsTrue` asks that the dock lists just what waits for the turn, but for the
  one line a round took between its push and its listing: see `MCReplDock.cfg`.
* `DraftComesBack` is about every key that leads back down to the line left; Enter
  and Ctrl-C lead there too, and drop it (`repl/keys.go:205`, 237).
* `EveryRequestServed` excepts a turn that never comes back from Hermes or a call
  (`Away`).

Each property is stated, with the code it is about, beside its definition, and
has a mutant, two of them two: a plausible slip in a mapped definition, kept
next to it as `<Definition>_<Slip>`, that makes TLC find the property violated.
Four properties are conjunctions of named ones that a reader should look at one
by one: `WithinBudget` (rounds and calls), `NothingForgotten` (additions, the
note on the turn before, the operator's countdown, the capped envelope),
`ReadWhole` (every event once, the three readers agree, the latest turn whole)
and `SentStands` (a prefix stays, what was elided stays so); so are `LogStands`,
`DockIsTrue` and `OneAtATime`. `TypeOK` is no run's property but a theorem where
there is one.

### What is said and does not hold

One run, `runner_local_work`, states what a comment says of the code, and TLC
finds that the code does otherwise: local dispatch is not to count as the brain's
silence (`turn/runner.go:186`), but the run id is still set while the calls run,
so a long command or a waiting approval times the turn out.

More such properties are kept beside the module they are about, each with a
configuration that makes TLC print its counterexample (`tlc -config X.cfg M`).
The passing properties name the same cases as exceptions, so nothing rests on
them.

| configuration | what is said | what happens |
|---|---|---|
| `MCTurnAdded.cfg`: `AdditionsAlwaysAsked` | an addition is restated by every later round (`README.md:208`) | two stops in a row repeat the first one's message, without what was added in between |
| `MCRunnerCalls.cfg`: `NothingStartsCancelled` | Cancel "stops the running turn" | the calls left of the envelope start after it |
| `MCKeeperLost.cfg`: `NothingLeftOut` | what the history leaves out goes as the input (`compact/view.go:13`) | results left by an interrupted turn are in neither |
| `MCKeeperNamed.cfg`: `NamesResolve` | "[same output as #n - above]": the output a request's results name is above them, in what is sent (`session/log.go:63`) | the compaction made for that very request elides it, after the results were put together (`compact/compact.go:126`) |
| `MCAskStop.cfg`: `ProseIsNoAnswer` | prose is no answer after a stop (`api/stream.go:209`) | it is when the stream breaks and the poll answers |
| `MCHandsRules.cfg`: `RulesRead` | a write composed before Hermes saw the rules is held back (`README.md:343`) | not when the same batch brought along another file with the same text |
| `MCReplSetup.cfg`: `QueuedIsKept` | what is queued when a turn ends is the next turn's or put back into the input line (`repl/repl.go:266`) | a deferred /setup builds the app anew first, and the lines in the old one's inbox go with it |
| `MCReplDock.cfg`: `QueueIsExact` | the dock's queue is what the loop has not taken yet (`ui/ui.go:50`) | a round takes the line between `Push` and `Queue` (`repl/repl.go:186`), and it is listed all the same |
| `MCSettingsEnv.cfg`: `EnvironmentWins` | "environment variables always win" (`README.md:597`) | a credential of the plain secrets file goes over the environment's whenever the other one is missing |
| `MCShellKill.cfg`: `KillIsSafe` | Kill is "safe to call from a signal handler" (`shell/shell.go:90`) | between its two steps (92-95) the group may be reaped, and its number another's |

Met while modelling, without a property: the task frame says an envelope over
the budget is not run at all (`loop/budget.go:92`), while its first calls run;
Ctrl-C while the POST's reply is on its way leaves the new run at work
(`turn/runner.go:206`), and between turns it posts a stop for the last run
(`turn/runner.go:212`); a poll that gives up leaves its run at work
(`api/runs.go:224`); `setup --plaintext` beside a `secrets.enc` writes a file
that no load reads (`setup/setup.go:45`); the sandbox mode is "smart" by default
in one comment (`config/config.go:127`) and "steer" in the code (394); a Ctrl-C
meant for a turn that just ended may meet the next (`repl/repl.go:289`).

### Bounds, and why they are enough

* `turn`: two turns (a note and an inbox reach from one to the next), two rounds
  paid for by envelopes, three calls in all and two per envelope out of three (so
  each limit can be the first to cut), one nudge, two stops (the second is the one
  that repeats), two refits, one added text (identity of texts is all that is
  compared). The tiers need the last rounds only; `Budget` itself is exercised at
  every distance from its limits by these.
* `runner`: two turns and two runs (stale fires, stale ids and stale probes reach
  one turn further), an interval of one tick under a floor of two and a timeout of
  four, a tick for a probe's answer: the shortest in which a probe can save a
  turn, and the floor decides when; two calls (one at work, one left).
* `keeper`: two turns and nine events: enough for a compaction between turns and
  one inside a turn, with rounds before and after each, and for a crash; one
  output that may be elided and hashed, one too short for either. `Huge` (outputs
  that are cut) is empty in the run: a cut output differs in its form only.
* `ask`: one retry and one session drop (three POSTs), two kinds of mistake with
  one steer each (five in the code: the count is only compared), three frames,
  one poll interval.
* `hands`: two directories, one below the other (two files govern, the same text
  may be in both); one text the instructions carry and one they do not; two
  batches, as a file is handed out in this batch or in an earlier one; two calls
  each, as one brings rules along and the next is a write, or one sets the latch
  and the next meets it; one change.
* `store`: two processes are two at once or one after the other, which is what
  numbering, references and the record have to survive; four events are a turn
  with a call, or the log of one process and the start of the next one's; one
  fault beside any number of crashes; a retention of no ticks and one tick, so
  that pruning is possible exactly once time has passed.
* `server`: six lines are a turn, two appends, a switch, a new session and
  another turn; the second session is the one a text must not end up in.
* `repl`: three pieces are a text, the letter that answers (or was meant to), and
  a command or another text; a channel of one line, so that it can be full; a
  second question, as a letter meant for one can meet the next.
* `line`: the bytes are one of each sort, and both halves of each longer unit: a
  two-byte rune, the paste brackets, arrows, a CSI parameter, a byte that only
  ends a sequence, and Ctrl-C. Lines of two of two runes are kept (`Runes`,
  `MaxLine`), as cursor and completion need two; in `ReadsDoNotMatter` any two
  bytes are read from each state, without that bound.
* `settings`: two processes and two setups: the second meets what the first left
  half done, or both write at once; one edit, move or switch; the start's files
  and environment are three worlds that between them have nothing, an empty file,
  placeholders, a hand-written secrets file, and each layer set. Values are
  chosen to need every form of quoting. Processes are symmetric.
* `shell`: two commands and two shells: what the first leaves, or the first shell,
  meets the second; one line kept of an output, one in the pipe, so that both can
  be full; one Kill, at any moment.

`CHECK_DEADLOCK` is off everywhere: a session that has used its turns or batches,
a request that has returned, a process that ended, stop.

### Fairness

* `Turn`: the loop's own steps. Nothing is assumed of what it waits for: that a
  request or a call comes back, of Hermes' replies, or of the operator.
* `Runner`: the runner's steps (each is bounded by the shell's and the client's
  timeouts), the guard's, and time. Not the gateway's, not the operator's: an
  approval may wait for ever, and `OutageEnds` excepts it.
* `Ask`: the client goes on with what it has, an approval asked is answered, and
  a run that is at work and not waiting for an approval ends. `AskEnds` excepts a
  run whose approval's answer was lost on the way: then nobody ends the wait (the
  watchdog's probe finds the run alive), see the hazards.
* `Server`: the reader goes on with the line it has, and a turn goes to Hermes
  with what it was given, and what follows its end is done; that it ends (that
  Hermes, and every call, comes back) is not assumed. The client need not write.
* `Repl`: the three goroutines take their steps, and the operator presses Enter
  while a question is up. They need not type anything else. `QuitEnds` excepts
  `Stuck`, the two states in which the code waits for somebody who has gone.
* `Shell`: Run's steps (a read ends at the latest by its timeout) and a Kill's
  second step; nothing of bash. `Keeper`, `Hands`, `Store`, `Line`, `Settings`
  have safety properties only.

## 4. Theorems

All but three are of the form `Spec => []P` or `Spec => [][A]_vars`, for every
value of the constants allowed by the modules' named assumptions (`TurnAssumption`,
`BudgetAssumption`, `RunnerAssumption`, `KeeperAssumption`, `AskAssumption`,
`HandsAssumption`, `ServerAssumption`, `ShellAssumption`, `SettingsAssumption`,
`WorldsAssumption`, `SecretsAssumption`, `StoreAssumption`, `ReplAssumption`:
naturals, the types of a starting world, that a plain file says what its world
says it does, that what an operator types is a sequence, and names that are not
to be confused). Each inductive invariant is a conjunction of named parts
defined at the end of its component's module (or at the head of the proof
module).

* **TurnProofs.** `TypeCorrect`. `BudgetsHold` from `Counting` and `Batching`:
  every round beyond the first is paid for by exactly one of an envelope that
  ran, a nudge or a stop (`round = 1 + used + fixups + stops`), and an envelope
  that runs has calls of the budget set aside that it has not spent yet (`calls +
  Unspent <= MaxCalls`): the bounds alone are not inductive, as they do not say
  what paid for the rounds so far. `AnswersAreInformed` from `Informed`: what
  Hermes has not read of the turn's results is what the next message carries, and
  likewise `stopped` and `pending`, the two fields it may be put together from
  again. `LoopImplementsExchange`: under these, each action of the loop maps to
  one of `Exchange` or a stutter. `ResultsAreInOrder` from `Sequenced` and
  `Ordered`: the envelope's refs follow on one another up to `keep`, and so does
  every copy of a round's results - the next message, the one a stopped run
  answered, the one in flight, the ones unfitted. `NothingIsForgotten` from
  `Carrying` and `Counted`: between two replies the next message holds every
  addition and the note on the turn before, or, after a second stop, the message
  that is asked again does; and no copy's countdown is ahead of what was noted.
* **RunnerProofs.** `TypeCorrect`, `TimeoutIsAuthoritative`,
  `InterruptionIsRecorded` from `Settling`: once disarmed, what `disarm` read
  stands, since a goroutine that arms after the disarm finds the whole timeout
  ahead of it and the clock does not run any more; and a pressed turn keeps its
  context cancelled up to its footer. `LiveRunsAreSpared`, for every timeout,
  interval and floor, from `Sparing`: while the gateway works and the watchdog
  is `OnWatch`, either it has worked no longer than since the last probe, or
  that probe pushed the deadline to a whole timeout less the time since, and a
  deadline that is due is one of a timeout shorter than `Every + ProbeTime`, or
  the run worked no longer; a probe that asks about another run was launched
  before this one's first tick.
* **SessionProofs.** Of `Store`: `RecordsStayWhole` from `Alone` (a session that
  two processes do not share has one) and `TmpWhole` (what is about to be
  renamed is whole). `LogsStand` from `Fresh`, `CountedPast`, `ResultsRefer`,
  `OutputNext`: a process's counters are past its own events and, in a session
  that is not shared, past all of them; a number still to be read was given to
  nothing; the output a call stores is its own. `RecapsAreReadied` from
  `Recorded`: the record on disk, the one being written and the ones in the
  processes' memory say that a run was made wherever the log has an answer. Of
  `Keeper`: `CheckpointsAreNumbered`, `CheckpointsNeverRewritten` from
  `Checkpointed`: numbers named in the log are files and none is above the
  record's; the number a compaction takes is above both, wherever it dies.
  `ReadsStayWhole`, `ReferencesAlwaysResolve`, `RequestsAreUpToDate`,
  `WhatWasSentStands` from `Checkpointed` and `Going`: the log is numbered from
  1, goes turn by turn, puts a round behind its reply and gives every call a ref
  above those before it (`LogOf`); the compaction in effect bounds what came
  before it, lies below that log's latest turn, and its checkpoint is the
  transcript of just that log (`EffectOf`), and the one under way is so too and
  goes further (`UnderWay`); what was sent begins what is sent now while its
  checkpoint is in effect, and each part of it that was short is an event the
  compaction in effect still elides (`SentOf`); a round of the turn at work that
  no reply followed is in the next message or named by it (`Carried`).
  `ReferencesAlwaysResolve` needs `Naming` besides: what the results name has
  run, before a reply, and is the earliest copy of its output beyond what the
  compaction in effect elides, or was elided by one made since the last round
  (`NamedBy`); and a compaction elides whatever it collapses (`ReachOf`), so
  that such a copy is in the history as itself, in no gist. None of the four is
  inductive alone: the checkpoint is frozen while the log grows, so that it
  agrees with the log rendered anew holds only by what it was made of. The
  argument is about pieces: a transcript is the concatenation of one piece per
  event (`FlattenSeq`), a piece depends only on its event, the events of its
  turn before it and the outputs before it (`PieceIs`), and an event added
  behind changes no piece before it: what follows a compaction is rendered with
  nothing collapsed (`TranscriptMore`, `ReadsMore`), and the turns it collapsed
  have ended, so that rendered anew they keep their shape (`PreShape`,
  `RendersAlike`). Facts about all sequences come from `AllSequences` and
  `AllNaturals`: a set that holds the empty one and, with each, the next, holds
  all; so the induction is over sets, not operators.
* **AskProofs.** `TypeCorrect`; `MessageRunsOnce` from `Posting` (every POST, on
  its way or taken, bears the one key; each attempt paid for one POST, the session
  drop for one more); `AnswersAreTheRuns`, `StopsWereTaken`, `StoppedIsLeftAlone`
  from `Posting` and `Following` (what the client knows of its run is so; the text
  so far and the texts still in the stream are, one behind the other, what the
  run told).
* **HandsProofs.** `TypeCorrect`; `CallsAreAllowed` from `Consent` (the mode in
  effect is among those seen since the call came in, so each test the call passed
  leaves a witness there); `RulesComeFirst` from `Handing`: a text counted as
  handed out was read, was lost, or is carried by this batch's results, and what
  was handed out in an earlier batch is never only carried; `WritesAreHeldOnce`
  from `Holding`: all that governed a write held back is given, no later than its
  batch.
* **ServerProofs.** `TypeCorrect`, `TraceIsInSession`; `ClosedOnceHolds` from
  `Turning` (while no turn runs nothing waits for one) and `Closing`: the ids
  still to be closed - the request in hand, the turn's, the one its successor
  would borrow - differ from each other and from those closed. `RanAsToldHolds`
  from `Taking` (what waits was taken under the switches that still hold, for they
  change between turns only) and `Ordered` (with Hermes, in the turn, in the
  inbox, in hand: each text is older than those behind it).
* **ShellProofs.** `TypeCorrect`; `AnswersAreOwn` and `CommandsStayApart` from
  `Planned` (where Run is in its plan, and that the command comes last),
  `Untouched` (a shell has begun nothing that Run has not sent it), `Calm`,
  `Paired` (a command and the line with its mark reach bash one behind the
  other), `Piped` (what is in the pipe comes from this shell's items in their
  order, so that a mark read is that of the item at hand) and `Behind` (what is
  left behind lives in the group of the shell it was started by, which a reset
  kills whole). Of `Line`, `CutsDoNotMatter`: any bytes whatever, cut in two
  anywhere but between a CR and a LF, do what they do at once. A key that is
  complete stays the same key with more bytes behind it (`CsiStands`,
  `EscStands`, `RuneStands`, `FirstStands`), so that what follows it is fed to
  the same box either way (`KeyAlike`), and what is not complete waits
  (`WaitsAlike`); the rest is an induction over the number of bytes. That the
  loop's result is well defined, takes a byte at least with each key and leaves
  over nothing but the start of one is `FeedIs`, `FirstTakes` and `FeedWhole`.
  `ReadsNeverMatter` adds the CR LF that is not pasted, for which it needs what
  may wait in a reachable state (`LineInv`): behind half an escape sequence the
  CR ends it or waits with it, behind half a rune it is Enter (`BreakAlike`).
* **AppProofs.** `LosslessComesFirst`: for every window hermes-agent takes, the
  share at which this side compacts is reached before hermes-agent compacts, and
  lies between 1 and 95 percent. It is arithmetic with rounding (`div` of a sum,
  less a margin), reduced to linear facts about the quotient. `WhatHeWroteStays`
  from `FileKept`: what the operator set is in the file and in what any setup
  under way has read of it, so that an append by what was read adds no default
  for it. `SettingsAreTheLayers` from `ByLayers`: a program's startup values are
  those of the strongest layer by what it read, its switches differ from them
  only in the session that is open, and a /setup that finds another's file
  returns to just that (`FileStays` is needed for it: the file it had not found
  is there for good). `QuotedComesBack`: of every value but the empty one,
  whatever and however many its characters are, what `shellQuoteQ` writes
  `parseValue` reads back; a value is built up a character at a time, and
  whatever was read of the text so far, the next character's text adds just that
  character (`WrittenMore`, `BareWritten`, `AnsiWritten`). A character is one
  the model tells apart: two control characters stand for those written in hex,
  and a special one for the shell's others. `SetupsTakeEffect` rests on it and
  on `Effective`, which adds to the invariant above: while none crossed another,
  one setup at most is at the store and the seed on disk is its own (`Alone`); a
  store written undisturbed still says what was typed, and opens
  (`StoreStands`); and a start that is sure of it is on its way to it or has it
  (`OnItsWay`), as what it read of secrets.enc is what still lies there. Of
  `Repl`: `ReplTypeCorrect`; `AnswersAreMeant` from `Phased` (where the loop is
  and what it holds there) and `Meant` (a question is the running turn's, is
  answered once, and what is in its answer was typed after it came up);
  `DockStaysTrue` from `Refreshing` and `Showing` (where the dock is behind, the
  loop is about to redraw it, and its list is what waits for the turn, with what
  the loop is about to add or take off); `TypedStaysKept` from `AllKept`: each
  piece typed is counted in the seven places it may be, and the counts add up to
  one. What is queued is a concatenation of lines, whose counts are added by an
  induction over the set of its lengths (`AllNaturals`).

Only model-checked: everything under fairness (`TurnEnds`, `OutageEnds`,
`AskEnds`, `EveryRequestServed`, `QuitEnds`, `KillUnblocks`) - liveness and
ENABLED are out of the prover's reach; and `DraftComesBack` of `Line`. Induction
over data is done here without the library's induction theorems, which take an
operator as a parameter: a set of naturals, or of sequences, that holds the
first and with each the next is all of them (`AllNaturals`, `AllSequences`).

## 5. Not modelled

Listed with the reason in `PROJECT.json`: text (envelope parsing, redaction,
excerpts, titles, the instructions, listings), display (`ui` but for the dock's
footer and list, the preview, the box's layout), terminal modes, the setup
wizard's prompts and guidance import, one-shot commands, the mock gateway,
vendored code and scripts. Plan mode, attachments and images are left out of
`Turn`: they change a message's text. The meter's arithmetic is a choice in
`Keeper`; the bounds on numeric settings, and every setting resolved like the
four that are there, are left out of `Settings`. Cryptography is whether seed and
machine fit. The contents of files a call edits are not in `Hands`.

Assumed of the environment: bash reads its input in order and a signal to a group
reaches it, a rename is atomic, and the gateway's idempotency.

## 6. Plan

1. The record's save that fails unnoticed (`Store`) under `Keeper`'s counter.
2. Composition of `Ask` under `Runner` (one run at work per turn, also after a
   poll that gave up or a Ctrl-C before the id is known), and of `PendingNote`
   and `ResumeNote` over turns whose first request fails.
3. Pure algorithms against reference definitions: fitting a round's results, the
   meter's trigger, the excerpt.
