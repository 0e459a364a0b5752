------------------------------- MODULE Keeper -------------------------------
(***************************************************************************)
(* One session's context: the event log the turns write, the compactions   *)
(* internal/compact makes of it, the chat checkpoints they freeze, and     *)
(* what goes to Hermes with every request (loop/request.go).  The process  *)
(* may die between any two of a compaction's steps - checkpoint file,      *)
(* session record, event - and is started again on the same session.       *)
(*                                                                         *)
(* The meter's arithmetic is left out: whether a request is due for a      *)
(* compaction, refused for its size, or a compaction worth its while, may  *)
(* come out either way.  What a compaction then elides is exact.           *)
(***************************************************************************)
EXTENDS Transcript, FiniteSets

CONSTANTS MaxTurns,       \* bound: turns of the session
          MaxEvents,      \* bound: events of its log
          MaxCompactions, \* bound: checkpoints written
          MaxCrashes      \* bound: times the process dies

ASSUME KeeperAssumption ==
  /\ MaxTurns \in Nat /\ MaxEvents \in Nat /\ MaxCompactions \in Nat /\ MaxCrashes \in Nat
  /\ NoResult \notin Outputs

KeepRounds == 2
MaxRecover == 2

VARIABLES
  \* on disk
  events,      \* events.jsonl
  checkpoints, \* chat-checkpoints/NNNN.json by number: what it covers, its messages
  recorded,    \* session.json: its compactions
  \* the process
  compactions, \* Rec.Compactions
  turns,       \* Log.turn: those begun
  at,          \* "idle" | "ready" | "settled" | "asked" | "refused" | "calls"
  send,        \* the events t.send carries in full: the message, a round's results
  repeat,      \* the #ref the results name in place of an output Hermes has; 0: none
  pending,     \* the results can still be fitted tighter
  tries,       \* requests of this round refused for their size
  job,         \* the compaction under way
  crashes,
  \* history variable: the history the last request went with, and the
  \* checkpoint it opened with
  sent

context == <<compactions, checkpoints, recorded, job, crashes>>
request == <<send, repeat, pending, tries>>
kvars   == <<events, turns, at, request, context, sent>>

NoJob == [step |-> "none", event |-> Blank]

Quiet == job = NoJob

KInit ==
  /\ events = <<>> /\ checkpoints = <<>> /\ recorded = 0
  /\ compactions = 0 /\ turns = 0 /\ at = "idle"
  /\ send = {} /\ repeat = 0 /\ pending = FALSE /\ tries = 0
  /\ job = NoJob /\ crashes = 0
  /\ sent = [checkpoint |-> 0, parts |-> <<>>]

Room(n) == Len(events) + n <= MaxEvents

Event(kind, t) == [Blank EXCEPT !.kind = kind, !.turn = t]

(* AppendEvent: stamped with its number. *)
Stamped(evs, e) == Append(evs, [e EXCEPT !.seq = Len(evs) + 1])

-----------------------------------------------------------------------------
(* What Hermes reads: the latest checkpoint and what came after it, or - the
   file cannot be read - the log rendered again with the compaction's bounds. *)
Owned == LastCompact(events) # Blank

Checkpoint == checkpoints[LastCompact(events).checkpoint]

Current == Checkpoint.messages \o Transcript(After(events, Checkpoint.seq), Blank)

Rendered == Transcript(events, LastCompact(events))

History == IF Owned THEN WithoutInput(Current) ELSE <<>>

\* mutant of FirstVerbatim: an output elided since counts as verbatim
FirstVerbatim_Elided(evs, out) ==
  LET refs == {evs[i].ref : i \in {j \in DOMAIN evs : HasRun(evs[j]) /\ evs[j].out = out}}
  IN  IF out \notin Hashed \/ refs = {} THEN 0 ELSE First(refs)

(* The outputs Hermes has verbatim, as the loop believes: the earliest #ref. *)
FirstVerbatim(evs, out) ==
  LET refs == {evs[i].ref : i \in {j \in DOMAIN evs : /\ HasRun(evs[j]) /\ evs[j].out = out
                                                      /\ evs[j].seq > LastCompact(evs).upto}}
  IN  IF out \notin Hashed \/ refs = {} THEN 0 ELSE First(refs)

-----------------------------------------------------------------------------
(* Compact *)
ReplySeqs(evs) == {evs[i].seq : i \in {j \in DOMAIN evs : evs[j].kind = "reply"}}

(* keepFrom: everything before the latest replies. *)
KeepFrom(evs) ==
  LET kept == {s \in ReplySeqs(evs) : Cardinality({r \in ReplySeqs(evs) : r >= s}) = KeepRounds}
  IN  IF kept = {} THEN Len(evs) ELSE (CHOOSE s \in kept : TRUE) - 1

Larger(a, b) == IF a >= b THEN a ELSE b

AutoUpto(evs, prev) == Larger(prev.upto, KeepFrom(evs))

(* No compaction collapses the latest turn. *)
OldestKept(evs) == LatestTurn(evs) - 1

(* What a compaction may come to, by depth: whatever the transcript's size
   against its target.                                                      *)
Cuts(evs, prev, depth) ==
  LET all == {<<Len(evs), c>> : c \in {prev.collapse} \cup (prev.collapse..OldestKept(evs))}
  IN  CASE depth = "auto"       -> {<<AutoUpto(evs, prev), prev.collapse>>} \cup all
        [] depth = "now"        -> all
        [] depth = "aggressive" -> {<<Len(evs), Larger(prev.collapse, OldestKept(evs))>>}

(* Worth one: a call output, or a turn, more than the last one elided. *)
Elides(evs, prev, upto, collapse) ==
  \/ collapse > prev.collapse
  \/ \E i \in DOMAIN evs : /\ HasRun(evs[i]) /\ evs[i].out \in Hashed
                           /\ evs[i].seq > prev.upto /\ evs[i].seq <= upto

Compactable(depth) ==
  IF LatestTurn(events) = 0 THEN {}
  ELSE {c \in Cuts(events, LastCompact(events), depth) : Elides(events, LastCompact(events), c[1], c[2])}

\* mutant of Covers: what is left whole is not covered
Covers_Upto(evs, upto) == upto

Covers(evs, upto) == Len(evs)

(* The checkpoint's file is written first; the record and the event follow. *)
Compact(depth) ==
  /\ Quiet /\ compactions < MaxCompactions /\ Room(1)
  /\ \E c \in Compactable(depth) :
       LET n  == compactions + 1
           ev == [Event("compact", turns) EXCEPT !.upto = c[1], !.collapse = c[2], !.checkpoint = n]
           cp == [seq |-> Covers(events, c[1]), messages |-> Transcript(events, ev)]
       IN  /\ checkpoints' = [m \in DOMAIN checkpoints \cup {n} |-> IF m = n THEN cp ELSE checkpoints[m]]
           /\ job' = [step |-> "save", event |-> ev]
  /\ UNCHANGED <<events, turns, at, request, compactions, recorded, crashes, sent>>

\* mutant of Saved: only the next run's BumpTurn writes it
Saved_Later == recorded

Saved == job.event.checkpoint

SaveRecord ==
  /\ job.step = "save"
  /\ compactions' = job.event.checkpoint /\ recorded' = Saved
  /\ job' = [job EXCEPT !.step = "note"]
  /\ UNCHANGED <<events, turns, at, request, checkpoints, crashes, sent>>

(* The caller appends the event; a request goes on with the new history. *)
NoteCompaction ==
  /\ job.step = "note"
  /\ events' = Stamped(events, job.event)
  /\ job' = NoJob
  /\ at' = IF at = "idle" THEN "idle" ELSE "settled"
  /\ UNCHANGED <<turns, request, checkpoints, recorded, compactions, crashes, sent>>

(* /compact, /compact-aggressive and rpc compact run between turns. *)
CompactAsked == at = "idle" /\ \E depth \in {"now", "aggressive"} : Compact(depth)

CompactDue == at = "ready" /\ Compact("auto")

-----------------------------------------------------------------------------
(* A turn *)
StartTurn ==
  /\ at = "idle" /\ Quiet /\ turns < MaxTurns /\ Room(1)
  /\ turns' = turns + 1 /\ at' = "ready"
  /\ events' = Stamped(events, Event("user", turns + 1))
  /\ send' = {Len(events) + 1} /\ repeat' = 0 /\ pending' = FALSE /\ tries' = 0
  /\ UNCHANGED <<context, sent>>

(* takeAdded, at the head of the request. *)
TakeAdded ==
  /\ at = "ready" /\ Quiet /\ Room(1)
  /\ events' = Stamped(events, Event("added", turns))
  /\ send' = send \cup {Len(events) + 1}
  /\ UNCHANGED <<turns, at, repeat, pending, tries, context, sent>>

(* The run is submitted, History and t.send with it. *)
Ask ==
  /\ at \in {"ready", "settled"} /\ Quiet
  /\ at' = "asked"
  /\ sent' = [checkpoint |-> LastCompact(events).checkpoint, parts |-> History]
  /\ UNCHANGED <<events, turns, request, context>>

(* Hermes' reply is recorded, the record written (BumpTurn). *)
Replies(then) ==
  /\ at = "asked" /\ at' = then
  /\ recorded' = compactions
  /\ UNCHANGED <<turns, checkpoints, compactions, job, crashes, sent>>

Calls == Room(2) /\ Replies("calls") /\ events' = Stamped(events, Event("reply", turns)) /\ UNCHANGED request

(* The answer, or one envelope too many that cannot be used. *)
FinalAnswer ==
  /\ Room(2) /\ Replies("idle") /\ UNCHANGED request
  /\ \E ok \in BOOLEAN :
       events' = Stamped(Stamped(events, Event("reply", turns)), [Event("answer", turns) EXCEPT !.ok = ok])

(* An envelope that cannot be used: asked for again. *)
Nudge ==
  /\ Room(1) /\ Replies("ready")
  /\ events' = Stamped(events, Event("reply", turns))
  /\ send' = {} /\ repeat' = 0 /\ pending' = FALSE /\ tries' = 0

(* A run stopped on Hermes: no reply, the same message again. *)
AskAgain ==
  /\ Replies("ready") /\ tries' = 0
  /\ UNCHANGED <<events, send, repeat, pending, sent>>

(* The round's call runs, its result is logged, deduped and handed back. *)
Round(out) ==
  [Event("round", turns) EXCEPT !.ref = LatestRef(events) + 1, !.out = out]

RunCalls ==
  /\ at = "calls" /\ Room(1)
  /\ \E out \in Outputs :
       LET evs == Stamped(events, Round(out))
           ref == FirstVerbatim(evs, out)
           dup == ref # 0 /\ ref < LatestRef(evs)
       IN  /\ events' = evs
           /\ send' = IF dup THEN {} ELSE {Len(evs)}
           /\ repeat' = IF dup THEN ref ELSE 0
  /\ pending' = TRUE /\ tries' = 0 /\ at' = "ready"
  /\ UNCHANGED <<turns, context, sent>>

-----------------------------------------------------------------------------
(* The turn ends without a reply's answer. *)
Ends(evs) ==
  /\ at' = "idle" /\ events' = evs
  /\ UNCHANGED <<turns, request, context, sent>>

StoppedAnswer(ok) == [Event("answer", turns) EXCEPT !.ok = ok]

(* The operator quits at the approval; the budget is spent. *)
QuitTurn ==
  /\ at = "calls" /\ Room(2)
  /\ \E out \in Short : Ends(Stamped(Stamped(events, Round(out)), StoppedAnswer(TRUE)))

Capped == at = "calls" /\ Room(1) /\ Ends(Stamped(events, StoppedAnswer(TRUE)))

Blocked == at = "asked" /\ Room(1) /\ Ends(Stamped(events, StoppedAnswer(FALSE)))

(* Ctrl-C, a timeout: nothing of the answer is logged. *)
Interrupted == at \in {"ready", "settled", "asked"} /\ Quiet /\ Ends(events)

-----------------------------------------------------------------------------
(* A request refused for its size: recover. *)
Refused ==
  /\ at = "asked" /\ tries < MaxRecover
  /\ tries' = tries + 1 /\ at' = "refused"
  /\ UNCHANGED <<events, turns, send, repeat, pending, context, sent>>

RecoverCompact == at = "refused" /\ tries = 1 /\ Compact("aggressive")

RecoverRefit ==
  /\ at = "refused" /\ Quiet /\ pending
  /\ tries = 1 => Compactable("aggressive") = {}
  /\ pending' = FALSE /\ at' = "settled"
  /\ UNCHANGED <<events, turns, send, repeat, tries, context, sent>>

GiveUp ==
  /\ at = "refused" /\ Quiet /\ ~pending /\ Room(1)
  /\ tries = 1 => Compactable("aggressive") = {}
  /\ Ends(Stamped(events, StoppedAnswer(FALSE)))

-----------------------------------------------------------------------------
(* The process dies, a call of it perhaps without its result, and opens the
   session again.                                                           *)
Dies ==
  /\ crashes < MaxCrashes /\ turns > 0
  /\ crashes' = crashes + 1
  /\ events' \in {events} \cup IF at = "calls" THEN {Stamped(events, Round(NoResult))} ELSE {}
  /\ turns' = LatestTurn(events) /\ compactions' = recorded
  /\ at' = "idle" /\ job' = NoJob
  /\ send' = {} /\ repeat' = 0 /\ pending' = FALSE /\ tries' = 0
  /\ UNCHANGED <<checkpoints, recorded, sent>>

Turning == StartTurn \/ TakeAdded \/ Ask \/ Calls \/ FinalAnswer \/ Nudge \/ AskAgain \/ RunCalls
Ending  == QuitTurn \/ Capped \/ Blocked \/ Interrupted
Compacting == CompactAsked \/ CompactDue \/ SaveRecord \/ NoteCompaction
Recovering == Refused \/ RecoverCompact \/ RecoverRefit \/ GiveUp

KNext == Turning \/ Ending \/ Compacting \/ Recovering \/ Dies

KSpec == KInit /\ [][KNext]_kvars

-----------------------------------------------------------------------------
(* Properties *)
EventKinds == {"user", "added", "reply", "round", "answer", "compact"}

Logged(e, i) ==
  /\ e.seq = i /\ e.kind \in EventKinds /\ e.turn \in 1..MaxTurns
  /\ e.upto \in 0..i /\ e.collapse \in 0..MaxTurns /\ e.checkpoint \in 0..MaxCompactions
  /\ e.ref \in 0..i /\ e.out \in Outputs \cup {NoResult} /\ e.ok \in BOOLEAN

KTypeOK ==
  /\ \A i \in DOMAIN events : Logged(events[i], i)
  /\ Len(events) <= MaxEvents
  /\ DOMAIN checkpoints \subseteq 1..MaxCompactions
  /\ compactions \in 0..MaxCompactions /\ recorded \in 0..MaxCompactions
  /\ turns \in 0..MaxTurns /\ crashes \in 0..MaxCrashes
  /\ at \in {"idle", "ready", "settled", "asked", "refused", "calls"}
  /\ send \subseteq DOMAIN events /\ repeat \in 0..MaxEvents
  /\ pending \in BOOLEAN /\ tries \in 0..MaxRecover
  /\ job.step \in {"none", "save", "note"}
  /\ sent.checkpoint \in 0..MaxCompactions /\ \A i \in DOMAIN sent.parts : sent.parts[i].seq \in DOMAIN events

(* Where a conversation carries an event: itself, or the gist of its turn. *)
At(parts, e) ==
  {i \in DOMAIN parts : parts[i].seq = e.seq \/ (parts[i].form = "gist" /\ parts[i].of = e.turn)}

InConversation(e) == e.kind \in {"user", "added", "reply", "round"}

Told == {i \in DOMAIN events : InConversation(events[i])}

(* checkpoint.go: "the latest checkpoint plus every event after Seq".  Once the
   session is compacted, what Hermes reads carries every message, reply and
   result of the log, exactly once - across checkpoints, crashes between a
   compaction's steps, and a compaction in the middle of a turn.            *)
ReadOnce ==
  Owned => LET parts == Current IN
    \A i \in Told : LET here == At(parts, events[i]) IN
      /\ here # {}
      /\ Cardinality(here) = 1 \/ events[i].turn <= LastCompact(events).collapse

(* A checkpoint that cannot be read loses nothing: the log rendered again with
   the compaction's bounds is the same conversation, short where it was short;
   a repeat may be a reference in one and go whole in the other.            *)
Shape(parts) ==
  [i \in DOMAIN parts |-> <<parts[i].seq, parts[i].role, parts[i].form \in {"line", "gist"}>>]

RenderedAgrees == Owned => Shape(Rendered) = Shape(Current)

(* README: "never the latest turn".  The turn Hermes works in is never sent as
   question and answer.                                                     *)
LatestTurnWhole ==
  Owned => LET parts == Current IN
    \A i \in DOMAIN parts : parts[i].form = "gist" => parts[i].of < LatestTurn(events)

(* Nothing of the log is missing from what Hermes reads of it, read from a
   checkpoint or rendered, and the turn at work is there in full.           *)
ReadWhole == ReadOnce /\ RenderedAgrees /\ LatestTurnWhole

(* The first n parts have the output of #ref, whole or fitted. *)
Gives(parts, n, name) ==
  \E j \in 1..n : events[parts[j].seq].ref = name /\ parts[j].form \in {"full", "cut"}

(* The request's own compaction, made after its results named #ref, elides it. *)
ElidedSince(name) ==
  /\ \A r \in DOMAIN events : events[r].kind = "round" => r < LastCompact(events).seq
  /\ \E i \in DOMAIN events : events[i].ref = name /\ events[i].seq <= LastCompact(events).upto

(* transcript.go, log.go: "[same output as #n - above]".  A repeat goes as a
   reference only where the output it names goes before it, and not as a line:
   in the conversation Hermes reads, and from the results a request carries
   into the history sent with it - unless the request's own compaction elides
   what they name (compact.go), however it came to be made.                 *)
ReferencesResolve ==
  Owned =>
    /\ \A i \in DOMAIN Current :
         Current[i].form = "same" => Gives(Current, i - 1, Current[i].of)
    /\ at = "asked" /\ repeat # 0 => Gives(History, Len(History), repeat) \/ ElidedSince(repeat)

(* The same without that exception. *)
NamesResolve == at = "asked" /\ Owned /\ repeat # 0 => Gives(History, Len(History), repeat)

(* What the request at hand carries: its history and its input, where the
   operator's message is restated every round.                              *)
Requested ==
  LET parts == History IN
  {i \in Told : \/ At(parts, events[i]) # {}
                \/ i \in send
                \/ events[i].turn = turns /\ events[i].kind \in {"user", "added"}
                \/ repeat # 0 /\ events[i].kind = "round" /\ events[i].ref = LatestRef(events)}

(* Everything up to Hermes' last reply, and everything of the turn at work, is
   in the request.                                                          *)
RequestUpToDate ==
  at = "asked" /\ Owned =>
    {i \in Told : events[i].turn = turns \/ \E r \in ReplySeqs(events) : i <= r} \subseteq Requested

(* checkpoint.go: "a frozen prefix: a later version's rendering never changes
   it, and prompt caches keep it".  Up to the next compaction what a request
   sent is only ever added to.                                              *)
PrefixFrozen ==
  Owned /\ sent.checkpoint = LastCompact(events).checkpoint => IsPrefix(sent.parts, History)

(* What Hermes was sent short no later compaction brings back whole: it was
   told not to count on it, and the prompt would grow again.                *)
ShortIn(parts) == {parts[i].seq : i \in {j \in DOMAIN parts : parts[j].form = "line"}}
WholeIn(parts) == {parts[i].seq : i \in {j \in DOMAIN parts : parts[j].form \in {"full", "cut", "same"}}}

ElidedStays == Owned => ShortIn(sent.parts) \cap WholeIn(Current) = {}

(* A later request neither changes nor lengthens what an earlier one sent. *)
SentStands == PrefixFrozen /\ ElidedStays

(* Once an event names a checkpoint the file is never written again, whenever
   the process died in between.                                             *)
CheckpointsStand ==
  [][\A i \in DOMAIN events : events[i].kind = "compact"
       => checkpoints'[events[i].checkpoint] = checkpoints[events[i].checkpoint]]_kvars

(* view.go, History: "The operator's message or the results the loop is about
   to send are already in the log; they go as the run's input, so a trailing
   user message is left out here".  What is left out goes as the input.     *)
NothingLeftOut == at = "asked" /\ Owned => Told \subseteq Requested
=============================================================================
