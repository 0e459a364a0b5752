-------------------------------- MODULE Ask --------------------------------
(***************************************************************************)
(* One request to Hermes (internal/api): POST /v1/runs under one           *)
(* idempotency key, retried and once sent again without the session; then  *)
(* the run's event stream, each frame handled before the next is read - a  *)
(* tool call of Hermes' own is steered or stopped, an approval answered -; *)
(* and the poll, when there is no stream or it became unusable.            *)
(*                                                                         *)
(* The gateway is the environment.  It runs a key once, works on a run     *)
(* until it ends it, waits where it asked for an approval, and any request *)
(* or reply of a connection may be late or lost.                           *)
(***************************************************************************)
EXTENDS Integers, Sequences

CONSTANTS Kinds,          \* the kinds of mistake a steer is counted under (guard.Verdict.Kind)
          Retries,        \* HERMES_API_RETRIES
          steersPerKind,  \* steers a run gets for one kind
          MaxPolls,       \* RunTimeout in poll intervals
          MaxFrames       \* bound: tool calls and approvals of one run

ASSUME AskAssumption ==
  /\ Retries \in Nat /\ steersPerKind \in Nat /\ MaxPolls \in Nat /\ MaxFrames \in Nat
  /\ "fine" \notin Kinds

(* What a text is to the client: an envelope ("calls" is in it), other words,
   nothing but white space, or nothing.                                     *)
Outputs == {"envelope", "prose", "blank", "empty"}
Pieces  == Outputs \ {"empty"}

VARIABLES
  \* the client
  pc,        \* "idle" | "submit" | "posted" | "connect" | "reading" |
             \* "steer" | "stop" | "approval" | "polling" | "returned"
  key,       \* Idempotency-Key of the POST sent last
  posts,     \* POSTs sent
  attempt,   \* the POST attempt
  dropped,   \* dropSess
  steered,   \* runStream.steered
  mistake,   \* the kind of the tool call being handled
  stopping,  \* runStream.stopping # ""
  text,      \* runStream.answer: the pieces the stream brought
  waited,    \* polls waited
  cancelled, \* ctx.Err() # nil
  result,    \* what Ask returns
  \* the gateway
  sent,      \* POSTs on their way to it
  runs,      \* the runs it started
  frames,    \* frames the run may still have, but its last
  stream,    \* events the client has not read
  \* history variables, read by no action
  redirects, \* steer and stop requests sent
  unanswered \* an approval's answer did not reach the gateway

client  == <<pc, key, posts, attempt, dropped, steered, mistake, stopping, text, waited, cancelled,
             result>>
gateway == <<sent, runs, frames, stream>>
history == <<redirects, unanswered>>
vars    == <<client, gateway, history>>

NoResult == [state |-> "none", output |-> "empty", text |-> <<>>, threaded |-> FALSE]
Error    == [NoResult EXCEPT !.state = "error"]

Tool(kind) == [event |-> "tool", kind |-> kind, output |-> "empty"]
Delta(p)   == [event |-> "delta", kind |-> "fine", output |-> p]
Approval   == [event |-> "approval", kind |-> "fine", output |-> "empty"]
Ended(run) == [event |-> run.status, kind |-> "fine", output |-> run.output]

AtWork(status) == status \in {"running", "waiting", "stopping"}

-----------------------------------------------------------------------------
Init ==
  /\ pc = "idle" /\ key = 0 /\ posts = 0 /\ attempt = 1 /\ dropped = FALSE
  /\ steered = [k \in Kinds |-> 0] /\ mistake = "fine" /\ stopping = FALSE /\ text = <<>>
  /\ waited = 0 /\ cancelled = FALSE /\ result = NoResult
  /\ sent = {} /\ runs = <<>> /\ frames = MaxFrames /\ stream = <<>>
  /\ redirects = 0 /\ unanswered = FALSE

Return(res) == pc' = "returned" /\ result' = res

-----------------------------------------------------------------------------
(* submitRun.  The key is minted before the first attempt. *)
Start ==
  /\ pc = "idle"
  /\ pc' = "submit" /\ key' = 1
  /\ UNCHANGED <<posts, attempt, dropped, steered, mistake, stopping, text, waited, cancelled, result,
                 gateway, history>>

\* mutant of Key: minted for each POST
Key_Fresh == key + posts

Key == key

Submit ==
  /\ pc = "submit" /\ ~cancelled
  /\ posts' = posts + 1
  /\ sent' = sent \cup {[n |-> posts', key |-> Key, session |-> ~dropped]}
  /\ pc' = "posted"
  /\ UNCHANGED <<key, attempt, dropped, steered, mistake, stopping, text, waited, cancelled, result,
                 runs, frames, stream, history>>

(* The gateway takes a POST: a key it knows is the run it has, another starts
   one.  Its reply reaches the client, or the client stopped waiting for it. *)
Known(p) == \E i \in 1..Len(runs) : runs[i].key = p.key

Take(p, heard) ==
  /\ p \in sent
  /\ sent' = sent \ {p}
  /\ runs' = IF Known(p) THEN runs
             ELSE Append(runs, [key |-> p.key, session |-> p.session, status |-> "running",
                                told |-> <<>>, output |-> "empty", stopped |-> FALSE])
  /\ IF heard THEN pc = "posted" /\ p.n = posts /\ ~cancelled /\ pc' = "connect"
              ELSE UNCHANGED pc
  /\ UNCHANGED <<key, posts, attempt, dropped, steered, mistake, stopping, text, waited, cancelled,
                 result, frames, stream, history>>

(* 400, 404, 422: the first time, sent again at once without the session. *)
\* mutant of MayDrop: every time, not once
MayDrop_Always == TRUE

MayDrop == ~dropped

Reject ==
  /\ pc = "posted" /\ ~cancelled
  /\ \E p \in sent : p.n = posts /\ sent' = sent \ {p}
  /\ IF MayDrop THEN pc' = "submit" /\ dropped' = TRUE /\ UNCHANGED result
                ELSE Return(Error) /\ UNCHANGED dropped
  /\ UNCHANGED <<key, posts, attempt, steered, mistake, stopping, text, waited, cancelled,
                 runs, frames, stream, history>>

(* 401, 403, a 2xx without a run id: no other attempt. *)
Refuse ==
  /\ pc = "posted"
  /\ Return(Error)
  /\ UNCHANGED <<key, posts, attempt, dropped, steered, mistake, stopping, text, waited, cancelled,
                 gateway, history>>

(* No answer, or one to try again after: the POST may be lost or still on its
   way.                                                                     *)
Unreachable ==
  /\ pc = "posted"
  /\ \/ UNCHANGED sent
     \/ \E p \in sent : p.n = posts /\ sent' = sent \ {p}
  /\ IF attempt > Retries
     THEN Return(Error) /\ UNCHANGED attempt
     ELSE pc' = "submit" /\ attempt' = attempt + 1 /\ UNCHANGED result
  /\ UNCHANGED <<key, posts, dropped, steered, mistake, stopping, text, waited, cancelled,
                 runs, frames, stream, history>>

-----------------------------------------------------------------------------
(* The run the client follows. *)
Mine == runs[1]
MineIs(run) == runs' = [runs EXCEPT ![1] = run]
HasRun == runs # <<>>
Halted(run) == [run EXCEPT !.status = IF AtWork(@) THEN "stopping" ELSE @]

(* The gateway works on it: a piece of its text, a tool call of Hermes' own, with
   what the guard makes of it, or an approval it then waits for.            *)
RunWorks ==
  /\ HasRun /\ Mine.status = "running" /\ frames > 0
  /\ frames' = frames - 1
  /\ \/ \E p \in Pieces : /\ stream' = Append(stream, Delta(p))
                         /\ MineIs([Mine EXCEPT !.told = Append(@, p)])
     \/ \E k \in Kinds \cup {"fine"} : stream' = Append(stream, Tool(k)) /\ UNCHANGED runs
     \/ stream' = Append(stream, Approval) /\ MineIs([Mine EXCEPT !.status = "waiting"])
  /\ UNCHANGED <<client, sent, history>>

(* It ends; a stop may come too late to keep it from completing. *)
RunEnds ==
  /\ HasRun /\ Mine.status \in {"running", "stopping"}
  /\ \/ \E out \in Outputs : MineIs([Mine EXCEPT !.status = "completed", !.output = out])
     \/ MineIs([Mine EXCEPT !.status = "failed"])
  /\ stream' = Append(stream, Ended(Mine)')
  /\ UNCHANGED <<client, sent, frames, history>>

-----------------------------------------------------------------------------
(* awaitRun: the stream, if it is wanted and there is one, else the poll. *)
Connect(usable) ==
  /\ pc = "connect"
  /\ pc' = IF usable THEN "reading" ELSE "polling"
  /\ UNCHANGED <<key, posts, attempt, dropped, steered, mistake, stopping, text, waited, cancelled,
                 result, gateway, history>>

(* frame, message.delta: shown, and kept. *)
ReadDelta ==
  /\ pc = "reading" /\ stream # <<>> /\ Head(stream).event = "delta"
  /\ text' = Append(text, Head(stream).output)
  /\ stream' = Tail(stream)
  /\ UNCHANGED <<pc, key, posts, attempt, dropped, steered, mistake, stopping, waited, cancelled,
                 result, sent, runs, frames, history>>

(* frame, tool.started: once the run is stopped the rest is only waited out. *)
Handles(kind) == kind # "fine" /\ ~stopping

Steerable(kind) == steered[kind] < steersPerKind

ReadTool ==
  /\ pc = "reading" /\ stream # <<>> /\ Head(stream).event = "tool"
  /\ stream' = Tail(stream)
  /\ LET kind == Head(stream).kind
     IN  IF Handles(kind)
         THEN /\ mistake' = kind
              /\ pc' = IF Steerable(kind) THEN "steer" ELSE "stop"
         ELSE UNCHANGED <<pc, mistake>>
  /\ UNCHANGED <<key, posts, attempt, dropped, steered, stopping, text, waited, cancelled, result,
                 sent, runs, frames, history>>

(* hermesTool: a steer that is refused is followed by the stop. *)
Steer(accepted) ==
  /\ pc = "steer"
  /\ accepted => ~cancelled /\ Mine.status = "running"
  /\ redirects' = redirects + 1
  /\ IF accepted THEN steered' = [steered EXCEPT ![mistake] = @ + 1] /\ pc' = "reading"
                 ELSE UNCHANGED steered /\ pc' = "stop"
  /\ UNCHANGED <<key, posts, attempt, dropped, mistake, stopping, text, waited, cancelled, result,
                 gateway, unanswered>>

\* mutant of StopTaken: set whatever the server said
StopTaken_Always(accepted) == TRUE

StopTaken(accepted) == accepted

StopRun(accepted) ==
  /\ pc = "stop"
  /\ accepted => ~cancelled
  /\ redirects' = redirects + 1
  /\ stopping' = StopTaken(accepted)
  /\ IF accepted
     THEN MineIs([Halted(Mine) EXCEPT !.stopped = TRUE])
     ELSE UNCHANGED runs
  /\ pc' = "reading"
  /\ UNCHANGED <<key, posts, attempt, dropped, steered, mistake, text, waited, cancelled, result,
                 sent, frames, stream, unanswered>>

(* serverApproval: the operator is asked, the answer sent. *)
ReadApproval ==
  /\ pc = "reading" /\ stream # <<>> /\ Head(stream).event = "approval"
  /\ stream' = Tail(stream)
  /\ pc' = "approval"
  /\ UNCHANGED <<key, posts, attempt, dropped, steered, mistake, stopping, text, waited, cancelled,
                 result, sent, runs, frames, history>>

\* mutant of Released: no answer is sent
Released_Never(run) == run

Released(run) == [run EXCEPT !.status = IF @ = "waiting" THEN "running" ELSE @]

AnswerApproval(reached) ==
  /\ pc = "approval"
  /\ reached => ~cancelled
  /\ IF reached THEN MineIs(Released(Mine)) /\ UNCHANGED unanswered
                ELSE UNCHANGED runs /\ unanswered' = TRUE
  /\ pc' = "reading"
  /\ UNCHANGED <<key, posts, attempt, dropped, steered, mistake, stopping, text, waited, cancelled,
                 result, sent, frames, stream, redirects>>

(* frame, the last one: the run's output or, where it sent none, the text so
   far.  After the stop only an envelope is an answer.                      *)
Completed(output, said) ==
  [state |-> "completed", output |-> output, text |-> said, threaded |-> ~dropped]
Stopped == [NoResult EXCEPT !.state = "stopped", !.threaded = ~dropped]

Has(what)  == \E i \in DOMAIN text : text[i] = what
TextIs == IF Has("envelope") THEN "envelope" ELSE IF Has("prose") THEN "prose" ELSE "blank"

ReadEnd ==
  /\ pc = "reading" /\ stream # <<>> /\ Head(stream).event \in {"completed", "failed"}
  /\ stream' = Tail(stream)
  /\ LET output == Head(stream).output
         said   == IF output = "empty" THEN text ELSE <<>>
         out    == IF output = "empty" THEN TextIs ELSE output
         usable == Head(stream).event = "completed" /\ out # "blank"
     IN  \/ usable /\ (stopping => out = "envelope") /\ Return(Completed(output, said))
         \/ stopping /\ ~(usable /\ out = "envelope") /\ Return(Stopped)
         \/ ~stopping /\ ~usable /\ pc' = "polling" /\ UNCHANGED result
  /\ UNCHANGED <<key, posts, attempt, dropped, steered, mistake, stopping, text, waited, cancelled,
                 sent, runs, frames, history>>

(* The stream ended early: of a stopped run that is its end. *)
\* mutant of EndedEarly: the text so far is taken for the answer
EndedEarly_Answer ==
  IF text # <<>> THEN Return(Completed("empty", text)) ELSE pc' = "polling" /\ UNCHANGED result

EndedEarly == IF stopping THEN Return(Stopped) ELSE pc' = "polling" /\ UNCHANGED result

StreamEnds ==
  /\ pc = "reading"
  /\ EndedEarly
  /\ stream' = <<>>
  /\ UNCHANGED <<key, posts, attempt, dropped, steered, mistake, stopping, text, waited, cancelled,
                 sent, runs, frames, history>>

(* It broke: the poll, whatever the stream was at. *)
StreamBreaks ==
  /\ pc = "reading"
  /\ pc' = "polling" /\ stream' = <<>>
  /\ UNCHANGED <<key, posts, attempt, dropped, steered, mistake, stopping, text, waited, cancelled,
                 result, sent, runs, frames, history>>

-----------------------------------------------------------------------------
(* pollRun: the status decides, with the run's output - it knows no text, and of
   white space it refuses spaces only.  Without a status, or with one that is
   not the last, it waits - RunTimeout at most.                             *)
PollEnds ==
  /\ pc = "polling" /\ ~cancelled /\ ~AtWork(Mine.status)
  /\ \/ Mine.status = "completed" /\ Mine.output # "empty" /\ Return(Completed(Mine.output, <<>>))
     \/ (Mine.status = "completed" => Mine.output \in {"blank", "empty"}) /\ Return(Error)
  /\ UNCHANGED <<key, posts, attempt, dropped, steered, mistake, stopping, text, waited, cancelled,
                 gateway, history>>

PollWaits ==
  /\ pc = "polling"
  /\ IF waited >= MaxPolls THEN Return(Error) /\ UNCHANGED waited
                           ELSE waited' = waited + 1 /\ UNCHANGED <<pc, result>>
  /\ UNCHANGED <<key, posts, attempt, dropped, steered, mistake, stopping, text, cancelled,
                 gateway, history>>

-----------------------------------------------------------------------------
(* The turn's context is cancelled, by the operator or the watchdog, at any
   time; whoever cancels also asks the gateway to stop the run.             *)
Cancel ==
  /\ pc \notin {"idle", "returned"} /\ ~cancelled
  /\ cancelled' = TRUE
  /\ IF HasRun /\ pc \notin {"submit", "posted"} THEN MineIs(Halted(Mine)) ELSE UNCHANGED runs
  /\ UNCHANGED <<pc, key, posts, attempt, dropped, steered, mistake, stopping, text, waited, result,
                 sent, frames, stream, history>>

(* Every wait but the operator's ends with the context. *)
Abort ==
  /\ cancelled /\ pc \in {"submit", "posted", "connect", "reading", "polling"}
  /\ Return(Error)
  /\ UNCHANGED <<key, posts, attempt, dropped, steered, mistake, stopping, text, waited, cancelled,
                 gateway, history>>

-----------------------------------------------------------------------------
(* A POST comes back one way or another: the client bounds the wait. *)
PostReturns == (\E p \in sent : Take(p, TRUE)) \/ Reject \/ Refuse \/ Unreachable

ClientStep ==
  \/ Start \/ Submit \/ PostReturns
  \/ \E usable \in BOOLEAN : Connect(usable)
  \/ ReadDelta \/ ReadTool \/ ReadApproval \/ ReadEnd
  \/ \E accepted \in BOOLEAN : Steer(accepted) \/ StopRun(accepted)
  \/ \E reached \in BOOLEAN : AnswerApproval(reached)
  \/ PollEnds \/ PollWaits
  \/ Abort

Next ==
  \/ ClientStep
  \/ \E p \in sent : Take(p, FALSE)
  \/ RunWorks \/ RunEnds
  \/ StreamEnds \/ StreamBreaks
  \/ Cancel

Spec == Init /\ [][Next]_vars

(* The client goes on with what it has, the operator answers what is asked,
   and Hermes ends the runs it works on.                                    *)
FairSpec == Spec /\ WF_vars(ClientStep) /\ WF_vars(RunEnds)

-----------------------------------------------------------------------------
(* Properties *)

Results == [state : {"none", "completed", "stopped", "error"}, output : Outputs, text : Seq(Pieces),
            threaded : BOOLEAN]
Statuses == {"running", "waiting", "stopping", "completed", "failed"}
Runs == [key : Nat, session : BOOLEAN, status : Statuses, told : Seq(Pieces), output : Outputs,
         stopped : BOOLEAN]
Posts == [n : Nat, key : Nat, session : BOOLEAN]
Events == {e \in [event : {"delta", "tool", "approval", "completed", "failed"},
                   kind : Kinds \cup {"fine"}, output : Outputs] :
             e.event = "delta" => e.output \in Pieces}

TypeOK ==
  /\ pc \in {"idle", "submit", "posted", "connect", "reading", "steer", "stop", "approval",
             "polling", "returned"}
  /\ key \in Nat /\ posts \in Nat /\ attempt \in Nat /\ dropped \in BOOLEAN
  /\ steered \in [Kinds -> 0..steersPerKind] /\ mistake \in Kinds \cup {"fine"}
  /\ stopping \in BOOLEAN /\ text \in Seq(Pieces) /\ waited \in Nat /\ cancelled \in BOOLEAN /\ result \in Results
  /\ sent \in SUBSET Posts /\ runs \in Seq(Runs) /\ frames \in Nat /\ stream \in Seq(Events)
  /\ redirects \in Nat /\ unanswered \in BOOLEAN

(* However often the POST is retried, sent again without the session or
   arrives late, Hermes works on the message once (submitRun: one key), and
   the attempts are bounded.                                                *)
OneRun == Len(runs) <= 1 /\ posts <= Retries + 2

(* A completed ask is the answer its run completed with: the run's own output
   or, when that came empty over the stream, all of the text the run told -
   never what a stream that broke, or ended before the run, had of it.  And it
   is threaded only when the run has the session.                           *)
AnswerIsTheRuns ==
  result.state = "completed" =>
    /\ Mine.status = "completed" /\ result.output = Mine.output
    /\ result.text = (IF Mine.output = "empty" THEN Mine.told ELSE <<>>)
    /\ result.output = "empty" => result.text # <<>>
    /\ result.threaded => Mine.session

(* A run comes back as stopped only when Hermes took the stop: a refused one
   leaves the run at work, and what it answers counts (hermesTool).         *)
StoppedIsStopped == result.state = "stopped" => Mine.stopped

(* Once the stop is taken no steer and no second stop goes out for the run. *)
QuietAfterStop == [][stopping => redirects' = redirects]_vars

(* Every ask comes to an end, also when the stream breaks or an approval is
   asked for - unless the answer to one did not reach the gateway.          *)
AskEnds == (pc # "idle") ~> (pc = "returned" \/ unanswered)

(* stream.go: "After the stop, only an envelope that made it before the stop
   took effect is used as is.  Prose is no answer then".  When the stream
   breaks after the stop the poll knows nothing of it.                      *)
ProseIsNoAnswer ==
  (result.state = "completed" /\ stopping /\ result.output # "empty") => result.output = "envelope"

-----------------------------------------------------------------------------
(* The inductive invariants behind the theorems of AskProofs. *)

Drops == IF dropped THEN 1 ELSE 0

(* Every POST, sent or taken, is one of the ask's: under its key, and with the
   session unless that was dropped; each attempt paid for one, the drop for
   one more.                                                                *)
Posting ==
  /\ attempt \in 1..(Retries + 1)
  /\ key = (IF pc = "idle" THEN 0 ELSE 1)
  /\ pc = "idle" => posts = 0 /\ attempt = 1 /\ ~dropped /\ sent = {} /\ runs = <<>>
  /\ pc = "submit" => posts = attempt + Drops - 1
  /\ pc = "posted" => posts = attempt + Drops
  /\ posts <= attempt + Drops
  /\ \A p \in sent : p.key = key /\ (p.session \/ dropped)
  /\ Len(runs) <= 1
  /\ \A i \in 1..Len(runs) : runs[i].key = key /\ (runs[i].session \/ dropped)

(* What the client knows of the run is so: there is one, it took the stop the
   client saw taken, it completed with the output the client reads.         *)
Following ==
  /\ pc \in {"connect", "reading", "steer", "stop", "approval", "polling"} => HasRun
  /\ pc = "steer" => mistake \in Kinds /\ Steerable(mistake)
  /\ stopping => HasRun /\ Mine.stopped /\ pc \notin {"steer", "stop"}
  /\ stream # <<>> => HasRun
  /\ \A i \in 1..Len(stream) :
       stream[i].event = "completed" =>
         Mine.status = "completed" /\ stream[i].output = Mine.output
  /\ result.state = "stopped" => HasRun /\ Mine.stopped
  /\ result.state = "completed" =>
       /\ HasRun /\ Mine.status = "completed"
       /\ result.output = Mine.output
       /\ result.threaded = ~dropped
  /\ result.state # "none" => pc = "returned"

(* What an event of the stream adds to a text. *)
After(t, e) == IF e.event = "delta" THEN Append(t, e.output) ELSE t

(* The text read so far, and the stream not read, are the text the run told. *)
Brought ==
  \E said \in [0..Len(stream) -> Seq(Pieces)] :
    /\ said[0] = text /\ said[Len(stream)] = Mine.told
    /\ \A i \in 1..Len(stream) : said[i] = After(said[i - 1], stream[i])

(* Until the stream is given up the text misses nothing the run told, and what
   an answer took of it is all of it.                                       *)
Telling ==
  /\ \A i \in 1..Len(stream) : stream[i].event = "completed" => i = Len(stream)
  /\ ~HasRun => text = <<>>
  /\ HasRun /\ pc \notin {"polling", "returned"} => Brought
  /\ result.state = "completed" =>
       /\ result.text = (IF Mine.output = "empty" THEN Mine.told ELSE <<>>)
       /\ result.output = "empty" => result.text # <<>>
=============================================================================
