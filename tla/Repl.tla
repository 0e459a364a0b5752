--------------------------------- MODULE Repl ---------------------------------
(***************************************************************************)
(* The REPL on a terminal (internal/repl): three goroutines and the        *)
(* operator.  The box's reader edits the input line and sends what Enter   *)
(* sent; the main loop runs /commands and starts turns; a turn runs beside *)
(* both, takes what was queued into its rounds and puts questions -        *)
(* approvals - into the box, where they wait until the line is empty.      *)
(*                                                                         *)
(* What the operator types is a sequence of pieces, each known by its      *)
(* number: a text, a letter some question takes, or a whole /command.  How *)
(* a line is edited is Line's matter; a read brings one key.  What a turn  *)
(* does is Turn's, Runner's and Hands'.                                    *)
(***************************************************************************)
EXTENDS Integers, Sequences, SequencesExt, FiniteSets

CONSTANTS Commands,  \* the /commands typed, of LiveCommands \cup Deferrable
          InCap,     \* lines the box's channel holds
          MaxTyped,  \* bound: pieces typed
          MaxAsks,   \* bound: questions of all turns
          MaxSessions

LiveCommands == {"/approve", "/help", "/exit"}
Deferrable   == {"/setup", "/new", "/check"}
Texts        == {"text", "letter"}

ASSUME ReplAssumption ==
  /\ Commands \subseteq LiveCommands \cup Deferrable \cup {"/unknown"}
  /\ InCap \in Nat \ {0} /\ MaxTyped \in Nat /\ MaxAsks \in Nat /\ MaxSessions \in Nat \ {0}

VARIABLES
  \* the box (b.mu)
  draft, answer,
  question, \* "none" | "waits" for the draft | "up"
  held,     \* suspended: the setup wizard has the terminal
  closed,   \* and its stop channel
  \* the reader
  reader,   \* "reads" | "gone"
  after,    \* what it still does, outside the lock, for the key just read
  in,       \* the lines sent and not taken; Eof: the end
  \* the main loop
  main,     \* "loop" | "queue" | "after" | "setup" | "wait" | "stop" | "ended"
  deferred, todo,
  outcome,  \* of the turn that ended: "" | "cut"
  quit, turning, configured, session, approvals,
  \* the dock
  queue, footer,
  ahead,    \* history variable: a round of this turn took a line before it was listed
  \* the turn
  worker,   \* "none" | "starts" | "runs" | "asks" | "ended"
  reply,    \* what the question was answered with
  inbox, cancelled,
  \* history variables
  keyed,    \* pieces typed
  asked,    \* questions asked
  askedAt,  \* pieces typed when the open one was
  hermes,   \* the texts that went to Hermes
  spent,    \* pieces cleared, answered with, run as commands, refused, or sent at the close
  orphaned  \* pieces queued in an app that /setup replaced

box    == <<draft, answer, question, held, closed>>
pipe   == <<reader, after, in>>
loop   == <<main, deferred, todo, outcome, quit, turning, configured, session, approvals>>
dock   == <<queue, footer, ahead>>
turn   == <<worker, reply, inbox, cancelled>>
record == <<keyed, asked, askedAt, hermes, spent, orphaned>>
rvars   == <<box, pipe, loop, dock, turn, record>>

Pieces == [n : 1..MaxTyped, is : Texts \cup Commands]
Lines  == Seq(Pieces)
Eof    == <<>>
Numbers(line) == {line[i].n : i \in DOMAIN line}
Kind(line)    == Head(line).is
Join(lines)   == FlattenSeq(lines)

NoWork    == [do |-> "nothing", line |-> <<>>]
Send(line) == [do |-> "send", line |-> line]
NoReply    == [kind |-> "none", line |-> <<>>]

(* refresh's footer: the approvals, and the open session, or in a turn - 0 -
   what Enter does. *)
Footer == [approvals |-> approvals, what |-> IF turning THEN 0 ELSE session]

RInit ==
  /\ draft = <<>> /\ answer = <<>> /\ question = "none" /\ held = FALSE /\ closed = FALSE
  /\ reader = "reads" /\ after = NoWork /\ in = <<>>
  /\ main = "loop" /\ deferred = <<>> /\ todo = <<>> /\ outcome = ""
  /\ quit = FALSE /\ turning = FALSE /\ configured \in BOOLEAN
  /\ session = 1 /\ approvals = "ask"
  /\ queue = <<>> /\ footer = Footer /\ ahead = FALSE
  /\ worker = "none" /\ reply = NoReply /\ inbox = <<>> /\ cancelled = FALSE
  /\ keyed = 0 /\ asked = 0 /\ askedAt = 0 /\ hermes = <<>> /\ spent = {} /\ orphaned = {}

-----------------------------------------------------------------------------
(* The reader: a key, under b.mu.  What it leaves to do is done before the
   next one is read. *)
Reads == reader = "reads" /\ after = NoWork /\ ~held /\ ~closed

(* The question up takes only its letters: anything else sends it back to
   wait, and what was typed goes to the operator's line. *)
Withdrawn(piece) == draft' = Append(answer, piece) /\ answer' = <<>>

(* fits: one of its letters, alone. *)
FitsQuestion(is) == is = "letter" /\ answer = <<>>

Type ==
  /\ Reads /\ keyed < MaxTyped
  /\ keyed' = keyed + 1
  /\ \E is \in Texts \cup Commands :
       LET piece == [n |-> keyed + 1, is |-> is] IN
       \/ /\ question = "up" /\ FitsQuestion(is)
          /\ answer' = <<piece>> /\ UNCHANGED <<draft, question>>
       \/ /\ question = "up" /\ ~FitsQuestion(is)
          /\ Withdrawn(piece) /\ question' = "waits"
       \/ /\ question # "up"
          /\ draft' = Append(draft, piece) /\ UNCHANGED <<answer, question>>
  /\ UNCHANGED <<held, closed, pipe, loop, dock, turn, asked, askedAt, hermes, spent, orphaned>>

\* mutant of TakenDown: the answer line keeps what was typed
TakenDown_Kept(r) == question' = "none" /\ reply' = r /\ UNCHANGED answer

TakenDown(r) == question' = "none" /\ reply' = r /\ answer' = <<>>

Enter ==
  /\ Reads
  /\ \/ /\ question = "up"
        /\ TakenDown([kind |-> "line", line |-> answer])
        /\ spent' = spent \cup Numbers(answer)
        /\ UNCHANGED <<draft, after>>
     \/ /\ question # "up" /\ draft # <<>>
        /\ draft' = <<>> /\ after' = Send(draft)
        /\ UNCHANGED <<answer, question, reply, spent>>
  /\ UNCHANGED <<held, closed, reader, in, loop, dock, worker, inbox, cancelled,
                 keyed, asked, askedAt, hermes, orphaned>>

CtrlU ==
  /\ Reads /\ draft \o answer # <<>>
  /\ draft' = <<>> /\ answer' = <<>>
  /\ spent' = spent \cup Numbers(draft \o answer)
  /\ UNCHANGED <<question, held, closed, pipe, loop, dock, turn,
                 keyed, asked, askedAt, hermes, orphaned>>

CtrlC ==
  /\ Reads
  /\ \/ /\ question = "up"
        /\ TakenDown([kind |-> "interrupted", line |-> <<>>])
        /\ spent' = spent \cup Numbers(answer)
        /\ UNCHANGED <<draft, after>>
     \/ /\ question # "up" /\ turning
        /\ IF question = "waits" THEN TakenDown([kind |-> "interrupted", line |-> <<>>])
                                 ELSE UNCHANGED <<answer, question, reply>>
        /\ after' = [NoWork EXCEPT !.do = "interrupt"]
        /\ UNCHANGED <<draft, spent>>
     \/ /\ question # "up" /\ ~turning
        /\ draft' = <<>> /\ spent' = spent \cup Numbers(draft)
        /\ UNCHANGED <<answer, question, reply, after>>
  /\ UNCHANGED <<held, closed, reader, in, loop, dock, worker, inbox, cancelled,
                 keyed, asked, askedAt, hermes, orphaned>>

CtrlD ==
  /\ Reads /\ draft = <<>> /\ question # "up" /\ ~turning
  /\ after' = Send(Eof)
  /\ UNCHANGED <<box, reader, in, loop, dock, turn, record>>

(* The terminal is gone: unlike a line, this send does not give up. *)
StdinClosed ==
  /\ Reads
  /\ after' = [NoWork EXCEPT !.do = "eof"]
  /\ UNCHANGED <<box, reader, in, loop, dock, turn, record>>

\* mutant of LineFree: whatever the operator is typing
LineFree_Any == TRUE

(* offer: the line is empty - and the keys rest, which is a matter of time. *)
LineFree == draft = <<>>

Poll ==
  /\ Reads /\ question = "waits" /\ LineFree
  /\ question' = "up"
  /\ UNCHANGED <<draft, answer, held, closed, pipe, loop, dock, turn, record>>

(* send: or nothing, once the box is closing. *)
SendOn ==
  /\ after.do = "send"
  /\ \/ Len(in) < InCap /\ in' = Append(in, after.line) /\ UNCHANGED spent
     \/ closed /\ spent' = spent \cup Numbers(after.line) /\ UNCHANGED in
  /\ after' = NoWork
  /\ UNCHANGED <<box, reader, loop, dock, turn, keyed, asked, askedAt, hermes, orphaned>>

SendEof ==
  /\ after.do = "eof" /\ Len(in) < InCap
  /\ in' = Append(in, Eof) /\ after' = NoWork /\ reader' = "gone"
  /\ UNCHANGED <<box, loop, dock, turn, record>>

(* interrupt: the turn running now, if one does. *)
Cancel == cancelled' = (cancelled \/ worker \in {"runs", "asks"})

Interrupt ==
  /\ after.do = "interrupt"
  /\ IF turning THEN Cancel ELSE UNCHANGED cancelled
  /\ after' = NoWork
  /\ UNCHANGED <<box, reader, in, loop, dock, worker, reply, inbox, record>>

ReaderStops ==
  /\ reader = "reads" /\ after = NoWork /\ closed
  /\ reader' = "gone"
  /\ UNCHANGED <<box, after, in, loop, dock, turn, record>>

-----------------------------------------------------------------------------
\* mutant of Refreshed: a command typed during the turn leaves the footer
Refreshed_After == footer' = IF main = "loop" /\ turning THEN footer ELSE Footer'

(* refresh: the footer says what the REPL is at. *)
Refreshed == footer' = Footer'

StartTurn(line) ==
  /\ turning' = TRUE /\ worker' = "starts" /\ hermes' = hermes \o line
  /\ UNCHANGED <<quit, configured, session, approvals, held, spent>>

Switches == <<configured, session, approvals>>

(* use: a session opened starts from the configured approvals. *)
Use(s) == session' = s /\ approvals' = "ask"

\* What a /command that opens a session may open: a server or a disk that
\* fails leaves all as it is.
NewSession == {session + 1} \cap 1..MaxSessions
SwitchTo   == 1..session
Fork       == IF hermes = <<>> THEN {} ELSE NewSession

\* and what /approve and /yolo may set: plan asks as ask does, never as auto not.
Approve == {"ask", "auto"}
Yolo    == IF approvals = "auto" THEN "ask" ELSE "auto"

\* The server answered: the REPL counts as configured.
Check == {configured, TRUE}

(* A /command, its own work: "/new" stands for /session and /fork too,
   "/approve" for /yolo, "/check" for all that show something and wait for a
   turn's end, "/help" for those that do not wait. *)
Command(name) ==
  \/ /\ name = "/exit" /\ quit' = TRUE
     /\ UNCHANGED <<Switches, held>>
  \/ /\ name = "/approve" /\ approvals' \in Approve \cup {Yolo}
     /\ UNCHANGED <<quit, configured, session, held>>
  \/ /\ name = "/new"
     /\ \/ \E s \in NewSession \cup SwitchTo \cup Fork : Use(s)
        \/ UNCHANGED <<session, approvals>>
     /\ UNCHANGED <<quit, configured, held>>
  \/ /\ name = "/setup" /\ held' = TRUE
     /\ UNCHANGED <<quit, Switches>>
  \/ /\ name \in {"/check", "/help", "/unknown"}
     /\ configured' \in IF name = "/check" THEN Check ELSE {configured}
     /\ UNCHANGED <<quit, session, approvals, held>>

(* Where the loop goes on: the wizard keeps it. *)
Goes(name) == main' = IF name = "/setup" THEN IF main = "loop" THEN "setup" ELSE "setup, then after"
                                          ELSE main

(* handle: one line, between turns. *)
Handle(line) ==
  \/ /\ Kind(line) \notin Texts
     /\ Command(Kind(line)) /\ Goes(Kind(line))
     /\ spent' = spent \cup Numbers(line)
     /\ UNCHANGED <<turning, worker, hermes>>
  \/ /\ Kind(line) \in Texts /\ ~configured
     /\ spent' = spent \cup Numbers(line) /\ main' = "loop"
     /\ UNCHANGED <<turning, worker, hermes, quit, Switches, held>>
  \/ /\ Kind(line) \in Texts /\ configured
     /\ StartTurn(line) /\ main' = "loop"

Receives == main = "loop" /\ ~quit /\ in # <<>>

ReceiveEof ==
  /\ Receives /\ Head(in) = Eof
  /\ quit' = TRUE /\ in' = Tail(in)
  /\ UNCHANGED <<box, reader, after, main, deferred, todo, outcome, turning, Switches, dock, turn, record>>

(* submit between turns. *)
Receive ==
  /\ Receives /\ Head(in) # Eof /\ ~turning
  /\ in' = Tail(in)
  /\ Handle(Head(in))
  /\ UNCHANGED <<draft, answer, question, closed, reader, after, deferred, todo, outcome, queue, ahead,
                 reply, inbox, cancelled, keyed, asked, askedAt, orphaned>>
  /\ Refreshed

(* submit during a turn. *)
ReceiveCommand ==
  /\ Receives /\ Head(in) # Eof /\ turning
  /\ in' = Tail(in)
  /\ LET line == Head(in) IN
     \/ /\ Kind(line) \in LiveCommands \cup {"/unknown"}
        /\ Command(Kind(line))
        /\ spent' = spent \cup Numbers(line) /\ UNCHANGED deferred
     \/ /\ Kind(line) \in Deferrable
        /\ deferred' = Append(deferred, line)
        /\ UNCHANGED <<quit, Switches, held, spent>>
  /\ UNCHANGED <<draft, answer, question, closed, reader, after, main, todo, outcome, turning, queue, ahead,
                 turn, keyed, asked, askedAt, hermes, orphaned>>
  /\ IF Kind(Head(in)) \in Deferrable THEN UNCHANGED footer ELSE Refreshed

ReceiveText ==
  /\ Receives /\ Head(in) # Eof /\ turning /\ Kind(Head(in)) \in Texts
  /\ in' = Tail(in)
  /\ inbox' = Append(inbox, Head(in)) /\ todo' = <<Head(in)>> /\ main' = "queue"
  /\ UNCHANGED <<box, reader, after, deferred, outcome, quit, turning, Switches, dock,
                 worker, reply, cancelled, record>>

Listing == queue \o todo

(* UI.Queue: the dock lists it - the turn may have taken it by now. *)
Listed ==
  /\ main = "queue"
  /\ queue' = Listing /\ todo' = <<>> /\ main' = "loop"
  /\ UNCHANGED <<box, pipe, deferred, outcome, quit, turning, Switches, footer, ahead, turn, record>>

(* afterTurn: the turn's end. *)
TurnDone ==
  /\ main = "loop" /\ ~quit /\ worker = "ended"
  /\ worker' = "none" /\ turning' = FALSE
  /\ queue' = <<>> /\ ahead' = FALSE /\ todo' = deferred /\ deferred' = <<>> /\ main' = "after"
  /\ UNCHANGED <<box, pipe, outcome, quit, Switches, footer, reply, inbox, cancelled, record>>

Deferred ==
  /\ main = "after" /\ todo # <<>>
  /\ todo' = Tail(todo)
  /\ Handle(Head(todo))
  /\ Refreshed
  /\ UNCHANGED <<draft, answer, question, closed, pipe, deferred, outcome, queue, ahead,
                 reply, inbox, cancelled, keyed, asked, askedAt, orphaned>>

PutBack(left) == draft' = left \o draft

(* What was queued and not sent: the next turn, or back in the input line. *)
Left ==
  /\ main = "after" /\ todo = <<>>
  /\ inbox' = <<>> /\ outcome' = ""
  /\ \/ /\ inbox # <<>> /\ outcome = ""
        /\ Handle(Join(inbox))
        /\ UNCHANGED draft
     \/ /\ inbox = <<>> \/ outcome # ""
        /\ PutBack(Join(inbox)) /\ main' = "loop"
        /\ UNCHANGED <<turning, worker, hermes, quit, Switches, held, spent>>
  /\ UNCHANGED <<answer, question, closed, pipe, deferred, todo, queue, ahead,
                 reply, cancelled, keyed, asked, askedAt, orphaned>>
  /\ Refreshed

(* The wizard is done.  When it configured something the app is built anew,
   with an inbox and a dock of its own, and a session is opened in it: the
   one the REPL was started with, or a fresh one. *)
SetupDone ==
  /\ main \in {"setup", "setup, then after"}
  /\ main' = IF main = "setup" THEN "loop" ELSE "after"
  /\ held' = FALSE
  /\ \/ UNCHANGED <<Switches, inbox, orphaned>>
     \/ /\ configured' = TRUE
        /\ \E s \in 1..MaxSessions : Use(s)
        /\ inbox' = <<>> /\ orphaned' = orphaned \cup Numbers(Join(inbox))
  /\ UNCHANGED <<draft, answer, question, closed, pipe, deferred, todo, outcome, quit, turning, queue, ahead,
                 worker, reply, cancelled, keyed, asked, askedAt, hermes, spent>>
  /\ Refreshed

\* mutant of TurnToEnd: waited for, whether one runs or not
TurnToEnd_Always == TRUE

TurnToEnd == turning

(* /exit, or the end of input: a running turn is cancelled and waited for,
   and only then the box closes. *)
Quit ==
  /\ main = "loop" /\ quit
  /\ IF TurnToEnd THEN Cancel /\ main' = "wait" /\ UNCHANGED closed
                ELSE closed' = TRUE /\ main' = "stop" /\ UNCHANGED cancelled
  /\ UNCHANGED <<draft, answer, question, held, pipe, deferred, todo, outcome, quit, turning, Switches,
                 dock, worker, reply, inbox, record>>

Waited ==
  /\ main = "wait" /\ worker = "ended"
  /\ worker' = "none" /\ closed' = TRUE /\ main' = "stop"
  /\ UNCHANGED <<draft, answer, question, held, pipe, deferred, todo, outcome, quit, turning, Switches,
                 dock, reply, inbox, cancelled, record>>

Ends ==
  /\ main = "stop" /\ reader = "gone"
  /\ main' = "ended"
  /\ UNCHANGED <<box, pipe, deferred, todo, outcome, quit, turning, Switches, dock, turn, record>>

-----------------------------------------------------------------------------
(* The turn, as the REPL sees it.  Only from Begin on can it be cancelled. *)
BeginTurn ==
  /\ worker = "starts"
  /\ worker' = "runs"
  /\ UNCHANGED <<box, pipe, loop, dock, reply, inbox, cancelled, record>>

Taken == hermes' = hermes \o Join(inbox) /\ inbox' = <<>>

\* mutant of Delisted: what goes out stays listed
Delisted_Never == queue

(* UI.Added, for each text that goes out: the first off the dock's list. *)
Delisted == SubSeq(queue, Len(inbox) + 1, Len(queue))

(* takeAdded *)
Round ==
  /\ worker = "runs" /\ inbox # <<>>
  /\ Taken
  /\ queue' = Delisted
  /\ ahead' = (ahead \/ main = "queue")
  /\ UNCHANGED <<box, pipe, loop, footer, worker, reply, cancelled,
                 keyed, asked, askedAt, spent, orphaned>>

(* Ask: an approval, of the hands or of Hermes' own tools. *)
Ask ==
  /\ worker = "runs" /\ approvals = "ask" /\ asked < MaxAsks
  /\ worker' = "asks" /\ asked' = asked + 1 /\ askedAt' = keyed
  /\ \/ question' = "waits"
     \/ LineFree /\ question' = "up"
  /\ UNCHANGED <<draft, answer, held, closed, pipe, loop, dock, reply, inbox, cancelled,
                 keyed, hermes, spent, orphaned>>

Answered ==
  /\ worker = "asks" /\ reply # NoReply
  /\ worker' = "runs" /\ reply' = NoReply /\ askedAt' = 0
  /\ UNCHANGED <<box, pipe, loop, dock, inbox, cancelled, keyed, asked, hermes, spent, orphaned>>

End ==
  /\ worker = "runs"
  /\ worker' = "ended" /\ cancelled' = FALSE
  /\ outcome' \in IF cancelled THEN {"cut"} ELSE {"", "cut"}
  /\ UNCHANGED <<box, pipe, main, deferred, todo, quit, turning, Switches, dock,
                 reply, inbox, record>>

Operator == Type \/ Enter \/ CtrlU \/ CtrlC \/ CtrlD \/ StdinClosed
Reader   == Poll \/ SendOn \/ SendEof \/ Interrupt \/ ReaderStops
Loop     == \/ ReceiveEof \/ Receive \/ ReceiveCommand \/ ReceiveText \/ Listed \/ TurnDone
            \/ Deferred \/ Left \/ SetupDone \/ Quit \/ Waited \/ Ends
Turn     == BeginTurn \/ Round \/ Ask \/ Answered \/ End

RNext == Operator \/ Reader \/ Loop \/ Turn

(* The goroutines run; the operator sends or clears a line a question waits
   for, and answers the question up. *)
RSpec == /\ RInit /\ [][RNext]_rvars
        /\ WF_rvars(Reader) /\ WF_rvars(Loop) /\ WF_rvars(Turn)
        /\ WF_rvars(Enter /\ question # "none")

-----------------------------------------------------------------------------
Afters  == [do : {"nothing", "send", "interrupt", "eof"}, line : Lines]
Replies == [kind : {"none", "line", "interrupted"}, line : Lines]

BoxOK    == /\ draft \in Lines /\ answer \in Lines /\ question \in {"none", "waits", "up"}
            /\ held \in BOOLEAN /\ closed \in BOOLEAN
PipeOK   == /\ reader \in {"reads", "gone"} /\ in \in Seq(Lines)
            /\ after \in Afters
LoopOK   == /\ main \in {"loop", "queue", "after", "setup", "setup, then after", "wait", "stop", "ended"}
            /\ deferred \in Seq(Lines) /\ todo \in Seq(Lines) /\ outcome \in {"", "cut"}
            /\ quit \in BOOLEAN /\ turning \in BOOLEAN /\ configured \in BOOLEAN
            /\ session \in 1..MaxSessions /\ approvals \in {"ask", "auto"}
DockOK   == /\ queue \in Seq(Lines)
            /\ footer \in [approvals : {"ask", "auto"}, what : 0..MaxSessions] /\ ahead \in BOOLEAN
TurnOK   == /\ worker \in {"none", "starts", "runs", "asks", "ended"}
            /\ reply \in Replies
            /\ inbox \in Seq(Lines) /\ cancelled \in BOOLEAN
RecordOK == /\ keyed \in 0..MaxTyped /\ asked \in 0..MaxAsks /\ askedAt \in 0..MaxTyped
            /\ hermes \in Lines /\ spent \subseteq 1..MaxTyped /\ orphaned \subseteq 1..MaxTyped

(* The state's types. *)
RTypeOK == BoxOK /\ PipeOK /\ LoopOK /\ DockOK /\ TurnOK /\ RecordOK

Waiting == IF main = "queue" THEN deferred ELSE deferred \o todo

(* Whatever is typed stays, once, where it belongs - the line being typed, on
   its way, queued, or with Hermes - until the operator clears it, it is
   answered to, or /setup builds the app anew: no question coming up, no turn
   ending and nothing queued loses or doubles a word. *)
TypedIsKept ==
  LET places == draft \o answer \o after.line \o Join(in) \o Join(inbox) \o Join(Waiting) \o hermes
  IN /\ \A n \in 1..keyed : \/ n \in spent \cup orphaned
                           \/ Cardinality({i \in DOMAIN places : places[i].n = n}) = 1
     /\ \A i \in DOMAIN places : places[i].n \notin spent \cup orphaned

(* An approval is only ever answered with what was typed after it was asked:
   a word of a message, or a letter meant for another question, is no yes. *)
AnswerIsMeant == \A i \in DOMAIN reply.line : reply.line[i].n > askedAt

(* Whenever the loop waits for the operator the footer names the approvals in
   force and, between turns, the open session; under a question that is up the
   box shows its own instead. *)
FooterIsTrue == main = "loop" /\ question # "up" => footer = Footer

(* The list is what waits for the next round, or that after one line that went:
   submit pushes it into the inbox first, and a round took it before the dock
   had it. *)
Lists(list) == IF ahead THEN list # <<>> /\ Tail(list) = inbox ELSE list = inbox

(* ui.go: "what they queued this turn and the loop has not taken yet".  The
   dock lists this, no less and no more - but for that one line, until the turn
   is over. *)
WaitingIsListed == main = "loop" => Lists(queue)

(* The dock shows what is so: the state of things, and what waits. *)
DockIsTrue == FooterIsTrue /\ WaitingIsListed

(* ui.go's words, without that exception. *)
QueueIsExact == main = "loop" => queue = inbox

(* What may keep /exit forever: a line that found the channel full after the
   loop had left it, or no reader to bring the answer. *)
Stuck == \/ after.do \in {"send", "eof"} /\ Len(in) = InCap
         \/ reader = "gone" /\ question # "none"

(* /exit ends the REPL, a turn and a question in between - or is Stuck. *)
QuitEnds == quit ~> main = "ended" \/ Stuck

(* What is queued when a turn ends is the next turn, or waits in the input
   line. *)
QueuedIsKept == orphaned = {}

-----------------------------------------------------------------------------
(* What the properties rest on, by induction (AppProofs). *)

AllDeferrable(lines) == \A i \in DOMAIN lines : Kind(lines[i]) \in Deferrable

(* Where the loop is, and what it holds there. *)
Phased ==
  /\ worker # "none" => turning
  /\ main \in {"after", "setup", "setup, then after"} => ~turning
  /\ main = "queue" => turning
  /\ main \notin {"after", "setup, then after", "queue"} => todo = <<>>
  /\ main \in {"after", "setup, then after"} => deferred = <<>> /\ AllDeferrable(todo)
  /\ AllDeferrable(deferred)
  /\ ~turning /\ main \in {"loop", "setup"} => inbox = <<>>

(* How often the piece n is in a line. *)
Times(line, n) == Cardinality({i \in DOMAIN line : line[i].n = n})

(* and in all that is typed and not settled. *)
Kept(n) == Times(draft, n) + Times(answer, n) + Times(after.line, n) + Times(Join(in), n)
           + Times(Join(inbox), n) + Times(Join(Waiting), n) + Times(hermes, n)

Settled == spent \cup orphaned

(* Each piece typed is settled, or once in one place; no other is anywhere. *)
AllKept ==
  /\ \A n \in 1..MaxTyped : Kept(n) = IF n \in 1..keyed /\ n \notin Settled THEN 1 ELSE 0
  /\ Settled \subseteq 1..keyed
  /\ after.do # "send" => after.line = <<>>

(* A question is the running turn's, and answered once.  What is typed into it
   was typed after it was asked. *)
Meant ==
  /\ askedAt <= keyed
  /\ question # "none" => worker = "asks" /\ reply = NoReply
  /\ worker # "asks" => reply = NoReply
  /\ question # "up" => answer = <<>>
  /\ \A i \in DOMAIN answer : answer[i].n > askedAt
  /\ AnswerIsMeant

(* The operator's line is empty under a question that is up. *)
OverNothing == question = "up" => draft = <<>>

(* The footer is behind only between a turn's end and what the loop does next. *)
Refreshing == main \notin {"after", "setup, then after"} => footer = Footer

(* The dock lists what waits for the next round, or is about to. *)
Showing ==
  /\ main = "loop" => Lists(queue)
  /\ main = "queue" => Lists(Listing) /\ Len(todo) = 1
  /\ ~turning => queue = <<>> /\ ~ahead

=============================================================================
