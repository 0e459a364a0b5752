------------------------------- MODULE Server -------------------------------
(***************************************************************************)
(* --rpc, the session server an editor talks to (internal/rpc): one reader *)
(* takes a request per line, a turn runs beside it, and what is appended   *)
(* meanwhile goes out with the turn's next round or becomes a turn of its  *)
(* own.  Every other request waits for the turns.                          *)
(*                                                                         *)
(* A request is known by its number, which stands for its id and its text. *)
(* What a turn does is Turn's and Runner's matter: here it takes what is   *)
(* in the inbox, any number of times, and ends.  A compaction changes what *)
(* Hermes reads (Keeper), nothing here.                                    *)
(***************************************************************************)
EXTENDS Integers, Sequences, SequencesExt, FiniteSets

CONSTANTS Sessions,     \* the sessions opened, in order: 1 .. Sessions
          Approve,      \* the configured approvals: "auto" or "never"
          Debug,        \* the configured wire trace
          MaxRequests   \* bound: lines the client writes

ASSUME ServerAssumption ==
  /\ Sessions \in Nat \ {0} /\ MaxRequests \in Nat
  /\ Approve \in {"auto", "never"} /\ Debug \in BOOLEAN

VARIABLES
  \* the open session and its switches
  session, approvals, debugOn,
  trace,   \* the session the wire trace is written into; 0: none
  \* the reader
  reader,  \* "read" | "handle" | "queued" | "eof" | "done"
  request, \* the line in hand: its kind and number
  \* the turn
  worker,  \* "none" | "turn" | "ended"
  answers, \* the id it answers under
  left,    \* the texts it was started with
  busy, lastAppend, inbox,
  \* history variables
  sent,    \* the requests read
  closed,  \* the ids of the closing messages - answer, error - in order
  told,    \* the session and the approvals the client was last told of
  accepted,\* by text: what the client had been told when it was taken
  ran      \* the texts that went to Hermes, in order, with session and approvals

switches == <<session, approvals, debugOn, trace>>
turn     == <<worker, answers, left, busy, lastAppend, inbox>>
record   == <<sent, told, accepted>>
vars     == <<switches, reader, request, turn, closed, ran, record>>

Requests == 1..MaxRequests
NoRequest == [kind |-> "none", n |-> 0]
Kinds == {"turn", "append", "new", "approvals", "debug",
          "history", "check", "compact", "context", "refused", "unread"}

Here == [session |-> session, approvals |-> approvals]

Init ==
  /\ session = 1 /\ approvals = Approve /\ debugOn = Debug
  /\ trace = IF Debug THEN 1 ELSE 0
  /\ reader = "read" /\ request = NoRequest
  /\ worker = "none" /\ answers = 0 /\ left = <<>>
  /\ busy = FALSE /\ lastAppend = 0 /\ inbox = <<>>
  /\ sent = 0 /\ closed = <<>> /\ told = Here /\ ran = <<>>
  /\ accepted = [n \in Requests |-> Here]

-----------------------------------------------------------------------------
(* serve: a line is read.  One that cannot be handled - invalid JSON, an
   unknown type - and an append do not wait for the running turn.  Kind
   "unread" is a line answered at once: one of those, or an empty append;
   "refused" one that its handler turns down: an empty turn, no such session. *)
Read ==
  /\ reader = "read" /\ sent < MaxRequests
  /\ sent' = sent + 1
  /\ \E kind \in Kinds :
       /\ kind = "new" => session < Sessions
       /\ request' = [kind |-> kind, n |-> sent + 1]
  /\ reader' = "handle"
  /\ UNCHANGED <<switches, turn, closed, ran, told, accepted>>

EndOfInput ==
  /\ reader = "read"
  /\ reader' = "eof"
  /\ UNCHANGED <<switches, request, turn, closed, ran, record>>

Exit ==
  /\ reader = "eof" /\ worker = "none"
  /\ reader' = "done"
  /\ UNCHANGED <<switches, request, turn, closed, ran, record>>

\* mutant of Waits: a switch of session does not
Waits_Turn == request.kind \notin {"append", "unread", "new"}

Waits == request.kind \notin {"append", "unread"}

Handles(kind) ==
  /\ reader = "handle" /\ request.kind = kind
  /\ Waits => worker = "none"

Ready == reader' = "read" /\ request' = NoRequest

(* Answered at once, and nothing else changed here. *)
Reply(kind) ==
  /\ Handles(kind)
  /\ closed' = Append(closed, request.n)
  /\ Ready
  /\ UNCHANGED <<switches, turn, ran, record>>

Refuse  == Reply("refused") \/ Reply("unread")
History == Reply("history")
Check   == Reply("check")
Compact == Reply("compact")
Context == Reply("context")

(* SetDebug: the trace goes into the session's directory. *)
Pointed(on, s) == IF on THEN s ELSE 0

(* OpenSession: ResetRuntime. *)
Reset == approvals' = Approve /\ debugOn' = Debug

SwitchTo ==
  /\ Handles("new")
  /\ session < Sessions
  /\ session' = session + 1
  /\ Reset
  /\ trace' = Pointed(debugOn', session')
  /\ told' = [session |-> session', approvals |-> Approve]
  /\ closed' = Append(closed, request.n)
  /\ Ready
  /\ UNCHANGED <<turn, ran, sent, accepted>>

SetApprovals ==
  /\ Handles("approvals")
  /\ approvals' \in {"auto", "never"}
  /\ told' = [told EXCEPT !.approvals = approvals']
  /\ closed' = Append(closed, request.n)
  /\ Ready
  /\ UNCHANGED <<session, debugOn, trace, turn, ran, sent, accepted>>

SetDebug ==
  /\ Handles("debug")
  /\ debugOn' \in BOOLEAN
  /\ trace' = Pointed(debugOn', session)
  /\ closed' = Append(closed, request.n)
  /\ Ready
  /\ UNCHANGED <<session, approvals, turn, ran, record>>

-----------------------------------------------------------------------------
(* A text becomes a turn, or - while one runs - is queued for its next round. *)
Accept == accepted' = [accepted EXCEPT ![request.n] = told]

StartTurn ==
  /\ \/ Handles("turn")
     \/ Handles("append") /\ ~busy
  /\ Accept
  /\ busy' = TRUE
  /\ worker' = "turn" /\ answers' = request.n /\ left' = <<request.n>>
  /\ Ready
  /\ UNCHANGED <<switches, lastAppend, inbox, closed, ran, sent, told>>

\* mutant of LastAppend: the first one's is kept
LastAppend_First == IF lastAppend = 0 THEN request.n ELSE lastAppend

LastAppend == request.n

Queue ==
  /\ Handles("append") /\ busy
  /\ Accept
  /\ inbox' = Append(inbox, request.n) /\ lastAppend' = LastAppend
  /\ reader' = "queued"
  /\ UNCHANGED <<switches, request, worker, answers, left, busy, closed, ran, sent, told>>

(* The caller is told outside the lock: perhaps after the answer. *)
Queued ==
  /\ reader = "queued"
  /\ Ready
  /\ UNCHANGED <<switches, turn, closed, ran, record>>

(* A round's request: the turn's text, and what came in since. *)
Round ==
  /\ worker = "turn" /\ left \o inbox # <<>>
  /\ ran' = ran \o [i \in 1..Len(left \o inbox) |-> [n |-> (left \o inbox)[i], session |-> session, approvals |-> approvals]]
  /\ left' = <<>> /\ inbox' = <<>>
  /\ UNCHANGED <<switches, reader, request, worker, answers, busy, lastAppend, closed, record>>

(* The turn ends - answered, failed, interrupted or timed out. *)
Close ==
  /\ worker = "turn" /\ left = <<>>
  /\ worker' = "ended"
  /\ closed' = Append(closed, answers)
  /\ UNCHANGED <<switches, reader, request, answers, left, busy, lastAppend, inbox, ran, record>>

\* mutant of Over: what was appended since is left for the next turn
Over_Left ==
  /\ worker' = "none" /\ busy' = FALSE
  /\ UNCHANGED <<answers, left, inbox>>

Over ==
  IF inbox = <<>>
  THEN /\ worker' = "none" /\ busy' = FALSE
       /\ UNCHANGED <<answers, left, inbox>>
  ELSE /\ worker' = "turn" /\ answers' = lastAppend
       /\ left' = inbox /\ inbox' = <<>>
       /\ UNCHANGED busy

(* What the turn did not take is the next turn, under the last append's id. *)
End ==
  /\ worker = "ended"
  /\ Over
  /\ UNCHANGED <<switches, reader, request, lastAppend, closed, ran, record>>

Handle == \/ Refuse \/ History \/ Check \/ Compact \/ Context \/ SwitchTo \/ SetApprovals \/ SetDebug
          \/ StartTurn \/ Queue \/ Queued \/ Exit

Turn == Round \/ Close \/ End

Next == Read \/ EndOfInput \/ Handle \/ Turn

(* A turn's first request, and what follows its end, are the server's own
   steps; that a turn comes to its end is not assumed (Turn, TurnEnds). *)
TurnStep == (left # <<>> /\ Round) \/ End

(* The reader goes on with the line in hand, the turn as far as it can. *)
Spec == Init /\ [][Next]_vars /\ WF_vars(Handle) /\ WF_vars(TurnStep)

-----------------------------------------------------------------------------
(* Properties *)

Settings == [session : 1..Sessions, approvals : {"auto", "never"}]

TypeOK ==
  /\ session \in 1..Sessions /\ approvals \in {"auto", "never"} /\ debugOn \in BOOLEAN
  /\ trace \in 0..Sessions
  /\ reader \in {"read", "handle", "queued", "eof", "done"}
  /\ request \in [kind : Kinds, n : Requests] \cup {NoRequest}
  /\ worker \in {"none", "turn", "ended"} /\ answers \in 0..MaxRequests
  /\ left \in Seq(Requests) /\ busy \in BOOLEAN
  /\ lastAppend \in 0..MaxRequests /\ inbox \in Seq(Requests)
  /\ sent \in 0..MaxRequests /\ closed \in Seq(0..MaxRequests)
  /\ told \in Settings
  /\ accepted \in [Requests -> Settings]
  /\ ran \in Seq([n : Requests, session : 1..Sessions, approvals : {"auto", "never"}])

(* No id is closed twice - an editor takes the first answer, or error, for the
   whole - though the turn of what came too late borrows an append's id. *)
ClosedOnce == \A i, j \in DOMAIN closed : closed[i] = closed[j] => i = j

(* The texts go to Hermes in the order they were sent, none of them twice, and
   each in the session and under the approvals the client had been told of
   when it was taken - also a text that had to wait for a turn of its own. *)
RanAsTold ==
  /\ \A i, j \in DOMAIN ran : i < j => ran[i].n < ran[j].n
  /\ \A i \in DOMAIN ran : /\ ran[i].session = accepted[ran[i].n].session
                           /\ ran[i].approvals = accepted[ran[i].n].approvals

(* With the trace on, the wire is recorded in the open session's directory,
   and otherwise nowhere. *)
TraceInSession == trace = Pointed(debugOn, session)

(* The turn is with Hermes, or in a call. *)
Away == worker = "turn" /\ left = <<>>

(* Every request is answered, or is a text that went into another turn; and a
   text that was taken goes to Hermes, also when the client closes its end -
   all unless one turn never ends (TurnEnds). *)
EveryRequestServed ==
  \/ <>[]Away
  \/ \A n \in Requests :
       LET runs == \E i \in DOMAIN ran : ran[i].n = n IN
       /\ request.n = n ~> n \in Range(closed) \/ runs
       /\ n \in Range(inbox) \cup Range(left) ~> runs

-----------------------------------------------------------------------------
(* The inductive invariants behind the theorems of ServerProofs. *)

(* A turn and the texts that wait for one; while none runs, none wait. *)
Turning ==
  /\ busy <=> worker # "none"
  /\ worker # "turn" => left = <<>>
  /\ worker = "none" => inbox = <<>>

(* The ids still to be closed - the request in hand, the turn's, the one the
   next turn will borrow - differ from each other and from those closed.    *)
Closing ==
  /\ answers <= sent /\ lastAppend <= sent
  /\ \A i \in DOMAIN closed : closed[i] <= sent
  /\ reader = "handle" =>
       /\ request.n = sent /\ answers < sent /\ lastAppend < sent
       /\ \A i \in DOMAIN closed : closed[i] < sent
  /\ worker = "turn" => \A i \in DOMAIN closed : closed[i] # answers
  /\ inbox # <<>> => lastAppend # answers /\ \A i \in DOMAIN closed : closed[i] # lastAppend

(* What waits was taken in the session and under the approvals that still
   hold, for they change between turns only.                                *)
Taking ==
  /\ told = Here
  /\ \A i \in DOMAIN left : accepted[left[i]] = Here
  /\ \A i \in DOMAIN inbox : accepted[inbox[i]] = Here
  /\ \A i \in DOMAIN ran : /\ ran[i].session = accepted[ran[i].n].session
                           /\ ran[i].approvals = accepted[ran[i].n].approvals

(* A text is older than those behind it: with Hermes, in the turn, in the
   inbox, in hand.                                                          *)
Ascending(texts, below) ==
  /\ \A i \in DOMAIN texts : texts[i] < below
  /\ \A i, j \in DOMAIN texts : i < j => texts[i] < texts[j]

Texts == [i \in DOMAIN ran |-> ran[i].n] \o left \o inbox

Ordered == Ascending(Texts, IF reader = "handle" THEN sent ELSE sent + 1)
=============================================================================
