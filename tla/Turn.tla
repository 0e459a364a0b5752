-------------------------------- MODULE Turn --------------------------------
(***************************************************************************)
(* The turn loop (internal/loop): a turn is a sequence of requests to      *)
(* Hermes.  Hermes' reply ends the turn (a final, prose), asks for hands   *)
(* calls (an envelope), or is unusable (botched, empty); its run may also  *)
(* fail, be refused for its size, or be stopped by hermes-hands.  The      *)
(* calls of an envelope run in order and their results are the next        *)
(* request.  While the turn runs the operator may add to the message: the  *)
(* inbox, emptied by each request.                                         *)
(*                                                                         *)
(* A message is the record of what Hermes learns from reading it; its      *)
(* wording is left out.  Hermes is the environment: any reply, any time.   *)
(***************************************************************************)
EXTENDS Budget, Sequences, FiniteSets, Functions

CONSTANTS Texts,        \* what the operator may write, each at most once
          maxFixups,    \* recovery nudges per turn
          maxStops,     \* runs stopped and asked again per turn
          maxRecover,   \* local retries of a request refused for its size
          MaxBatch,     \* bound: calls of one envelope
          MaxTurns      \* bound: turns of one session

ASSUME TurnAssumption ==
  /\ maxFixups \in Nat
  /\ maxStops \in Nat
  /\ maxRecover \in Nat
  /\ MaxBatch \in Nat \ {0}
  /\ MaxTurns \in Nat

VARIABLES
  pc,        \* "idle" | "prepare" (a request) | "asking" (it is in flight) | "running" (calls)
  \* the Loop: what outlives a turn
  turns,     \* turns started
  ref,       \* the last session-wide call number handed out (Loop.Ref)
  pendingNote, \* PendingNote: the next turn's message tells why this one was cut short
  owned,     \* compact.Keeper: hermes-hands holds the transcript (History() # nil)
  inbox,     \* what the operator wrote and no request took yet
  \* the turn: Loop.rounds, .calls, .noted and turnState
  round, calls, noted, fixups, stops, recap,
  added,     \* texts the operator added while the turn ran
  send,      \* the next message
  stopped,   \* the message a stopped run answered
  pending,   \* the results send carries, unfitted; NoPending when it carries none
  batch,     \* the envelope whose calls are running
  \* the request in flight
  try,       \* retries of it so far
  inflight,  \* the message as sent
  \* history variables, read by no action
  outcome,   \* how the last turn ended
  ran,       \* refs of the calls run this turn
  told,      \* refs whose results Hermes completed a run on, this turn
  used,      \* rounds of this turn whose envelope ran
  noteTurn   \* the turn whose message took PendingNote and no run of which was read yet; 0: none

vars == <<pc, turns, ref, pendingNote, owned, inbox, round, calls, noted, fixups,
          stops, recap, added, send, stopped, pending, batch, try, inflight,
          outcome, ran, told, used, noteTurn>>

-----------------------------------------------------------------------------
(* One element of a results message: ref 0 is a call the hands did not run. *)
Element == [ref : Nat, exit : {"ok", "failed", "not_run"}]
Refs(elems) == {e.ref : e \in Range(elems)} \ {0}

(* What a message tells Hermes: the texts it carries in full and those it
   restates (asked), the results, the countdown tier, whether it opens with
   the correction for a stopped run or with the note on the turn before, and
   whether the turn's log goes along (recap).                               *)
Message(kind, full, restated, results, tier) ==
  [kind |-> kind, full |-> full, restated |-> restated, results |-> results,
   tier |-> tier, mark |-> FALSE, note |-> FALSE, log |-> FALSE]

NoMessage == Message("none", {}, {}, <<>>, tierNone)

Carries(m) == m.full \cup m.restated

(* resultsMsg: a round's results, the message and its additions restated, and
   the countdown to the request after it.                                   *)
ResultsMsg(elems, after, usedCalls) ==
  Message("results", {}, Range(added), elems, BudgetAt(after + 1, usedCalls))

NoPending == [elems |-> <<>>, round |-> 0]

NoBatch == [n |-> 0, keep |-> 0, stopOnError |-> FALSE, elems |-> <<>>]

-----------------------------------------------------------------------------
Init ==
  /\ pc = "idle" /\ turns = 0 /\ ref = 0 /\ pendingNote = FALSE /\ owned = FALSE
  /\ inbox = <<>>
  /\ round = 0 /\ calls = 0 /\ noted = tierNone /\ fixups = 0 /\ stops = 0
  /\ recap = FALSE /\ added = <<>> /\ send = NoMessage /\ stopped = NoMessage
  /\ pending = NoPending /\ batch = NoBatch /\ try = 0 /\ inflight = NoMessage
  /\ outcome = "none" /\ ran = {} /\ told = {} /\ used = 0 /\ noteTurn = 0

(* Run, opening: a fresh turnState and the framed message, behind the note a
   turn cut short left.  What the last turn's inbox kept is this message
   (the caller takes it: afterTurn, rpc startTurn), so the inbox starts empty. *)
StartTurn ==
  /\ pc = "idle" /\ turns < MaxTurns
  /\ pc' = "prepare" /\ turns' = turns + 1
  /\ round' = 1 /\ calls' = 0 /\ noted' = tierNone
  /\ send' = [Message("task", Range(inbox), {}, <<>>, tierNone) EXCEPT !.note = pendingNote]
  /\ pendingNote' = FALSE /\ inbox' = <<>>
  /\ outcome' = "none" /\ ran' = {} /\ told' = {} /\ used' = 0
  /\ noteTurn' = IF pendingNote THEN turns + 1 ELSE noteTurn
  /\ UNCHANGED <<ref, owned, fixups, stops, recap, added, stopped, pending, batch, try,
                 inflight>>

(* Inbox.Push: the operator adds to the message of the running turn. *)
Written == Range(inbox) \cup Range(added) \cup Carries(send) \cup Carries(stopped)

Push(text) ==
  /\ pc # "idle"
  /\ text \notin Written
  /\ inbox' = Append(inbox, text)
  /\ UNCHANGED <<pc, turns, ref, pendingNote, owned, round, calls, noted, fixups, stops,
                 recap, added, send, stopped, pending, batch, try, inflight,
                 outcome, ran, told, used, noteTurn>>

-----------------------------------------------------------------------------
(* request, up to the POST: takeAdded moves the inbox into the message; the
   keeper may compact first (owned from then on); a gateway that does not
   thread gets the turn's log too, unless hermes-hands' transcript carries it. *)
Sent(m, mine) == [m EXCEPT !.log = recap /\ ~mine]

Request ==
  /\ pc = "prepare"
  /\ \E compacted \in BOOLEAN :
       LET taken == [send EXCEPT !.full = @ \cup Range(inbox)]
       IN  /\ owned' = (owned \/ compacted)
           /\ send' = taken
           /\ inflight' = Sent(taken, owned')
  /\ added' = added \o inbox /\ inbox' = <<>>
  /\ pc' = "asking" /\ try' = 0
  /\ UNCHANGED <<turns, ref, pendingNote, round, calls, noted, fixups, stops, recap,
                 stopped, pending, batch, outcome, ran, told, used, noteTurn>>

(* The turn is over: its outcome, and the note it leaves for the next one.
   Its turnState goes with it.                                             *)
End(how, note) ==
  /\ pc' = "idle" /\ outcome' = how
  /\ pendingNote' = note
  /\ fixups' = 0 /\ stops' = 0 /\ recap' = FALSE /\ added' = <<>>
  /\ send' = NoMessage /\ stopped' = NoMessage /\ pending' = NoPending
  /\ batch' = NoBatch /\ try' = 0 /\ inflight' = NoMessage

(* The request failed (blocked): a transport error, a failed or timed-out
   run, a cancelled context.                                                *)
Failed ==
  /\ pc = "asking"
  /\ End("blocked", pendingNote)
  /\ UNCHANGED <<turns, ref, owned, inbox, round, calls, noted, ran, told, used, noteTurn>>

(* recover: the request was refused for its size.  The first retry sends it
   with the transcript compacted, if there was anything to compact; otherwise
   the results it carries are fitted tighter, once.                         *)
RecoverCompact ==
  /\ pc = "asking" /\ try = 0 /\ try < maxRecover
  /\ owned' = TRUE
  /\ try' = try + 1
  /\ inflight' = send
  /\ UNCHANGED <<pc, turns, ref, pendingNote, inbox, round, calls, noted, fixups, stops,
                 recap, added, send, stopped, pending, batch, outcome, ran, told, used, noteTurn>>

\* mutant of Refitted: the results are left out instead of fitted tighter
Refitted_Dropped == ResultsMsg(<<>>, pending.round, calls)

Refitted == ResultsMsg(pending.elems, pending.round, calls)

RecoverRefit ==
  /\ pc = "asking" /\ try < maxRecover /\ pending # NoPending
  /\ send' = Refitted
  /\ pending' = NoPending
  /\ try' = try + 1
  /\ inflight' = send'
  /\ UNCHANGED <<pc, turns, ref, pendingNote, owned, inbox, round, calls, noted, fixups,
                 stops, recap, added, stopped, batch, outcome, ran, told, used, noteTurn>>

Overflow ==
  /\ pc = "asking"
  /\ \/ try >= maxRecover
     \/ pending = NoPending
  /\ End("blocked", pendingNote)
  /\ UNCHANGED <<turns, ref, owned, inbox, round, calls, noted, ran, told, used, noteTurn>>

-----------------------------------------------------------------------------
(* A run came back: the gateway threaded it, or did not. *)
Returned(threaded) == recap' = (recap \/ (round > 1 /\ ~threaded))

(* It completed: Hermes read the message and answered it. *)
Learned ==
  /\ told' = told \cup Refs(inflight.results)
  /\ noteTurn' = IF inflight.note THEN 0 ELSE noteTurn

\* mutant of Remembered: only the first message a run of the turn was stopped at is kept
Remembered_FirstOnly == IF stops > 0 THEN stopped ELSE send

(* The message to ask again: the one the stopped run answered, or - that was a
   correction already - the one behind the correction.                      *)
Remembered == IF send.mark THEN stopped ELSE send

Corrected(m) == [m EXCEPT !.mark = TRUE]

(* hermes-hands stopped the run: the same message again, the correction in
   front, or the end of the turn.                                           *)
Stopped(threaded) ==
  /\ pc = "asking" /\ stops < maxStops
  /\ Returned(threaded)
  /\ stops' = stops + 1
  /\ stopped' = Remembered
  /\ send' = Corrected(stopped')
  /\ pc' = "prepare" /\ round' = round + 1
  /\ UNCHANGED <<turns, ref, pendingNote, owned, inbox, calls, noted, fixups, added,
                 pending, batch, try, inflight, outcome, ran, told, used, noteTurn>>

StoppedTooOften ==
  /\ pc = "asking" /\ stops >= maxStops
  /\ End("blocked", pendingNote)
  /\ UNCHANGED <<turns, ref, owned, inbox, round, calls, noted, ran, told, used, noteTurn>>

(* handle: a final, or prose that is no botched envelope, is the answer. *)
Answer ==
  /\ pc = "asking"
  /\ Learned
  /\ End("ok", pendingNote)
  /\ UNCHANGED <<turns, ref, owned, inbox, round, calls, noted, ran, used>>

NudgesLeft == fixups < maxFixups

\* mutant of Nudge: the message is restated, what was added to it is not
Nudge_NotRestated == Message("resend", {}, {}, <<>>, tierNone)

Nudge == Message("resend", {}, Range(added), <<>>, tierNone)

(* A botched or empty envelope: Hermes is asked to send it again, the message
   restated.  Past the nudges botched text is the answer and an empty
   envelope the end.                                                        *)
Resend(threaded) ==
  /\ pc = "asking" /\ NudgesLeft
  /\ Returned(threaded) /\ Learned
  /\ fixups' = fixups + 1
  /\ send' = Nudge
  /\ pending' = NoPending
  /\ pc' = "prepare" /\ round' = round + 1
  /\ UNCHANGED <<turns, ref, pendingNote, owned, inbox, calls, noted, stops, added,
                 stopped, batch, try, inflight, outcome, ran, used>>

Unusable ==
  /\ pc = "asking" /\ ~NudgesLeft
  /\ Learned
  /\ \E how \in {"ok", "blocked"} : End(how, pendingNote)
  /\ UNCHANGED <<turns, ref, owned, inbox, round, calls, noted, ran, used>>

(* capped: Hermes still asks for calls with the budget used up. *)
OverBudget ==
  /\ pc = "asking" /\ Capped(round, calls)
  /\ Learned
  /\ End("blocked", TRUE)
  /\ UNCHANGED <<turns, ref, owned, inbox, round, calls, noted, ran, used>>

(* An envelope of n calls within the budget: the first of them run. *)
Envelope(n, stopOnError, threaded) ==
  /\ pc = "asking" /\ ~Capped(round, calls)
  /\ Returned(threaded) /\ Learned
  /\ batch' = [n |-> n, keep |-> Runnable(n, calls), stopOnError |-> stopOnError, elems |-> <<>>]
  /\ pc' = "running" /\ used' = used + 1
  /\ UNCHANGED <<turns, ref, pendingNote, owned, inbox, round, calls, noted, fixups, stops,
                 added, send, stopped, pending, try, inflight, outcome, ran>>

-----------------------------------------------------------------------------
(* runCalls: the envelope's calls, one by one. *)
Position == Len(batch.elems) + 1

\* mutant of HeldBack: a failure under stop_on_error holds nothing back
HeldBack_BudgetOnly == Position > batch.keep /\ ~batch.stopOnError

HeldBack == Position > batch.keep

\* mutant of AllAnswered: the envelope waits for calls that are not to run
AllAnswered_AllRan == Cardinality(Refs(batch.elems)) >= batch.n

AllAnswered == Position > batch.n

(* runCall: the call takes the next ref and counts against the budget whatever
   becomes of it.  A failure under stop_on_error ends what may run.         *)
RunCall(exit) ==
  /\ pc = "running" /\ Position <= batch.n /\ ~HeldBack
  /\ ref' = ref + 1 /\ calls' = calls + 1 /\ ran' = ran \cup {ref + 1}
  /\ batch' = [batch EXCEPT
       !.elems = Append(@, [ref |-> ref + 1, exit |-> exit]),
       !.keep = IF batch.stopOnError /\ exit # "ok" /\ Position < batch.n THEN Position ELSE @]
  /\ UNCHANGED <<pc, turns, pendingNote, owned, inbox, round, noted, fixups, stops, recap,
                 added, send, stopped, pending, try, inflight, outcome, told, used, noteTurn>>

(* notRun: past what may run, the call goes back to Hermes. *)
NotRun ==
  /\ pc = "running" /\ Position <= batch.n /\ HeldBack
  /\ batch' = [batch EXCEPT !.elems = Append(@, [ref |-> 0, exit |-> "not_run"])]
  /\ UNCHANGED <<pc, turns, ref, pendingNote, owned, inbox, round, calls, noted, fixups,
                 stops, recap, added, send, stopped, pending, try, inflight, outcome,
                 ran, told, used, noteTurn>>

(* ErrAbortTurn: the operator declined this call and stopped the turn at its
   approval.  It counts, nothing after it runs, and the next turn is told.   *)
Abort ==
  /\ pc = "running" /\ Position <= batch.n /\ ~HeldBack
  /\ ref' = ref + 1 /\ calls' = calls + 1
  /\ End("cancelled", TRUE)
  /\ UNCHANGED <<turns, owned, inbox, round, noted, ran, told, used, noteTurn>>

Announced == Larger(noted, BudgetAt(round + 1, calls))

(* Every call of the envelope is answered: the results are the next message,
   and the operator is told the countdown Hermes was shown (announce).      *)
Report ==
  /\ pc = "running" /\ AllAnswered
  /\ pending' = [elems |-> batch.elems, round |-> round]
  /\ send' = ResultsMsg(batch.elems, round, calls)
  /\ noted' = Announced
  /\ batch' = NoBatch
  /\ pc' = "prepare" /\ round' = round + 1
  /\ UNCHANGED <<turns, ref, pendingNote, owned, inbox, calls, fixups, stops, recap, added,
                 stopped, try, inflight, outcome, ran, told, used, noteTurn>>

-----------------------------------------------------------------------------
(* The turn goes on after the reply: on a gateway that threads, or not. *)
Reply(threaded) ==
  \/ Stopped(threaded)
  \/ Resend(threaded)
  \/ \E n \in 1..MaxBatch, soe \in BOOLEAN : Envelope(n, soe, threaded)

(* The loop's own steps, taken whatever Hermes and the operator do. *)
LoopStep ==
  \/ Request
  \/ NotRun
  \/ Report

(* A call comes back: a command that ended, an approval that was answered. *)
CallReturns ==
  \/ \E exit \in {"ok", "failed"} : RunCall(exit)
  \/ Abort

(* A request comes back, one way or another. *)
ComesBack ==
  \/ \E threaded \in BOOLEAN : Reply(threaded)
  \/ Answer
  \/ Unusable
  \/ OverBudget
  \/ StoppedTooOften
  \/ Failed
  \/ RecoverCompact
  \/ RecoverRefit
  \/ Overflow

Next ==
  \/ StartTurn
  \/ \E text \in Texts : Push(text)
  \/ LoopStep
  \/ CallReturns
  \/ ComesBack

Spec == Init /\ [][Next]_vars

(* Nothing is assumed of what the loop waits for: a run's stream has no time
   limit (api/stream.go), and the operator may leave an approval open.   *)
FairSpec == Spec /\ WF_vars(LoopStep)

-----------------------------------------------------------------------------
(* Properties *)

Results == Seq(Element)
Messages == [kind : {"none", "task", "results", "resend"}, full : SUBSET Texts,
             restated : SUBSET Texts, results : Results, tier : Tiers,
             mark : BOOLEAN, note : BOOLEAN, log : BOOLEAN]
Batches == [n : Nat, keep : Nat, stopOnError : BOOLEAN, elems : Results]

TypeOK ==
  /\ pc \in {"idle", "prepare", "asking", "running"}
  /\ turns \in Nat /\ ref \in Nat /\ pendingNote \in BOOLEAN /\ owned \in BOOLEAN
  /\ inbox \in Seq(Texts)
  /\ round \in Nat /\ calls \in Nat /\ noted \in Tiers /\ fixups \in Nat /\ stops \in Nat
  /\ recap \in BOOLEAN /\ added \in Seq(Texts)
  /\ send \in Messages /\ stopped \in Messages /\ inflight \in Messages
  /\ pending \in [elems : Results, round : Nat] 
  /\ batch \in Batches /\ try \in Nat
  /\ outcome \in {"none", "ok", "blocked", "cancelled"}
  /\ ran \in SUBSET Nat /\ told \in SUBSET Nat /\ used \in Nat /\ noteTurn \in Nat

(* A turn ends with an answer only when Hermes has read the results of every
   call the turn ran: through nudges, stopped runs asked again and requests
   refitted for their size, no round's results drop out (loop.go, handle,
   stopped; request.go, recover).                                           *)
AnswerInformed == outcome = "ok" => ran = told

(* A turn has a bounded number of rounds: every round beyond the first is paid
   for by an envelope that ran, a nudge or a stop, and with a call budget
   alone each envelope spends at least one call ("no round is lost to an
   envelope that ran not at all", budget.go runnable).                      *)
RoundsBounded ==
  /\ MaxRounds > 0 => round <= MaxRounds + 1 + maxFixups + maxStops
  /\ MaxCalls > 0 => round <= MaxCalls + 1 + maxFixups + maxStops

(* The call budget is never exceeded, nor an envelope's share of it, whatever
   the size of the envelopes and the order in which they run out.           *)
CallsBounded ==
  /\ MaxCalls > 0 => calls <= MaxCalls
  /\ MaxCallsPerRound > 0 => Cardinality(Refs(batch.elems)) <= MaxCallsPerRound

(* Both budgets hold. *)
WithinBudget == RoundsBounded /\ CallsBounded

(* Refs one after the other, as far as calls ran. *)
InARow(rs) ==
  \A i, j \in DOMAIN rs : (i < j /\ rs[j].ref # 0) => rs[j].ref = rs[i].ref + (j - i)

FirstRan(rs) == rs # <<>> /\ rs[1].ref # 0

(* The results Hermes gets answer its envelope in order: the calls that ran
   come first, one ref after the other, and at least one did; after a failure
   under stop_on_error none does.                                           *)
ResultsInOrder ==
  /\ inflight.kind = "results" => FirstRan(inflight.results) /\ InARow(inflight.results)
  /\ \A i, j \in DOMAIN batch.elems :
       (i < j /\ batch.stopOnError /\ batch.elems[i].exit = "failed") => batch.elems[j].ref = 0

(* The countdown Hermes reads is one the operator was told of (announce),
   also when the results are fitted again.                                  *)
OperatorSeesCountdown == inflight.tier <= noted

(* While no run of the turn was stopped, results that do not say the budget
   is used up are answered by an envelope that may still run.               *)
CappedWasTold ==
  (pc = "asking" /\ stops = 0 /\ inflight.kind = "results" /\ Capped(round, calls))
    => inflight.tier = tierOut

(* What the operator added is in every request from then on, in full or
   restated, up to the re-ask of a second stopped run.                      *)
AdditionsAsked ==
  (pc = "asking" /\ ~(inflight.mark /\ stops > 1)) => Range(added) \subseteq Carries(inflight)

(* README: "every later round restates it with your message".  The re-ask of a
   second stopped run in a row repeats the message of the first one, without
   what was added in between.                                               *)
AdditionsAlwaysAsked == pc = "asking" => Range(added) \subseteq Carries(inflight)

(* A turn that opened with the note on the turn before it and ended with an
   answer had Hermes read that note, also when its first run was stopped.   *)
NoteRead == outcome = "ok" => noteTurn # turns

(* What one side is owed the other's requests and announcements bring along:
   additions, the note on the turn before, the countdown - across nudges,
   stopped runs, refitted messages and a budget that runs out.              *)
NothingForgotten == AdditionsAsked /\ NoteRead /\ OperatorSeesCountdown /\ CappedWasTold

Waiting == pc = "asking" \/ (pc = "running" /\ Position <= batch.n /\ ~HeldBack)

(* With a round or a call budget every turn ends, whatever Hermes replies and
   the operator adds - or one request, or one call, never comes back.       *)
TurnEnds == []<>(pc = "idle") \/ <>[]Waiting

-----------------------------------------------------------------------------
(* The turn loop implements the exchange: the request being put together and
   the one in flight are both "asking".                                     *)
Phase == CASE pc = "idle" -> "idle" [] pc = "running" -> "acting" [] OTHER -> "asking"

E == INSTANCE Exchange WITH phase <- Phase, answered <- (outcome = "ok")

(* Every behaviour of the loop is one of the exchange (Exchange.tla): no call
   runs and no answer is given on results Hermes has not read.              *)
ImplementsExchange == E!ESpec

-----------------------------------------------------------------------------
(* The inductive invariants behind the theorems of TurnProofs. *)

(* Every round but the first is paid for by an envelope that ran, a nudge or a
   stop; every envelope that ran by a call.                                 *)
Unspent == IF MaxCalls > 0 /\ Len(batch.elems) <= batch.keep THEN batch.keep - Len(batch.elems) ELSE 0

Counting ==
  /\ fixups <= maxFixups /\ stops <= maxStops
  /\ pc = "idle" => fixups = 0 /\ stops = 0
  /\ pc # "running" => batch = NoBatch
  /\ pc \in {"prepare", "asking"} => round = 1 + used + fixups + stops
  /\ pc = "running" => round = used + fixups + stops
  /\ round <= 1 + used + maxFixups + maxStops
  /\ MaxRounds > 0 => used <= MaxRounds
  /\ used <= calls + (IF pc = "running" /\ batch.elems = <<>> THEN 1 ELSE 0)
  /\ pc = "running" => batch.n > 0 /\ batch.keep > 0
  /\ MaxCalls > 0 => calls + Unspent <= MaxCalls

Batching ==
  /\ IsFiniteSet(Refs(batch.elems))
  /\ Cardinality(Refs(batch.elems)) <= Len(batch.elems)
  /\ MaxCallsPerRound > 0 => /\ batch.keep <= MaxCallsPerRound
                             /\ Cardinality(Refs(batch.elems)) <= MaxCallsPerRound

(* What Hermes has not read of the turn's results is what the next message
   carries - also when a stopped run is asked again or the message refitted. *)
Informed ==
  /\ pc \in {"prepare", "asking"} =>
       /\ ran = told \cup Refs(send.results)
       /\ pending # NoPending => pending.elems = send.results
       /\ send.mark => stopped.results = send.results
  /\ pc = "asking" => inflight.results = send.results
  /\ pc = "running" => ran = told \cup Refs(batch.elems)
  /\ pc = "idle" => pending = NoPending
  /\ outcome = "ok" => pc = "idle" /\ ran = told
  /\ pc # "idle" => outcome = "none"
  /\ \A r \in ran : r <= ref

(* The envelope at work: what ran is its first calls, up to keep, the last of
   them under the ref just handed out; a failure under stop_on_error brought
   keep down to itself, unless nothing came after it.                       *)
Sequenced ==
  LET es == batch.elems
  IN  /\ Len(es) <= batch.n
      /\ InARow(es)
      /\ \A i \in DOMAIN es : es[i].ref = 0 <=> i > batch.keep
      /\ (es # <<>> /\ Len(es) <= batch.keep) => es[Len(es)].ref = ref
      /\ \A i \in DOMAIN es :
           (batch.stopOnError /\ es[i].exit = "failed") => (batch.keep <= i \/ i = batch.n)

(* Every copy of a round's results is in order: the next message, the one a
   stopped run answered, the one in flight, and the results unfitted.       *)
InOrder(m) == m.kind = "results" => FirstRan(m.results) /\ InARow(m.results)

Ordered ==
  /\ InOrder(send) /\ InOrder(stopped) /\ InOrder(inflight)
  /\ pending # NoPending => FirstRan(pending.elems) /\ InARow(pending.elems)

Between == pc \in {"prepare", "asking"}

(* What the next message - or, behind a second correction, the one to ask
   again - still holds of what Hermes has to learn; the message in flight is
   the next message but for the log.  The results unfitted are of the round
   before this one, until a run is stopped.                                 *)
Carrying ==
  /\ pc = "idle" => added = <<>> /\ stopped = NoMessage /\ inflight = NoMessage
  /\ pc # "idle" => turns > 0
  /\ pc = "asking" => inflight = [send EXCEPT !.log = inflight.log]
  /\ Between /\ send.mark => stops > 0
  /\ Between /\ ~(send.mark /\ stops > 1) => Range(added) \subseteq Carries(send)
  /\ noteTurn <= turns
  /\ Between /\ noteTurn = turns => send.note /\ (send.mark => stopped.note) /\ pending = NoPending
  /\ pc = "running" => noteTurn # turns
  /\ outcome = "ok" => noteTurn # turns

Counted ==
  /\ send.tier <= noted /\ stopped.tier <= noted /\ inflight.tier <= noted
  /\ Between /\ pending # NoPending => BudgetAt(pending.round + 1, calls) <= noted
  /\ Between /\ stops = 0 /\ send.kind = "results" => send.tier = BudgetAt(round, calls)
  /\ Between /\ stops = 0 /\ pending # NoPending => pending.round + 1 = round
=============================================================================
