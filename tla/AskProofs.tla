----------------------------- MODULE AskProofs -----------------------------
(***************************************************************************)
(* Theorems of Ask, for every number of retries, steers, polls and frames. *)
(***************************************************************************)
EXTENDS Ask, SequenceTheorems, TLAPS

(* The run's record is replaced, whatever else the gateway holds stays. *)
LEMMA MineReplaced ==
  ASSUME TypeOK, HasRun, NEW run \in Runs, MineIs(run)
  PROVE  /\ runs' \in Seq(Runs) /\ Len(runs') = Len(runs) /\ runs' # <<>>
         /\ Mine' = run
         /\ \A i \in 1..Len(runs) : i # 1 => runs'[i] = runs[i]
<1>1. Len(runs) \in Nat /\ 1 \in 1..Len(runs)
  BY EmptySeq DEF TypeOK, HasRun
<1>2. runs' = [runs EXCEPT ![1] = run]
  BY DEF MineIs
<1>3. /\ runs' \in Seq(Runs) /\ Len(runs') = Len(runs)
      /\ \A i \in 1..Len(runs) : runs'[i] = IF i = 1 THEN run ELSE runs[i]
  BY <1>1, <1>2, ExceptSeq DEF TypeOK
<1>4. runs' # <<>>
  BY <1>1, <1>3, EmptySeq
<1>5. QED
  BY <1>1, <1>3, <1>4 DEF Mine

LEMMA MineType ==
  ASSUME TypeOK, HasRun
  PROVE  Mine \in Runs /\ 1 \in 1..Len(runs)
<1>1. 1 \in 1..Len(runs)
  BY EmptySeq DEF TypeOK, HasRun
<1>2. QED
  BY <1>1, ElementOfSeq DEF TypeOK, Mine

LEMMA HaltedType ==
  ASSUME NEW run \in Runs
  PROVE  /\ Halted(run) \in Runs /\ [Halted(run) EXCEPT !.stopped = TRUE] \in Runs
         /\ Halted(run).key = run.key /\ Halted(run).session = run.session
         /\ Halted(run).output = run.output /\ Halted(run).stopped = run.stopped
         /\ Halted(run).told = run.told /\ [Halted(run) EXCEPT !.stopped = TRUE].told = run.told
         /\ (run.status = "completed" => Halted(run).status = "completed")
BY DEF Runs, Statuses, Halted, AtWork

(* The event read is the first, the others move up. *)
LEMMA EventRead ==
  ASSUME TypeOK, stream # <<>>, stream' = Tail(stream)
  PROVE  /\ Head(stream) \in Events /\ Head(stream) = stream[1] /\ 1 \in 1..Len(stream)
         /\ stream' \in Seq(Events)
         /\ Len(stream') = Len(stream) - 1
         /\ \A i \in 1..Len(stream') : stream'[i] = stream[i + 1]
<1>1. 1 \in 1..Len(stream)
  BY EmptySeq DEF TypeOK
<1>2. Head(stream) = stream[1]
  BY DEF TypeOK
<1>3. QED
  BY <1>1, <1>2, HeadTailProperties DEF TypeOK

LEMMA EventAdded ==
  ASSUME TypeOK, NEW e \in Events, stream' = Append(stream, e)
  PROVE  /\ stream' \in Seq(Events) /\ Len(stream) \in Nat /\ Len(stream') = Len(stream) + 1
         /\ \A i \in 1..Len(stream) : stream'[i] = stream[i]
         /\ stream'[Len(stream')] = e
BY AppendProperties, LenProperties DEF TypeOK

(* What Ask may return. *)
LEMMA ResultTypes ==
  /\ <<>> \in Seq(Pieces) /\ NoResult \in Results /\ Error \in Results /\ Stopped \in Results
  /\ \A out \in Outputs, said \in Seq(Pieces) : Completed(out, said) \in Results
<1>1. <<>> \in Seq(Pieces)
  BY EmptySeq
<1>2. (~dropped) \in BOOLEAN
  BY Zenon
<1>3. NoResult \in Results
  BY <1>1 DEF NoResult, Results, Outputs
<1>4. Error \in Results
  BY <1>3 DEF Error, Results
<1>5. Stopped \in Results
  BY <1>2, <1>3 DEF Stopped, Results
<1>6. \A out \in Outputs, said \in Seq(Pieces) : Completed(out, said) \in Results
  BY <1>2 DEF Completed, Results
<1>7. QED
  BY <1>1, <1>3, <1>4, <1>5, <1>6

(* frame's last event, and the three ways it goes on. *)
Taken == IF Head(stream).output = "empty" THEN text ELSE <<>>

Answers ==
  /\ Head(stream).event = "completed"
  /\ Return(Completed(Head(stream).output, Taken))
  /\ Head(stream).output = "empty" => text # <<>>

LEMMA ReadEndTo ==
  ASSUME ReadEnd
  PROVE  Answers \/ (stopping /\ Return(Stopped)) \/ (pc' = "polling" /\ UNCHANGED result)
<1>1. text = <<>> => TextIs = "blank"
  BY EmptySeq DEF TextIs, Has
<1>2. QED
  BY <1>1, Zenon DEF ReadEnd, Answers, Taken

-----------------------------------------------------------------------------
LEMMA TypeInit == Init => TypeOK
<1> SUFFICES ASSUME Init PROVE TypeOK
  OBVIOUS
<1>1. runs \in Seq(Runs) /\ stream \in Seq(Events) /\ sent \in SUBSET Posts
  BY EmptySeq DEF Init
<1>2. steered \in [Kinds -> 0..steersPerKind] /\ frames \in Nat
  BY AskAssumption DEF Init
<1>3. dropped \in BOOLEAN /\ stopping \in BOOLEAN /\ cancelled \in BOOLEAN /\ unanswered \in BOOLEAN
  BY Zenon DEF Init
<1>4. result \in Results /\ text \in Seq(Pieces)
  BY ResultTypes DEF Init
<1>5. pc = "idle" /\ key = 0 /\ posts = 0 /\ attempt = 1 /\ mistake = "fine" /\ waited = 0 /\ redirects = 0
  BY DEF Init
<1>6. QED
  BY <1>1, <1>2, <1>3, <1>4, <1>5 DEF TypeOK

(* The POST and what becomes of it. *)
LEMMA PostingType ==
  ASSUME TypeOK, Start \/ Submit \/ Reject \/ Refuse \/ Unreachable \/ (\E p \in sent, h \in BOOLEAN : Take(p, h))
  PROVE  TypeOK'
<1>0. Error \in Results
  BY ResultTypes
<1>1. CASE Start \/ Refuse
  <2>1. result' \in Results /\ pc' \in {"submit", "returned"} /\ key' \in Nat
    BY <1>0, <1>1 DEF Start, Refuse, Return, TypeOK
  <2>2. UNCHANGED <<posts, attempt, dropped, steered, mistake, stopping, text, waited, cancelled, gateway, history>>
    BY <1>1 DEF Start, Refuse
  <2>3. QED
    BY <2>1, <2>2 DEF TypeOK, gateway, history
<1>2. CASE Submit
  <2>0. (~dropped) \in BOOLEAN
    BY Zenon
  <2>1. (~dropped) \in BOOLEAN /\ Key \in Nat
    BY <2>0 DEF TypeOK, Key
  <2>2. posts' \in Nat /\ pc' = "posted" /\ sent' = sent \cup {[n |-> posts', key |-> Key, session |-> ~dropped]}
    BY <1>2 DEF Submit, TypeOK
  <2>3. [n |-> posts', key |-> Key, session |-> ~dropped] \in Posts
    BY <2>1, <2>2 DEF Posts
  <2>4. QED
    BY <1>2, <2>2, <2>3 DEF Submit, TypeOK, history
<1>3. CASE Reject
  <2>1. dropped' \in BOOLEAN /\ pc' \in {"submit", "returned"} /\ result' \in Results
    BY <1>0, <1>3 DEF Reject, Return, TypeOK
  <2>2. QED
    BY <1>3, <2>1 DEF Reject, TypeOK, history
<1>4. CASE Unreachable
  <2>0. sent' \in SUBSET Posts
    BY <1>4 DEF Unreachable, TypeOK
  <2>1. attempt' \in Nat /\ pc' \in {"submit", "returned"} /\ result' \in Results /\ sent' \in SUBSET Posts
    BY <1>0, <1>4, <2>0 DEF Unreachable, Return, TypeOK
  <2>2. QED
    BY <1>4, <2>1 DEF Unreachable, TypeOK, history
<1>5. ASSUME NEW p \in sent, NEW h \in BOOLEAN, Take(p, h) PROVE TypeOK'
  <2>1. [key |-> p.key, session |-> p.session, status |-> "running", told |-> <<>>,
         output |-> "empty", stopped |-> FALSE] \in Runs
    BY ResultTypes DEF TypeOK, Posts, Runs, Statuses, Outputs
  <2>2. runs' \in Seq(Runs)
    BY <1>5, <2>1, AppendProperties DEF Take, TypeOK
  <2>3. sent' \in SUBSET Posts /\ pc' \in {pc, "connect"}
    BY <1>5 DEF Take, TypeOK
  <2>4. QED
    BY <1>5, <2>2, <2>3 DEF Take, TypeOK, history
<1>6. QED
  BY <1>1, <1>2, <1>3, <1>4, <1>5

(* The run at work, and the client's part in it. *)
LEMMA RunType ==
  ASSUME TypeOK, Following,
         RunWorks \/ RunEnds \/ Cancel \/ (\E a \in BOOLEAN : Steer(a) \/ StopRun(a) \/ AnswerApproval(a))
  PROVE  TypeOK'
<1>1. CASE RunWorks
  <2>1. PICK e \in Events : stream' = Append(stream, e)
    <3>1. /\ \A k \in Kinds \cup {"fine"} : Tool(k) \in Events
          /\ \A p \in Pieces : Delta(p) \in Events
          /\ Approval \in Events
      BY DEF Tool, Delta, Approval, Events, Outputs, Pieces
    <3>2. QED
      BY <1>1, <3>1, Zenon DEF RunWorks
  <2>2. runs' \in Seq(Runs)
    <3>1. Mine \in Runs
      BY <1>1, MineType DEF RunWorks
    <3>2. [Mine EXCEPT !.status = "waiting"] \in Runs
      BY <3>1 DEF Runs, Statuses
    <3>3. \A p \in Pieces : [Mine EXCEPT !.told = Append(@, p)] \in Runs
      BY <3>1, AppendProperties DEF Runs
    <3>4. QED
      BY <1>1, <3>2, <3>3, MineReplaced, Zenon DEF RunWorks, TypeOK
  <2>3. frames' \in Nat /\ stream' \in Seq(Events)
    BY <1>1, <2>1, EventAdded DEF RunWorks, TypeOK
  <2>4. QED
    BY <1>1, <2>2, <2>3 DEF RunWorks, TypeOK, client, history
<1>2. CASE RunEnds
  <2>1. Mine \in Runs
    BY <1>2, MineType DEF RunEnds
  <2>2. PICK run \in Runs : MineIs(run) /\ run.status \in {"completed", "failed"}
    <3>1. \A out \in Outputs : [Mine EXCEPT !.status = "completed", !.output = out] \in Runs
      BY <2>1 DEF Runs, Statuses
    <3>2. [Mine EXCEPT !.status = "failed"] \in Runs
      BY <2>1 DEF Runs, Statuses
    <3>3. CASE \E out \in Outputs : MineIs([Mine EXCEPT !.status = "completed", !.output = out])
      <4>1. PICK out \in Outputs : MineIs([Mine EXCEPT !.status = "completed", !.output = out])
        BY <3>3
      <4>2. [Mine EXCEPT !.status = "completed", !.output = out].status = "completed"
        BY <2>1 DEF Runs
      <4>3. QED
        BY <3>1, <4>1, <4>2
    <3>4. CASE MineIs([Mine EXCEPT !.status = "failed"])
      <4>1. [Mine EXCEPT !.status = "failed"].status = "failed"
        BY <2>1 DEF Runs
      <4>2. QED
        BY <3>2, <3>4, <4>1
    <3>5. QED
      BY <1>2, <3>3, <3>4 DEF RunEnds
  <2>3. runs' \in Seq(Runs) /\ Mine' = run
    BY <1>2, <2>2, MineReplaced DEF RunEnds
  <2>4. stream' = Append(stream, [event |-> run.status, kind |-> "fine", output |-> run.output])
    BY <1>2, <2>3 DEF RunEnds, Ended
  <2>5. [event |-> run.status, kind |-> "fine", output |-> run.output] \in Events
    BY <2>2 DEF Events, Runs
  <2>6. stream' \in Seq(Events)
    BY <2>4, <2>5, EventAdded
  <2>7. QED
    BY <1>2, <2>3, <2>6 DEF RunEnds, TypeOK, client, history
<1>3. CASE Cancel
  <2>1. runs' \in Seq(Runs)
    BY <1>3, MineType, HaltedType, MineReplaced DEF Cancel, TypeOK
  <2>2. cancelled' \in BOOLEAN
    BY <1>3, Zenon DEF Cancel
  <2>3. QED
    BY <1>3, <2>1, <2>2 DEF Cancel, TypeOK, history
<1>4. ASSUME NEW a \in BOOLEAN, Steer(a) PROVE TypeOK'
  <2>1. steered' \in [Kinds -> 0..steersPerKind]
    BY <1>4, AskAssumption DEF Steer, TypeOK, Following, Steerable
  <2>2. QED
    BY <1>4, <2>1 DEF Steer, TypeOK, gateway
<1>5. ASSUME NEW a \in BOOLEAN, StopRun(a) PROVE TypeOK'
  <2>1. runs' \in Seq(Runs)
    BY <1>5, MineType, HaltedType, MineReplaced DEF StopRun, Following, TypeOK
  <2>2. stopping' \in BOOLEAN
    BY <1>5, Zenon DEF StopRun, StopTaken
  <2>3. QED
    BY <1>5, <2>1, <2>2 DEF StopRun, TypeOK
<1>6. ASSUME NEW a \in BOOLEAN, AnswerApproval(a) PROVE TypeOK'
  <2>1. runs' \in Seq(Runs)
    <3>1. Mine \in Runs
      BY <1>6, MineType DEF AnswerApproval, Following
    <3>2. Released(Mine) \in Runs
      BY <3>1 DEF Released, Runs, Statuses
    <3>3. QED
      BY <1>6, <3>2, MineReplaced DEF AnswerApproval, Following, TypeOK
  <2>2. unanswered' \in BOOLEAN
    BY <1>6, Zenon DEF AnswerApproval, TypeOK
  <2>3. QED
    BY <1>6, <2>1, <2>2 DEF AnswerApproval, TypeOK
<1>7. QED
  BY <1>1, <1>2, <1>3, <1>4, <1>5, <1>6

(* The stream read, the poll, the end. *)
LEMMA ReadingType ==
  ASSUME TypeOK, Following,
         (\E u \in BOOLEAN : Connect(u)) \/ ReadDelta \/ ReadTool \/ ReadApproval \/ ReadEnd \/ StreamEnds
         \/ StreamBreaks \/ PollEnds \/ PollWaits \/ Abort \/ UNCHANGED vars
  PROVE  TypeOK'
<1>0. Error \in Results /\ Stopped \in Results
  BY ResultTypes
<1>c. ASSUME pc = "polling" PROVE Completed(Mine.output, <<>>) \in Results
  <2>1. Mine \in Runs
    BY <1>c, MineType DEF Following
  <2>2. QED
    BY <2>1, ResultTypes DEF Runs
<1>1. ASSUME NEW u \in BOOLEAN, Connect(u) PROVE TypeOK'
  BY <1>1 DEF Connect, TypeOK, gateway, history
<1>2. CASE ReadTool
  <2>1. stream' \in Seq(Events) /\ Head(stream) \in Events
    BY <1>2, EventRead DEF ReadTool
  <2>2. mistake' \in Kinds \cup {"fine"} /\ pc' \in {"steer", "stop", "reading"}
    BY <1>2, <2>1 DEF ReadTool, TypeOK, Events
  <2>3. QED
    BY <1>2, <2>1, <2>2 DEF ReadTool, TypeOK, history
<1>3. CASE ReadApproval
  <2>1. stream' \in Seq(Events)
    BY <1>3, EventRead DEF ReadApproval
  <2>2. QED
    BY <1>3, <2>1 DEF ReadApproval, TypeOK, history
<1>d. CASE ReadDelta
  <2>1. stream' \in Seq(Events) /\ Head(stream).output \in Pieces
    BY <1>d, EventRead DEF ReadDelta, Events
  <2>2. text' \in Seq(Pieces)
    BY <1>d, <2>1, AppendProperties DEF ReadDelta, TypeOK
  <2>3. QED
    BY <1>d, <2>1, <2>2 DEF ReadDelta, TypeOK, history
<1>4. CASE ReadEnd
  <2>0. stream # <<>> /\ stream' = Tail(stream)
    BY <1>4 DEF ReadEnd
  <2>1. stream' \in Seq(Events) /\ Head(stream).output \in Outputs
    BY <2>0, EventRead DEF Events
  <2>2. result' \in Results /\ pc' \in {"returned", "polling"}
    <3>1. Taken \in Seq(Pieces)
      BY ResultTypes DEF Taken, TypeOK
    <3>2. Completed(Head(stream).output, Taken) \in Results
      BY <2>1, <3>1, ResultTypes
    <3>3. result \in Results
      BY DEF TypeOK
    <3>4. QED
      BY <1>0, <1>4, <3>2, <3>3, ReadEndTo, Zenon DEF Answers, Return
  <2>3. QED
    BY <1>4, <2>1, <2>2 DEF ReadEnd, TypeOK, history
<1>5. CASE StreamEnds \/ StreamBreaks
  <2>1. result' \in Results /\ pc' \in {"returned", "polling"}
    BY <1>0, <1>5 DEF StreamEnds, StreamBreaks, EndedEarly, Return, TypeOK
  <2>2. stream' \in Seq(Events)
    BY <1>5, EmptySeq DEF StreamEnds, StreamBreaks
  <2>3. UNCHANGED <<key, posts, attempt, dropped, steered, mistake, stopping, text, waited, cancelled,
                    sent, runs, frames, history>>
    BY <1>5 DEF StreamEnds, StreamBreaks
  <2>4. QED
    BY <2>1, <2>2, <2>3 DEF TypeOK, history
<1>6. CASE PollEnds \/ PollWaits \/ Abort
  <2>1. result' \in Results /\ pc' \in {"returned", "polling"} /\ waited' \in Nat
    BY <1>0, <1>6, <1>c DEF PollEnds, PollWaits, Abort, Return, TypeOK
  <2>2. UNCHANGED <<key, posts, attempt, dropped, steered, mistake, stopping, text, cancelled, gateway, history>>
    BY <1>6 DEF PollEnds, PollWaits, Abort
  <2>3. QED
    BY <2>1, <2>2 DEF TypeOK, gateway, history
<1>7. CASE UNCHANGED vars
  BY <1>7 DEF vars, client, gateway, history, TypeOK
<1>8. QED
  BY <1>1, <1>2, <1>3, <1>d, <1>4, <1>5, <1>6, <1>7

LEMMA TypeStep == TypeOK /\ Following /\ [Next]_vars => TypeOK'
BY PostingType, RunType, ReadingType DEF Next, ClientStep, PostReturns

-----------------------------------------------------------------------------
(* What a run's record may become: its key and session stay, a stop it took
   and an output it completed with too.                                     *)
Kept(run, new) ==
  /\ new \in Runs /\ new.key = run.key /\ new.session = run.session
  /\ run.stopped => new.stopped
  /\ run.status = "completed" => new.status = "completed" /\ new.output = run.output
  /\ run.status # "running" => new.told = run.told

RunStep == RunWorks \/ RunEnds \/ Cancel \/ (\E a \in BOOLEAN : Steer(a) \/ StopRun(a) \/ AnswerApproval(a))

LEMMA RecordKept ==
  ASSUME TypeOK, Following, RunStep
  PROVE  UNCHANGED runs \/ (HasRun /\ \E run \in Runs : MineIs(run) /\ Kept(Mine, run))
<1>1. CASE RunWorks
  <2>1. HasRun /\ Mine \in Runs /\ Mine.status = "running"
    BY <1>1, MineType DEF RunWorks
  <2>2. Kept(Mine, [Mine EXCEPT !.status = "waiting"])
    BY <2>1 DEF Kept, Runs, Statuses
  <2>3. \A p \in Pieces : Kept(Mine, [Mine EXCEPT !.told = Append(@, p)])
    BY <2>1, AppendProperties DEF Kept, Runs
  <2>4. QED
    BY <1>1, <2>1, <2>2, <2>3, Zenon DEF RunWorks, Kept
<1>2. CASE RunEnds
  <2>1. HasRun /\ Mine \in Runs /\ Mine.status \in {"running", "stopping"}
    BY <1>2, MineType DEF RunEnds
  <2>2. Kept(Mine, [Mine EXCEPT !.status = "failed"])
    BY <2>1 DEF Kept, Runs, Statuses
  <2>3. \A out \in Outputs : Kept(Mine, [Mine EXCEPT !.status = "completed", !.output = out])
    BY <2>1 DEF Kept, Runs, Statuses
  <2>4. QED
    BY <1>2, <2>1, <2>2, <2>3 DEF RunEnds, Kept
<1>3. CASE Cancel
  <2>1. HasRun => Kept(Mine, Halted(Mine))
    BY MineType, HaltedType DEF Kept
  <2>2. QED
    BY <1>3, <2>1 DEF Cancel, Kept
<1>4. ASSUME NEW a \in BOOLEAN, Steer(a) PROVE UNCHANGED runs
  BY <1>4 DEF Steer, gateway
<1>5. ASSUME NEW a \in BOOLEAN, StopRun(a)
      PROVE  UNCHANGED runs \/ (HasRun /\ \E run \in Runs : MineIs(run) /\ Kept(Mine, run))
  <2>1. HasRun /\ Mine \in Runs
    BY <1>5, MineType DEF StopRun, Following
  <2>2. Kept(Mine, [Halted(Mine) EXCEPT !.stopped = TRUE])
    BY <2>1 DEF Kept, Halted, AtWork, Runs, Statuses
  <2>3. QED
    BY <1>5, <2>1, <2>2 DEF StopRun, Kept
<1>6. ASSUME NEW a \in BOOLEAN, AnswerApproval(a)
      PROVE  UNCHANGED runs \/ (HasRun /\ \E run \in Runs : MineIs(run) /\ Kept(Mine, run))
  <2>1. HasRun /\ Mine \in Runs
    BY <1>6, MineType DEF AnswerApproval, Following
  <2>2. Kept(Mine, Released(Mine))
    BY <2>1 DEF Kept, Released, Runs, Statuses
  <2>3. QED
    BY <1>6, <2>1, <2>2 DEF AnswerApproval, Kept
<1>7. QED
  BY <1>1, <1>2, <1>3, <1>4, <1>5, <1>6 DEF RunStep

-----------------------------------------------------------------------------
(* One run, however often it is asked for. *)
LEMMA PostingInit == Init => Posting
BY AskAssumption, EmptySeq DEF Init, Posting, Drops

(* A step that leaves the POST's part alone, and each run's key and session. *)
LEMMA PostingKept ==
  ASSUME TypeOK, Posting,
         UNCHANGED <<key, posts, attempt, dropped, sent>>,
         Len(runs') = Len(runs),
         \A i \in 1..Len(runs) : runs'[i].key = runs[i].key /\ runs'[i].session = runs[i].session,
         pc \notin {"idle"}, pc' \notin {"idle", "submit", "posted"} \/ pc' = pc
  PROVE  Posting'
BY DEF Posting, Drops

LEMMA PostingStep == TypeOK /\ Posting /\ Following /\ [Next]_vars => Posting'
<1> SUFFICES ASSUME TypeOK, Posting, Following, [Next]_vars PROVE Posting'
  OBVIOUS
<1> USE AskAssumption
<1>0. /\ attempt \in Nat /\ posts \in Nat /\ dropped \in BOOLEAN /\ Len(runs) \in Nat
      /\ Drops \in {0, 1}
  BY LenProperties DEF TypeOK, Drops
<1>1. CASE Start
  <2>1. Len(runs') = 0 /\ sent' = {} /\ key' = 1 /\ pc' = "submit" /\ UNCHANGED <<posts, attempt, dropped>>
    BY <1>1, EmptySeq DEF Start, Posting, gateway
  <2>2. QED
    BY <1>0, <1>1, <2>1 DEF Start, Posting, Drops
<1>2. CASE Submit
  <2>1. /\ posts' = posts + 1 /\ pc' = "posted" /\ UNCHANGED <<key, attempt, dropped, runs>>
        /\ sent' = sent \cup {[n |-> posts', key |-> key, session |-> ~dropped]}
    BY <1>2 DEF Submit, Key
  <2>2. \A p \in sent' : p.key = key /\ (p.session \/ dropped)
    <3> SUFFICES ASSUME NEW p \in sent' PROVE p.key = key /\ (p.session \/ dropped)
      OBVIOUS
    <3>1. CASE p \in sent
      BY <3>1, Zenon DEF Posting
    <3>2. CASE p = [n |-> posts', key |-> key, session |-> ~dropped]
      <4>1. p.key = key /\ p.session = ~dropped
        BY <3>2
      <4>2. QED
        BY <4>1, Zenon
    <3>3. QED
      BY <2>1, <3>1, <3>2, Zenon
  <2>3. pc = "submit" /\ attempt' = attempt /\ Drops' = Drops
    BY <1>2, <2>1 DEF Submit, Drops
  <2>4. posts' = attempt' + Drops'
    BY <1>0, <2>1, <2>3 DEF Posting
  <2>5. QED
    BY <1>0, <2>1, <2>2, <2>3, <2>4 DEF Posting
<1>3. CASE Reject
  BY <1>0, <1>3 DEF Reject, Return, MayDrop, Posting, Drops
<1>4. CASE Refuse
  BY <1>0, <1>4 DEF Refuse, Return, Posting, Drops, gateway
<1>5. CASE Unreachable
  BY <1>0, <1>5 DEF Unreachable, Return, Posting, Drops
<1>6. ASSUME NEW p \in sent, NEW h \in BOOLEAN, Take(p, h) PROVE Posting'
  <2>1. CASE Known(p)
    BY <1>0, <1>6, <2>1 DEF Take, Posting, Drops
  <2>2. CASE ~Known(p)
    <3>1. runs = <<>>
      BY <1>0, <2>2, EmptySeq DEF Known, Posting, TypeOK
    <3>2. Len(runs') = 1 /\ runs'[1].key = p.key /\ runs'[1].session = p.session
      BY <1>6, <2>2, <3>1 DEF Take
    <3>3. QED
      BY <1>0, <1>6, <3>2 DEF Take, Posting, Drops
  <2>3. QED
    BY <2>1, <2>2
<1>7. CASE RunStep
  <2>1. /\ UNCHANGED <<key, posts, attempt, dropped, sent>> /\ pc # "idle"
        /\ pc' \in {pc, "reading", "stop"}
    <3>1. ~Following \/ ~HasRun \/ ~Posting \/ pc # "idle"
      BY DEF Posting, HasRun
    <3>2. QED
      BY <1>7, <3>1 DEF RunStep, RunWorks, RunEnds, Cancel, Steer, StopRun, AnswerApproval, client, gateway
  <2>2. CASE UNCHANGED runs
    BY <2>1, <2>2, PostingKept DEF Drops
  <2>3. CASE HasRun /\ \E run \in Runs : MineIs(run) /\ Kept(Mine, run)
    <3>1. PICK run \in Runs : MineIs(run) /\ Kept(Mine, run)
      BY <2>3
    <3>2. /\ Len(runs') = Len(runs) /\ runs'[1] = run
          /\ \A i \in 1..Len(runs) : i # 1 => runs'[i] = runs[i]
      BY <2>3, <3>1, MineReplaced DEF Mine
    <3>3. \A i \in 1..Len(runs) : runs'[i].key = runs[i].key /\ runs'[i].session = runs[i].session
      BY <3>1, <3>2 DEF Kept, Mine
    <3>4. QED
      BY <2>1, <3>2, <3>3, PostingKept
  <2>4. QED
    BY <1>7, <2>2, <2>3, RecordKept
<1>8. CASE (\E u \in BOOLEAN : Connect(u)) \/ ReadDelta \/ ReadTool \/ ReadApproval \/ ReadEnd \/ StreamEnds
           \/ StreamBreaks \/ PollEnds \/ PollWaits \/ Abort
  BY <1>0, <1>8, PostingKept DEF Connect, ReadDelta, ReadTool, ReadApproval, ReadEnd, StreamEnds, EndedEarly, StreamBreaks,
     PollEnds, PollWaits, Abort, Return, gateway
<1>9. CASE UNCHANGED vars
  BY <1>9 DEF vars, client, gateway, Posting, Drops
<1>10. QED
  BY <1>1, <1>2, <1>3, <1>4, <1>5, <1>6, <1>7, <1>8, <1>9 DEF Next, ClientStep, PostReturns, RunStep

-----------------------------------------------------------------------------
(* What the client knows of the run is so. *)
LEMMA FollowingInit == Init => Following
BY EmptySeq DEF Init, Following, NoResult

(* A step that leaves the stream, the stop and the result alone. *)
LEMMA FollowingKept ==
  ASSUME TypeOK, Following, UNCHANGED runs \/ (HasRun /\ \E run \in Runs : MineIs(run) /\ Kept(Mine, run))
  PROVE  /\ HasRun => HasRun'
         /\ HasRun /\ Mine.stopped => Mine'.stopped
         /\ HasRun /\ Mine.status = "completed" => Mine'.status = "completed" /\ Mine'.output = Mine.output
<1>1. CASE UNCHANGED runs
  BY <1>1 DEF HasRun, Mine
<1>2. CASE HasRun /\ \E run \in Runs : MineIs(run) /\ Kept(Mine, run)
  BY <1>2, MineReplaced DEF Kept, HasRun
<1>3. QED
  BY <1>1, <1>2

LEMMA FollowingStep == TypeOK /\ Posting /\ Following /\ [Next]_vars => Following'
<1> SUFFICES ASSUME TypeOK, Posting, Following, [Next]_vars PROVE Following'
  OBVIOUS
<1>1. CASE Start \/ Submit \/ Reject \/ Refuse \/ Unreachable
  <2>1. UNCHANGED <<runs, stream, stopping>> /\ pc' \in {"submit", "posted", "returned"}
    BY <1>1 DEF Start, Submit, Reject, Refuse, Unreachable, Return, gateway
  <2>2. (UNCHANGED result /\ pc # "returned") \/ (result' = Error /\ pc' = "returned")
    BY <1>1 DEF Start, Submit, Reject, Refuse, Unreachable, Return
  <2>3. QED
    BY <2>1, <2>2 DEF Following, HasRun, Mine, Error, NoResult
<1>2. ASSUME NEW p \in sent, NEW h \in BOOLEAN, Take(p, h) PROVE Following'
  <2>1. CASE Known(p)
    <3>1. HasRun
      BY <2>1, EmptySeq DEF Known, HasRun, TypeOK
    <3>2. UNCHANGED <<runs, stream, stopping, result, mistake, steered, dropped>> /\ pc' \in {pc, "connect"}
          /\ (pc' # pc => pc = "posted")
      BY <1>2, <2>1 DEF Take
    <3>3. QED
      BY <3>1, <3>2 DEF Following, HasRun, Mine, Steerable
  <2>2. CASE ~Known(p)
    <3>1. runs = <<>>
      BY <2>2, EmptySeq DEF Known, Posting, TypeOK
    <3>2. UNCHANGED <<stream, stopping, result, mistake, steered>> /\ pc' \in {pc, "connect"}
          /\ (pc' # pc => pc = "posted")
      BY <1>2 DEF Take
    <3>3. runs' # <<>>
      BY <1>2, <2>2, <3>1 DEF Take
    <3>4. stream = <<>> /\ ~stopping /\ result.state \notin {"stopped", "completed"}
      BY <3>1 DEF Following, HasRun
    <3>5. 1..Len(stream') = {}
      BY <3>2, <3>4, EmptySeq
    <3>6. QED
      BY <3>2, <3>3, <3>4, <3>5 DEF Following, HasRun, Steerable
  <2>3. QED
    BY <2>1, <2>2
<1>3. CASE RunStep
  <2>0. /\ HasRun => HasRun'
        /\ HasRun /\ Mine.stopped => Mine'.stopped
        /\ HasRun /\ Mine.status = "completed" => Mine'.status = "completed" /\ Mine'.output = Mine.output
    BY <1>3, RecordKept, FollowingKept
  <2>1. CASE RunWorks
    <3>1. PICK e \in Events : stream' = Append(stream, e) /\ e.event # "completed"
      <4>1. /\ \A k \in Kinds \cup {"fine"} : Tool(k) \in Events /\ Tool(k).event # "completed"
            /\ \A p \in Pieces : Delta(p) \in Events /\ Delta(p).event # "completed"
            /\ Approval \in Events /\ Approval.event # "completed"
        BY DEF Tool, Delta, Approval, Events, Outputs, Pieces
      <4>2. QED
        BY <2>1, <4>1, Zenon DEF RunWorks
    <3>2. \A j \in 1..Len(stream') : stream'[j].event = "completed" => j \in 1..Len(stream) /\ stream'[j] = stream[j]
      BY <3>1, EventAdded
    <3>3. UNCHANGED client /\ HasRun
      BY <2>1 DEF RunWorks
    <3>4. QED
      BY <2>0, <3>2, <3>3 DEF Following, client, Steerable
  <2>2. CASE RunEnds
    <3>1. HasRun /\ Mine.status # "completed" /\ UNCHANGED client /\ stream' = Append(stream, Ended(Mine)')
      BY <2>2 DEF RunEnds
    <3>2. Mine' \in Runs /\ Mine'.status \in {"completed", "failed"}
      <4>1. Mine \in Runs
        BY <3>1, MineType
      <4>2. \A out \in Outputs : [Mine EXCEPT !.status = "completed", !.output = out] \in Runs
                                 /\ [Mine EXCEPT !.status = "completed", !.output = out].status = "completed"
        BY <4>1 DEF Runs, Statuses
      <4>3. [Mine EXCEPT !.status = "failed"] \in Runs /\ [Mine EXCEPT !.status = "failed"].status = "failed"
        BY <4>1 DEF Runs, Statuses
      <4>4. QED
        BY <2>2, <3>1, <4>2, <4>3, MineReplaced DEF RunEnds
    <3>3. stream' = Append(stream, [event |-> Mine'.status, kind |-> "fine", output |-> Mine'.output])
      BY <3>1 DEF Ended
    <3>4. [event |-> Mine'.status, kind |-> "fine", output |-> Mine'.output] \in Events
      BY <3>2 DEF Events, Runs
    <3>5. \A j \in 1..Len(stream') : stream'[j].event = "completed" =>
                                       Mine'.status = "completed" /\ stream'[j].output = Mine'.output
      <4>1. \A j \in 1..Len(stream) : stream[j].event # "completed"
        BY <3>1 DEF Following
      <4>2. QED
        BY <3>3, <3>4, <4>1, EventAdded
    <3>6. QED
      BY <2>0, <3>1, <3>5 DEF Following, client, Steerable
  <2>3. CASE Cancel
    BY <2>0, <2>3 DEF Cancel, Following, Steerable
  <2>4. ASSUME NEW a \in BOOLEAN, Steer(a) PROVE Following'
    BY <2>0, <2>4 DEF Steer, Following, gateway, HasRun, Mine
  <2>5. ASSUME NEW a \in BOOLEAN, StopRun(a) PROVE Following'
    <3>1. HasRun /\ Mine \in Runs
      BY <2>5, MineType DEF StopRun, Following
    <3>2. a => Mine'.stopped
      <4>1. [Halted(Mine) EXCEPT !.stopped = TRUE] \in Runs /\ [Halted(Mine) EXCEPT !.stopped = TRUE].stopped
        BY <3>1 DEF Halted, AtWork, Runs, Statuses
      <4>2. QED
        BY <2>5, <3>1, <4>1, MineReplaced DEF StopRun
    <3>3. stopping' = a /\ pc' = "reading" /\ pc = "stop" /\ UNCHANGED <<stream, result, dropped>>
      BY <2>5 DEF StopRun, StopTaken
    <3>4. QED
      BY <2>0, <3>1, <3>2, <3>3 DEF Following
  <2>6. ASSUME NEW a \in BOOLEAN, AnswerApproval(a) PROVE Following'
    BY <2>0, <2>6 DEF AnswerApproval, Following
  <2>7. QED
    BY <1>3, <2>1, <2>2, <2>3, <2>4, <2>5, <2>6 DEF RunStep
<1>4. ASSUME NEW u \in BOOLEAN, Connect(u) PROVE Following'
  BY <1>4 DEF Connect, Following, HasRun, Mine, gateway
<1>5. CASE ReadTool
  <2>1. stream # <<>> /\ stream' = Tail(stream) /\ pc = "reading" /\ Head(stream) \in Events
        /\ UNCHANGED <<runs, stopping, result, dropped, steered>>
    BY <1>5, EventRead DEF ReadTool
  <2>2. \A j \in 1..Len(stream') : j + 1 \in 1..Len(stream) /\ stream'[j] = stream[j + 1]
    BY <2>1, EventRead, LenProperties DEF TypeOK
  <2>3. /\ pc' \in {"reading", "steer", "stop"}
        /\ pc' # "reading" => ~stopping
        /\ pc' = "steer" => mistake' \in Kinds /\ Steerable(mistake')
    BY <1>5, <2>1 DEF ReadTool, Handles, Events
  <2>4. HasRun' /\ Mine' = Mine /\ HasRun
    BY <2>1 DEF HasRun, Mine, Following
  <2>5. pc' = "steer" => mistake' \in Kinds /\ Steerable(mistake)'
    BY <2>1, <2>3 DEF Steerable
  <2>6. QED
    BY <2>1, <2>2, <2>3, <2>4, <2>5 DEF Following
<1>6. CASE ReadApproval \/ ReadDelta
  <2>1. stream # <<>> /\ stream' = Tail(stream) /\ pc = "reading" /\ pc' \in {"approval", "reading"}
        /\ UNCHANGED <<runs, stopping, result, dropped>>
    BY <1>6 DEF ReadApproval, ReadDelta
  <2>2. \A j \in 1..Len(stream') : j + 1 \in 1..Len(stream) /\ stream'[j] = stream[j + 1]
    BY <2>1, EventRead, LenProperties DEF TypeOK
  <2>3. QED
    BY <2>1, <2>2 DEF Following, HasRun, Mine
<1>7. CASE ReadEnd
  <2>1. stream # <<>> /\ stream' = Tail(stream) /\ pc = "reading" /\ UNCHANGED <<runs, stopping, dropped>>
    BY <1>7 DEF ReadEnd
  <2>2. \A j \in 1..Len(stream') : j + 1 \in 1..Len(stream) /\ stream'[j] = stream[j + 1]
    BY <2>1, EventRead, LenProperties DEF TypeOK
  <2>3. Head(stream).event = "completed" => Mine.status = "completed" /\ Head(stream).output = Mine.output
    BY <2>1, EventRead DEF Following
  <2>4. \/ Head(stream).event = "completed" /\ Return(Completed(Head(stream).output, Taken))
        \/ stopping /\ Return(Stopped)
        \/ pc' = "polling" /\ UNCHANGED result
    BY <1>7, ReadEndTo DEF Answers
  <2>5. HasRun' /\ Mine' = Mine /\ HasRun /\ result.state = "none"
    BY <2>1 DEF HasRun, Mine, Following
  <2>6. pc' \in {"returned", "polling"} /\ (result'.state # "none" => pc' = "returned")
    BY <2>4, <2>5 DEF Return
  <2>7. result'.state = "stopped" => stopping
    BY <2>4, <2>5 DEF Return, Completed
  <2>8. result'.state = "completed" =>
          Mine.status = "completed" /\ result'.output = Mine.output /\ result'.threaded = ~dropped
    <3>1. CASE Head(stream).event = "completed" /\ result' = Completed(Head(stream).output, Taken)
      <4>1. result'.output = Head(stream).output /\ result'.threaded = ~dropped
        BY <3>1, Zenon DEF Completed
      <4>2. QED
        BY <2>3, <3>1, <4>1
    <3>2. CASE result' = Stopped
      BY <3>2 DEF Stopped, NoResult
    <3>3. QED
      BY <2>4, <2>5, <3>1, <3>2 DEF Return
  <2>9. QED
    BY <2>1, <2>2, <2>5, <2>6, <2>7, <2>8 DEF Following
<1>8. CASE StreamEnds \/ StreamBreaks
  <2>1. /\ pc = "reading" /\ stream' = <<>> /\ UNCHANGED <<runs, stopping, dropped>>
        /\ \/ stopping /\ Return(Stopped)
           \/ pc' = "polling" /\ UNCHANGED result
    BY <1>8 DEF StreamEnds, StreamBreaks, EndedEarly
  <2>2. HasRun' /\ Mine' = Mine /\ HasRun /\ 1..Len(stream') = {}
    BY <2>1, EmptySeq DEF HasRun, Mine, Following
  <2>3. QED
    BY <2>1, <2>2 DEF Following, Return, Stopped, NoResult
<1>9. CASE PollEnds \/ PollWaits \/ Abort
  <2>1. UNCHANGED <<runs, stream, stopping, dropped>> /\ pc # "returned"
        /\ \/ pc = "polling" /\ Mine.status = "completed" /\ Return(Completed(Mine.output, <<>>))
           \/ Return(Error)
           \/ UNCHANGED <<pc, result>> /\ pc = "polling"
    BY <1>9 DEF PollEnds, PollWaits, Abort, Return, gateway
  <2>2. HasRun' = HasRun /\ Mine' = Mine /\ result.state = "none" /\ (pc = "polling" => HasRun)
    BY <2>1 DEF HasRun, Mine, Following
  <2>3. QED
    BY <2>1, <2>2 DEF Following, Return, Completed, Error, NoResult
<1>10. CASE UNCHANGED vars
  BY <1>10 DEF vars, client, gateway, Following, HasRun, Mine, Steerable
<1>11. QED
  BY <1>1, <1>2, <1>3, <1>4, <1>5, <1>6, <1>7, <1>8, <1>9, <1>10 DEF Next, ClientStep, PostReturns, RunStep

-----------------------------------------------------------------------------
(* The text misses nothing the run told. *)
LEMMA BroughtKept ==
  ASSUME Brought, stream' = stream, text' = text, Mine'.told = Mine.told
  PROVE  Brought'
BY DEF Brought, After

LEMMA BroughtFirst ==
  ASSUME stream' = <<>>, text' = <<>>, Mine'.told = <<>>
  PROVE  Brought'
<1> DEFINE f == [i \in 0..0 |-> <<>>]
<1>1. Len(stream') = 0 /\ <<>> \in Seq(Pieces)
  BY ResultTypes
<1>2. 0..Len(stream') = 0..0 /\ 1..Len(stream') = {} /\ 0 \in 0..0
  BY <1>1
<1>3. f \in [0..Len(stream') -> Seq(Pieces)] /\ f[0] = <<>> /\ f[Len(stream')] = <<>>
  BY <1>1, <1>2
<1>4. QED
  BY <1>2, <1>3 DEF Brought

(* An event more: what was said up to it, and what it adds. *)
LEMMA BroughtGrows ==
  ASSUME TypeOK, Brought, NEW e \in Events, stream' = Append(stream, e), text' = text,
         Mine'.told \in Seq(Pieces), Mine'.told = After(Mine.told, e)
  PROVE  Brought'
<1>1. PICK said \in [0..Len(stream) -> Seq(Pieces)] :
        /\ said[0] = text /\ said[Len(stream)] = Mine.told
        /\ \A i \in 1..Len(stream) : said[i] = After(said[i - 1], stream[i])
  BY DEF Brought
<1> DEFINE n == Len(stream)
           f == [i \in 0..(n + 1) |-> IF i = n + 1 THEN Mine'.told ELSE said[i]]
<1>2. /\ n \in Nat /\ Len(stream') = n + 1
      /\ \A i \in 1..n : stream'[i] = stream[i]
      /\ stream'[n + 1] = e
  BY EventAdded
<1> HIDE DEF n
<1>3. /\ \A i \in 0..n : i \in 0..(n + 1) /\ i # n + 1
      /\ 0 \in 0..n /\ n \in 0..n /\ n + 1 \in 0..(n + 1)
      /\ \A i \in 0..(n + 1) : i # n + 1 => i \in 0..n
      /\ \A i \in 1..n : i \in 0..n /\ i - 1 \in 0..n
      /\ \A i \in 1..(n + 1) : i # n + 1 => i \in 1..n
      /\ (n + 1) - 1 = n
  BY <1>2
<1>4. \A i \in 0..n : said[i] \in Seq(Pieces)
  BY <1>1 DEF n
<1>5. \A i \in 0..n : f[i] = said[i]
  BY <1>3
<1>6. f[n + 1] = Mine'.told
  BY <1>3
<1>7. f \in [0..(n + 1) -> Seq(Pieces)]
  BY <1>3, <1>4
<1> HIDE DEF f
<1>8. \A i \in 1..(n + 1) : f[i] = After(f[i - 1], stream'[i])
  <2>1. \A i \in 1..n : f[i] = After(f[i - 1], stream'[i])
    BY <1>1, <1>2, <1>3, <1>5, Zenon DEF n
  <2>2. f[n + 1] = After(f[(n + 1) - 1], stream'[n + 1])
    BY <1>1, <1>2, <1>3, <1>5, <1>6, Zenon DEF n
  <2>3. QED
    BY <1>3, <2>1, <2>2, Zenon
<1>9. f[0] = text' /\ f[n + 1] = Mine'.told
  BY <1>1, <1>3, <1>5, <1>6
<1>10. QED
  BY <1>2, <1>7, <1>8, <1>9, Zenon DEF Brought

(* An event read: the others have one less before them. *)
LEMMA BroughtRead ==
  ASSUME TypeOK, Brought, stream # <<>>, stream' = Tail(stream), text' = After(text, Head(stream)),
         Mine'.told = Mine.told
  PROVE  Brought'
<1>1. PICK said \in [0..Len(stream) -> Seq(Pieces)] :
        /\ said[0] = text /\ said[Len(stream)] = Mine.told
        /\ \A i \in 1..Len(stream) : said[i] = After(said[i - 1], stream[i])
  BY DEF Brought
<1> DEFINE n == Len(stream')
           f == [i \in 0..n |-> said[i + 1]]
<1>2. /\ n \in Nat /\ Len(stream) = n + 1 /\ Head(stream) = stream[1]
      /\ \A i \in 1..n : stream'[i] = stream[i + 1]
  BY EventRead, LenProperties DEF TypeOK
<1> HIDE DEF n
<1>3. /\ \A i \in 0..n : i + 1 \in 0..(n + 1) /\ i + 1 \in 1..(n + 1)
      /\ 0 \in 0..n /\ n \in 0..n /\ 0 + 1 = 1 /\ 1 - 1 = 0 /\ 1 \in 1..(n + 1)
      /\ \A i \in 1..n : i \in 0..n /\ i - 1 \in 0..n /\ (i - 1) + 1 = i /\ (i + 1) - 1 = i
  BY <1>2
<1>4. f \in [0..n -> Seq(Pieces)] /\ \A i \in 0..n : f[i] = said[i + 1]
  BY <1>1, <1>2, <1>3
<1> HIDE DEF f
<1>5. f[0] = text'
  BY <1>1, <1>2, <1>3, <1>4, Zenon
<1>6. f[n] = Mine'.told
  BY <1>1, <1>2, <1>3, <1>4, Zenon
<1>7. ASSUME NEW i \in 1..n PROVE f[i] = After(f[i - 1], stream'[i])
  <2>1. f[i] = said[i + 1] /\ f[i - 1] = said[i] /\ stream'[i] = stream[i + 1]
    BY <1>2, <1>3, <1>4, Zenon
  <2>2. said[i + 1] = After(said[(i + 1) - 1], stream[i + 1])
    BY <1>1, <1>2, <1>3, Zenon
  <2>3. QED
    BY <1>3, <2>1, <2>2, Zenon
<1>8. QED
  BY <1>4, <1>5, <1>6, <1>7, Zenon DEF Brought, n

(* A step that leaves the stream and the run alone. *)
LEMMA TellingKept ==
  ASSUME Telling, UNCHANGED <<runs, stream, text>>, result' = result \/ result'.state # "completed",
         pc' \notin {"polling", "returned"} => pc \notin {"polling", "returned"}
  PROVE  Telling'
<1>1. HasRun' = HasRun /\ Mine' = Mine
  BY DEF HasRun, Mine
<1>2. HasRun' /\ pc' \notin {"polling", "returned"} => Brought'
  BY <1>1, BroughtKept DEF Telling
<1>3. QED
  BY <1>1, <1>2 DEF Telling

(* Of a run's own steps only its work adds to what it told. *)
LEMMA ToldKept ==
  ASSUME TypeOK, Following, HasRun,
         RunEnds \/ Cancel \/ (\E a \in BOOLEAN : Steer(a) \/ StopRun(a) \/ AnswerApproval(a))
  PROVE  HasRun' /\ Mine'.told = Mine.told
<1>0. Mine \in Runs
  BY MineType
<1>1. CASE UNCHANGED runs
  BY <1>1 DEF HasRun, Mine
<1>2. CASE \E run \in Runs : MineIs(run) /\ run.told = Mine.told
  BY <1>2, MineReplaced DEF HasRun
<1>3. CASE RunEnds
  <2>1. \A out \in Outputs : /\ [Mine EXCEPT !.status = "completed", !.output = out] \in Runs
                             /\ [Mine EXCEPT !.status = "completed", !.output = out].told = Mine.told
    BY <1>0 DEF Runs, Statuses
  <2>2. [Mine EXCEPT !.status = "failed"] \in Runs /\ [Mine EXCEPT !.status = "failed"].told = Mine.told
    BY <1>0 DEF Runs, Statuses
  <2>3. QED
    BY <1>2, <1>3, <2>1, <2>2, Zenon DEF RunEnds
<1>4. CASE Cancel \/ \E a \in BOOLEAN : StopRun(a)
  BY <1>0, <1>1, <1>2, <1>4, HaltedType, Zenon DEF Cancel, StopRun
<1>5. CASE \E a \in BOOLEAN : AnswerApproval(a)
  <2>1. Released(Mine) \in Runs /\ Released(Mine).told = Mine.told
    BY <1>0 DEF Released, Runs, Statuses
  <2>2. QED
    BY <1>1, <1>2, <1>5, <2>1, Zenon DEF AnswerApproval
<1>6. CASE \E a \in BOOLEAN : Steer(a)
  BY <1>1, <1>6 DEF Steer, gateway
<1>7. QED
  BY <1>3, <1>4, <1>5, <1>6

LEMMA TellingInit == Init => Telling
BY EmptySeq DEF Init, Telling, NoResult, HasRun

LEMMA TellingStep == TypeOK /\ Posting /\ Following /\ Telling /\ [Next]_vars => Telling'
<1> SUFFICES ASSUME TypeOK, Posting, Following, Telling, [Next]_vars PROVE Telling'
  OBVIOUS
<1>1. CASE Start \/ Submit \/ Reject \/ Refuse \/ Unreachable \/ (\E u \in BOOLEAN : Connect(u)) \/ PollWaits
           \/ Abort \/ UNCHANGED vars
  <2>1. UNCHANGED <<runs, stream, text>>
    BY <1>1 DEF Start, Submit, Reject, Refuse, Unreachable, Connect, PollWaits, Abort, vars, client, gateway
  <2>2. result' = result \/ result' = Error
    BY <1>1 DEF Start, Submit, Reject, Refuse, Unreachable, Connect, PollWaits, Abort, vars, client, Return
  <2>3. pc' \notin {"polling", "returned"} => pc \notin {"polling", "returned"}
    BY <1>1 DEF Start, Submit, Reject, Refuse, Unreachable, Connect, PollWaits, Abort, vars, client, Return
  <2>4. QED
    BY <2>1, <2>2, <2>3, TellingKept DEF Error, NoResult
<1>2. ASSUME NEW p \in sent, NEW h \in BOOLEAN, Take(p, h) PROVE Telling'
  <2>1. UNCHANGED <<stream, text, result>> /\ pc' \in {pc, "connect"} /\ (pc' # pc => pc = "posted")
    BY <1>2 DEF Take
  <2>2. CASE Known(p)
    BY <1>2, <2>1, <2>2, TellingKept DEF Take
  <2>3. CASE ~Known(p)
    <3>1. runs = <<>>
      BY <2>3, EmptySeq DEF Known, Posting, TypeOK
    <3>2. stream = <<>> /\ text = <<>> /\ result.state # "completed"
      BY <3>1 DEF Following, Telling, HasRun
    <3>3. Len(runs') = 1 /\ runs'[1].told = <<>>
      BY <1>2, <2>3, <3>1 DEF Take
    <3>4. Mine'.told = <<>> /\ HasRun'
      BY <3>3, EmptySeq DEF Mine, HasRun
    <3>5. Brought' /\ 1..Len(stream') = {}
      BY <2>1, <3>2, <3>4, BroughtFirst, EmptySeq
    <3>6. QED
      BY <2>1, <3>2, <3>4, <3>5 DEF Telling
  <2>4. QED
    BY <2>2, <2>3
<1>3. CASE RunWorks
  <2>1. /\ HasRun /\ Mine \in Runs /\ Mine.status = "running" /\ result.state # "completed"
        /\ UNCHANGED client
    BY <1>3, MineType DEF RunWorks, Following
  <2>2. PICK e \in Events : /\ stream' = Append(stream, e) /\ e.event # "completed"
                            /\ Mine'.told = After(Mine.told, e) /\ Mine'.told \in Seq(Pieces)
    <3>0. Mine.told \in Seq(Pieces)
      BY <2>1 DEF Runs
    <3>1. CASE \E k \in Kinds \cup {"fine"} : stream' = Append(stream, Tool(k)) /\ UNCHANGED runs
      <4>1. \A k \in Kinds \cup {"fine"} : Tool(k) \in Events /\ Tool(k).event = "tool"
        BY DEF Tool, Events, Outputs
      <4>2. \A k \in Kinds \cup {"fine"} : Tool(k).event # "completed" /\ After(Mine.told, Tool(k)) = Mine.told
        BY <4>1 DEF After
      <4>3. Mine' = Mine
        BY <3>1 DEF Mine
      <4>4. QED
        BY <3>0, <3>1, <4>1, <4>2, <4>3, Zenon
    <3>2. CASE stream' = Append(stream, Approval) /\ MineIs([Mine EXCEPT !.status = "waiting"])
      <4>1. Approval \in Events /\ Approval.event # "completed" /\ After(Mine.told, Approval) = Mine.told
        BY DEF Approval, Events, Outputs, After
      <4>2. /\ [Mine EXCEPT !.status = "waiting"] \in Runs
            /\ [Mine EXCEPT !.status = "waiting"].told = Mine.told
        BY <2>1 DEF Runs, Statuses
      <4>3. QED
        BY <2>1, <3>0, <3>2, <4>1, <4>2, MineReplaced
    <3>3. CASE \E p \in Pieces : /\ stream' = Append(stream, Delta(p))
                                 /\ MineIs([Mine EXCEPT !.told = Append(@, p)])
      <4>1. PICK p \in Pieces : /\ stream' = Append(stream, Delta(p))
                                /\ MineIs([Mine EXCEPT !.told = Append(@, p)])
        BY <3>3
      <4>2. /\ Delta(p) \in Events /\ Delta(p).event # "completed"
            /\ After(Mine.told, Delta(p)) = Append(Mine.told, p)
        BY DEF Delta, Events, Outputs, Pieces, After
      <4>3. /\ [Mine EXCEPT !.told = Append(@, p)] \in Runs
            /\ [Mine EXCEPT !.told = Append(@, p)].told = Append(Mine.told, p)
            /\ Append(Mine.told, p) \in Seq(Pieces)
        BY <2>1, <3>0, AppendProperties DEF Runs
      <4>4. QED
        BY <2>1, <4>1, <4>2, <4>3, MineReplaced
    <3>4. QED
      BY <1>3, <3>1, <3>2, <3>3 DEF RunWorks
  <2>3. \A i \in 1..Len(stream') : stream'[i].event # "completed"
    <3>1. \A i \in 1..Len(stream) : stream[i].event # "completed"
      BY <2>1 DEF Following
    <3>2. QED
      BY <2>2, <3>1, EventAdded
  <2>4. HasRun'
    BY <1>3, <2>1, RecordKept, FollowingKept DEF RunStep
  <2>5. pc' \notin {"polling", "returned"} => Brought'
    BY <2>1, <2>2, BroughtGrows DEF Telling, client
  <2>6. QED
    BY <2>1, <2>3, <2>4, <2>5 DEF Telling, client
<1>4. CASE RunEnds
  <2>1. /\ HasRun /\ Mine \in Runs /\ Mine.status # "completed" /\ UNCHANGED client
        /\ stream' = Append(stream, Ended(Mine)')
    BY <1>4, MineType DEF RunEnds
  <2>2. HasRun' /\ Mine'.told = Mine.told
    BY <1>4, <2>1, ToldKept
  <2>3. Mine' \in Runs /\ Mine'.status \in {"completed", "failed"}
    <3>1. \A out \in Outputs : /\ [Mine EXCEPT !.status = "completed", !.output = out] \in Runs
                               /\ [Mine EXCEPT !.status = "completed", !.output = out].status = "completed"
      BY <2>1 DEF Runs, Statuses
    <3>2. [Mine EXCEPT !.status = "failed"] \in Runs /\ [Mine EXCEPT !.status = "failed"].status = "failed"
      BY <2>1 DEF Runs, Statuses
    <3>3. QED
      BY <1>4, <2>1, <3>1, <3>2, MineReplaced DEF RunEnds
  <2>4. PICK e \in Events : stream' = Append(stream, e) /\ e.event # "delta"
    <3>1. [event |-> Mine'.status, kind |-> "fine", output |-> Mine'.output] \in Events
      BY <2>3 DEF Events, Runs
    <3>2. QED
      BY <2>1, <2>3, <3>1 DEF Ended
  <2>5. \A i \in 1..Len(stream') : stream'[i].event = "completed" => i = Len(stream')
    <3>1. \A i \in 1..Len(stream) : stream[i].event # "completed"
      BY <2>1 DEF Following
    <3>2. QED
      BY <2>4, <3>1, EventAdded
  <2>6. pc' \notin {"polling", "returned"} => Brought'
    <3>1. Mine'.told = After(Mine.told, e) /\ Mine'.told \in Seq(Pieces)
      BY <2>2, <2>3, <2>4 DEF After, Runs
    <3>2. QED
      BY <2>1, <2>4, <3>1, BroughtGrows DEF Telling, client
  <2>7. result'.state # "completed"
    BY <2>1 DEF Following, client
  <2>8. QED
    BY <2>2, <2>5, <2>6, <2>7 DEF Telling
<1>5. CASE Cancel \/ (\E a \in BOOLEAN : Steer(a) \/ StopRun(a) \/ AnswerApproval(a))
  <2>1. UNCHANGED <<stream, text, result>>
    BY <1>5 DEF Cancel, Steer, StopRun, AnswerApproval, gateway
  <2>2. pc' \notin {"polling", "returned"} => pc \notin {"polling", "returned"}
    BY <1>5 DEF Cancel, Steer, StopRun, AnswerApproval
  <2>3. CASE ~HasRun
    <3>1. UNCHANGED runs
      BY <1>5, <2>3 DEF Cancel, Steer, StopRun, AnswerApproval, Following, gateway
    <3>2. QED
      BY <2>1, <2>2, <3>1, TellingKept
  <2>4. CASE HasRun
    <3>1. HasRun' /\ Mine'.told = Mine.told
      BY <1>5, <2>4, ToldKept
    <3>2. Mine.status = "completed" => Mine'.output = Mine.output
      BY <1>5, <2>4, RecordKept, FollowingKept DEF RunStep
    <3>3. pc' \notin {"polling", "returned"} => Brought'
      BY <2>1, <2>2, <2>4, <3>1, BroughtKept DEF Telling
    <3>4. result.state = "completed" => Mine.status = "completed"
      BY DEF Following
    <3>5. QED
      BY <2>1, <3>1, <3>2, <3>3, <3>4 DEF Telling
  <2>5. QED
    BY <2>3, <2>4
<1>6. CASE ReadDelta \/ ReadTool \/ ReadApproval
  <2>1. /\ stream # <<>> /\ stream' = Tail(stream) /\ pc = "reading" /\ UNCHANGED <<runs, result>>
        /\ text' = After(text, Head(stream))
    BY <1>6 DEF ReadDelta, ReadTool, ReadApproval, After
  <2>2. HasRun /\ HasRun' /\ Mine' = Mine /\ result.state = "none"
    BY <2>1 DEF HasRun, Mine, Following
  <2>3. Brought'
    BY <2>1, <2>2, BroughtRead DEF Telling
  <2>4. \A j \in 1..Len(stream') : stream'[j].event = "completed" => j = Len(stream')
    <3>1. Len(stream') = Len(stream) - 1 /\ Len(stream) \in Nat
      BY <2>1, EventRead, LenProperties DEF TypeOK
    <3>2. \A j \in 1..Len(stream') : j + 1 \in 1..Len(stream) /\ stream'[j] = stream[j + 1]
      BY <2>1, <3>1, EventRead
    <3>3. QED
      BY <3>1, <3>2 DEF Telling
  <2>5. QED
    BY <2>1, <2>2, <2>3, <2>4 DEF Telling
<1>7. CASE ReadEnd
  <2>1. stream # <<>> /\ stream' = Tail(stream) /\ pc = "reading" /\ UNCHANGED <<runs, text>>
    BY <1>7 DEF ReadEnd
  <2>2. HasRun /\ HasRun' /\ Mine' = Mine /\ result.state = "none"
    BY <2>1 DEF HasRun, Mine, Following
  <2>3. /\ Head(stream) = stream[1] /\ 1 \in 1..Len(stream) /\ Len(stream) \in Nat
        /\ Len(stream') = Len(stream) - 1
        /\ \A j \in 1..Len(stream') : j + 1 \in 1..Len(stream) /\ stream'[j] = stream[j + 1]
    BY <2>1, EventRead, LenProperties DEF TypeOK
  <2>4. \A j \in 1..Len(stream') : stream'[j].event = "completed" => j = Len(stream')
    BY <2>3 DEF Telling
  <2>5. Head(stream).event = "completed" => text = Mine.told /\ Head(stream).output = Mine.output
    <3> SUFFICES ASSUME Head(stream).event = "completed"
                 PROVE  text = Mine.told /\ Head(stream).output = Mine.output
      OBVIOUS
    <3>1. Len(stream) = 1 /\ stream[1].event = "completed" /\ stream[1].output = Mine.output
      BY <2>3 DEF Telling, Following
    <3>2. PICK said \in [0..Len(stream) -> Seq(Pieces)] :
            /\ said[0] = text /\ said[Len(stream)] = Mine.told
            /\ \A i \in 1..Len(stream) : said[i] = After(said[i - 1], stream[i])
      BY <2>1, <2>2 DEF Telling, Brought
    <3>3. said[1] = After(said[0], stream[1])
      BY <3>1, <3>2
    <3>4. QED
      BY <2>3, <3>1, <3>2, <3>3 DEF After
  <2>6. pc' \in {"returned", "polling"}
    BY <1>7, ReadEndTo DEF Answers, Return
  <2>7. result'.state = "completed" =>
          /\ result'.text = (IF Mine.output = "empty" THEN Mine.told ELSE <<>>)
          /\ result'.output = "empty" => result'.text # <<>>
    <3>1. CASE Answers
      BY <2>5, <3>1 DEF Answers, Return, Completed, Taken
    <3>2. CASE Return(Stopped)
      BY <3>2 DEF Return, Stopped, NoResult
    <3>3. CASE UNCHANGED result
      BY <2>2, <3>3
    <3>4. QED
      BY <1>7, <3>1, <3>2, <3>3, ReadEndTo
  <2>8. QED
    BY <2>2, <2>4, <2>6, <2>7 DEF Telling
<1>8. CASE StreamEnds \/ StreamBreaks
  <2>1. /\ pc = "reading" /\ stream' = <<>> /\ UNCHANGED <<runs, text>> /\ pc' \in {"returned", "polling"}
        /\ Return(Stopped) \/ UNCHANGED result
    BY <1>8 DEF StreamEnds, StreamBreaks, EndedEarly, Return
  <2>2. HasRun /\ HasRun' /\ result.state = "none" /\ 1..Len(stream') = {}
    BY <2>1, EmptySeq DEF HasRun, Following
  <2>3. result'.state # "completed"
    BY <2>1, <2>2 DEF Return, Stopped, NoResult
  <2>4. QED
    BY <2>1, <2>2, <2>3 DEF Telling
<1>9. CASE PollEnds
  <2>1. /\ UNCHANGED <<runs, stream, text>> /\ pc' = "returned"
        /\ \/ Mine.output # "empty" /\ result' = Completed(Mine.output, <<>>)
           \/ result' = Error
    BY <1>9 DEF PollEnds, Return, gateway
  <2>2. HasRun' = HasRun /\ Mine' = Mine
    BY <2>1 DEF HasRun, Mine
  <2>3. result'.state = "completed" => Mine.output # "empty" /\ result'.text = <<>> /\ result'.output # "empty"
    BY <2>1 DEF Completed, Error, NoResult
  <2>4. QED
    BY <2>1, <2>2, <2>3 DEF Telling
<1>10. QED
  BY <1>1, <1>2, <1>3, <1>4, <1>5, <1>6, <1>7, <1>8, <1>9 DEF Next, ClientStep, PostReturns

-----------------------------------------------------------------------------
(* The client's picture of an ask is a picture of the run, for any number of
   retries, steers, polls and frames.                                       *)
LEMMA Inductive == Spec => [](TypeOK /\ Posting /\ Following /\ Telling)
<1>1. Init => TypeOK /\ Posting /\ Following /\ Telling
  BY TypeInit, PostingInit, FollowingInit, TellingInit
<1>2. (TypeOK /\ Posting /\ Following /\ Telling) /\ [Next]_vars => (TypeOK /\ Posting /\ Following /\ Telling)'
  BY TypeStep, PostingStep, FollowingStep, TellingStep
<1>3. QED
  BY <1>1, <1>2, PTL DEF Spec

(* The variables of an ask keep their types: what submitRun, streamRun and
   pollRun may leave there.                                                 *)
THEOREM TypeCorrect == Spec => []TypeOK
BY Inductive, PTL

(* However often the POST is retried, sent again or late, one run works on the
   message: submitRun mints one key and sends it with every attempt.        *)
THEOREM MessageRunsOnce == Spec => []OneRun
<1>1. TypeOK /\ Posting => OneRun
  BY AskAssumption DEF TypeOK, Posting, Drops, OneRun
<1>2. QED
  BY <1>1, Inductive, PTL

(* What a completed ask returns is what its run completed with, by the stream
   or by the poll: the output or, where that came empty, all of the text the
   stream brought.                                                          *)
THEOREM AnswersAreTheRuns == Spec => []AnswerIsTheRuns
<1>1. TypeOK /\ Posting /\ Following /\ Telling => AnswerIsTheRuns
  <2> SUFFICES ASSUME TypeOK, Posting, Following, Telling, result.state = "completed"
               PROVE  /\ Mine.status = "completed" /\ result.output = Mine.output
                      /\ result.text = (IF Mine.output = "empty" THEN Mine.told ELSE <<>>)
                      /\ result.output = "empty" => result.text # <<>>
                      /\ result.threaded => Mine.session
    BY DEF AnswerIsTheRuns
  <2>1. HasRun /\ result.threaded = ~dropped
    BY DEF Following
  <2>2. Mine.session \/ dropped
    BY <2>1, MineType DEF Posting, Mine
  <2>3. QED
    BY <2>1, <2>2 DEF Following, Telling
<1>2. QED
  BY <1>1, Inductive, PTL

(* An ask that comes back stopped had its run take the stop. *)
THEOREM StopsWereTaken == Spec => []StoppedIsStopped
<1>1. Following => StoppedIsStopped
  BY DEF Following, StoppedIsStopped
<1>2. QED
  BY <1>1, Inductive, PTL

(* Once the stop is taken, hermesTool sends nothing more for the run. *)
THEOREM StoppedIsLeftAlone == Spec => QuietAfterStop
<1>1. TypeOK /\ Posting /\ Following /\ [Next]_vars => [stopping => redirects' = redirects]_vars
  <2> SUFFICES ASSUME Following, Next, stopping PROVE redirects' = redirects
    OBVIOUS
  <2>1. pc # "steer" /\ pc # "stop"
    BY DEF Following
  <2>2. QED
    BY <2>1 DEF Next, ClientStep, PostReturns, Start, Submit, Take, Reject, Refuse, Unreachable, Connect,
       ReadDelta, ReadTool, ReadApproval, ReadEnd, Steer, StopRun, AnswerApproval, PollEnds, PollWaits, Abort, RunWorks,
       RunEnds, StreamEnds, StreamBreaks, EndedEarly, Return, Cancel, history
<1>2. QED
  BY <1>1, Inductive, PTL DEF Spec, QuietAfterStop
=============================================================================
