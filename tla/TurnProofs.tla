----------------------------- MODULE TurnProofs -----------------------------
(***************************************************************************)
(* Theorems of Turn, for every budget, every bound and every set of texts. *)
(***************************************************************************)
EXTENDS Turn, FiniteSetTheorems, SequenceTheorems, TLAPS

(* The countdown tier is one of the five, whatever the budget. *)
LEMMA BudgetAtTier ==
  ASSUME NEW next \in Nat, NEW n \in Nat
  PROVE  BudgetAt(next, n) \in Tiers
<1>1. RoundTier(next) \in Tiers
  BY BudgetAssumption DEF RoundTier, RoundsLeft, Tiers, tierNone, tierWarn, tierFinish, tierLast, tierOut
<1>2. CallTier(n) \in Tiers
  BY BudgetAssumption DEF CallTier, Tiers, tierNone, tierWarn, tierFinish, tierLast, tierOut
<1>3. QED
  BY <1>1, <1>2 DEF BudgetAt, Larger

(* An envelope that is not capped runs at least its first call, no more than
   it has, than one envelope may run and than the turn has left.            *)
LEMMA RunnableBounds ==
  ASSUME NEW n \in Nat \ {0}, NEW c \in Nat, ~CallsSpent(c)
  PROVE  /\ Runnable(n, c) \in Nat \ {0}
         /\ Runnable(n, c) <= n
         /\ MaxCallsPerRound > 0 => Runnable(n, c) <= MaxCallsPerRound
         /\ MaxCalls > 0 => c + Runnable(n, c) <= MaxCalls
BY BudgetAssumption DEF CallsSpent, Runnable, PerEnvelope, Smaller

-----------------------------------------------------------------------------
(* Facts on the sequences messages are made of. *)

LEMMA RangeType ==
  ASSUME NEW S, NEW s \in Seq(S)
  PROVE  Range(s) \in SUBSET S
BY DEF Range

LEMMA RefsType ==
  ASSUME NEW s \in Seq(Element)
  PROVE  Refs(s) \in SUBSET Nat
<1>1. Range(s) \in SUBSET Element
  BY RangeType
<1>2. QED
  BY <1>1 DEF Refs, Element

LEMMA RefsEmpty == Refs(<<>>) = {}
BY DEF Refs, Range

(* Answering one more call adds its ref, if it ran. *)
LEMMA RefsAppend ==
  ASSUME NEW s \in Seq(Element), NEW e \in Element
  PROVE  Refs(Append(s, e)) = Refs(s) \cup ({e.ref} \ {0})
<1>1. Range(Append(s, e)) = Range(s) \cup {e}
  <2>1. Append(s, e) \in Seq(Element) /\ Len(Append(s, e)) = Len(s) + 1
    BY AppendProperties
  <2>2. \A i \in 1 .. Len(s) : Append(s, e)[i] = s[i]
    BY AppendProperties
  <2>3. Append(s, e)[Len(s) + 1] = e
    BY AppendProperties
  <2>4. DOMAIN s = 1 .. Len(s) /\ DOMAIN Append(s, e) = 1 .. Len(s) + 1 /\ Len(s) \in Nat
    BY <2>1, LenProperties
  <2>5. QED
    BY <2>2, <2>3, <2>4 DEF Range
<1>2. QED
  BY <1>1 DEF Refs

-----------------------------------------------------------------------------
LEMMA MessageType ==
  ASSUME NEW kind \in {"none", "task", "results", "resend"}, NEW full \in SUBSET Texts,
         NEW restated \in SUBSET Texts, NEW results \in Results, NEW tier \in Tiers
  PROVE  Message(kind, full, restated, results, tier) \in Messages
BY DEF Message, Messages

LEMMA NoMessageType == NoMessage \in Messages
<1>1. <<>> \in Results /\ tierNone \in Tiers
  BY DEF Results, Tiers, tierNone, tierOut
<1>2. QED
  BY <1>1, MessageType DEF NoMessage

(* The end of a turn leaves the turn's state well typed. *)
LEMMA EndType ==
  ASSUME TypeOK, NEW how \in {"ok", "blocked", "cancelled"}, NEW note \in BOOLEAN, End(how, note)
  PROVE  /\ pc' = "idle" /\ outcome' = how /\ pendingNote' \in BOOLEAN
         /\ fixups' \in Nat /\ stops' \in Nat /\ recap' \in BOOLEAN /\ added' \in Seq(Texts)
         /\ send' \in Messages /\ stopped' \in Messages /\ inflight' \in Messages
         /\ pending' \in [elems : Results, round : Nat]
         /\ batch' \in Batches /\ try' \in Nat
<1>1. <<>> \in Seq(Texts) /\ <<>> \in Results
  BY DEF Results
<1>2. NoPending \in [elems : Results, round : Nat] /\ NoBatch \in Batches
  BY <1>1 DEF NoPending, NoBatch, Batches
<1>3. QED
  BY <1>1, <1>2, NoMessageType DEF End

LEMMA LearnedType ==
  ASSUME TypeOK, Learned
  PROVE  told' \in SUBSET Nat /\ noteTurn' \in Nat
<1>1. inflight.results \in Seq(Element)
  BY DEF TypeOK, Messages, Results
<1>2. Refs(inflight.results) \in SUBSET Nat
  BY <1>1, RefsType
<1>3. QED
  BY <1>2 DEF Learned, TypeOK

LEMMA ResultsMsgType ==
  ASSUME TypeOK, NEW elems \in Results, NEW after \in Nat
  PROVE  ResultsMsg(elems, after, calls) \in Messages
<1>1. Range(added) \in SUBSET Texts
  BY RangeType DEF TypeOK
<1>2. BudgetAt(after + 1, calls) \in Tiers
  BY BudgetAtTier DEF TypeOK
<1>3. QED
  BY <1>1, <1>2, MessageType DEF ResultsMsg

-----------------------------------------------------------------------------
(* The steps of the loop, one lemma each: what it leaves is well typed. *)

LEMMA StartTurnType == TypeOK /\ StartTurn => TypeOK'
<1> SUFFICES ASSUME TypeOK, StartTurn PROVE TypeOK'
  OBVIOUS
<1>1. Range(inbox) \in SUBSET Texts /\ {} \in SUBSET Texts /\ <<>> \in Results /\ tierNone \in Tiers
  BY RangeType DEF TypeOK, Results, Tiers, tierNone, tierOut
<1>2. Message("task", Range(inbox), {}, <<>>, tierNone) \in Messages
  BY <1>1, MessageType
<1>3. send' \in Messages
  BY <1>2 DEF StartTurn, TypeOK, Messages
<1>4. noteTurn' \in Nat /\ pendingNote' \in BOOLEAN /\ inbox' \in Seq(Texts)
  <2>1. noteTurn' = (IF pendingNote THEN turns + 1 ELSE noteTurn)
    BY Zenon DEF StartTurn
  <2>2. noteTurn' \in Nat
    BY <2>1 DEF TypeOK
  <2>3. pendingNote' \in BOOLEAN /\ inbox' = <<>>
    BY Zenon DEF StartTurn
  <2>4. QED
    BY <2>2, <2>3
<1>5. pc' = "prepare" /\ outcome' = "none" /\ round' \in Nat /\ calls' \in Nat /\ noted' \in Tiers
      /\ turns' \in Nat /\ used' \in Nat /\ ran' \in SUBSET Nat /\ told' \in SUBSET Nat
  BY <1>1 DEF StartTurn, TypeOK
<1>6. /\ ref' \in Nat /\ owned' \in BOOLEAN /\ fixups' \in Nat /\ stops' \in Nat /\ recap' \in BOOLEAN
      /\ added' \in Seq(Texts) /\ stopped' \in Messages /\ pending' \in [elems : Results, round : Nat]
      /\ batch' \in Batches /\ try' \in Nat /\ inflight' \in Messages
  BY Zenon DEF StartTurn, TypeOK
<1>7. QED
  BY <1>3, <1>4, <1>5, <1>6, Zenon DEF TypeOK

LEMMA RequestType == TypeOK /\ Request => TypeOK'
<1> SUFFICES ASSUME TypeOK, Request PROVE TypeOK'
  OBVIOUS
<1>1. Range(inbox) \in SUBSET Texts
  BY RangeType DEF TypeOK
<1>2. owned' \in BOOLEAN
  BY DEF Request, TypeOK
<1>3. send' \in Messages
  <2>1. send' = [send EXCEPT !.full = send.full \cup Range(inbox)]
    BY Zenon DEF Request
  <2>2. send \in Messages /\ send.full \cup Range(inbox) \in SUBSET Texts
    BY <1>1 DEF TypeOK, Messages
  <2>3. QED
    BY <2>1, <2>2 DEF Messages
<1>4. inflight' \in Messages
  <2>1. inflight' = Sent(send', owned')
    BY Zenon DEF Request
  <2>2. recap \in BOOLEAN /\ owned' \in BOOLEAN
    BY <1>2 DEF TypeOK
  <2>3. QED
    BY <1>3, <2>1, <2>2 DEF Messages, Sent
<1>5. added' \in Seq(Texts) /\ inbox' \in Seq(Texts)
  BY ConcatProperties DEF Request, TypeOK
<1>6. QED
  BY <1>2, <1>3, <1>4, <1>5 DEF Request, TypeOK

LEMMA AskAgainType ==
  TypeOK /\ (RecoverCompact \/ RecoverRefit \/ \E th \in BOOLEAN : Stopped(th) \/ Resend(th)) => TypeOK'
<1> SUFFICES ASSUME TypeOK, RecoverCompact \/ RecoverRefit \/ \E th \in BOOLEAN : Stopped(th) \/ Resend(th)
             PROVE  TypeOK'
  OBVIOUS
<1>1. CASE RecoverCompact
  BY <1>1 DEF RecoverCompact, TypeOK
<1>2. CASE RecoverRefit
  <2>1. ResultsMsg(pending.elems, pending.round, calls) \in Messages
    BY ResultsMsgType DEF TypeOK
  <2>2. NoPending \in [elems : Results, round : Nat]
    BY DEF NoPending, Results
  <2>3. QED
    BY <1>2, <2>1, <2>2 DEF RecoverRefit, Refitted, TypeOK
<1>3. ASSUME NEW th \in BOOLEAN, Stopped(th)
      PROVE  TypeOK'
  <2>1. stopped' \in Messages /\ recap' \in BOOLEAN
    BY <1>3 DEF Stopped, Remembered, Returned, TypeOK
  <2>2. send' \in Messages
    BY <1>3, <2>1 DEF Stopped, Corrected, Messages
  <2>3. QED
    BY <1>3, <2>1, <2>2 DEF Stopped, TypeOK
<1>4. ASSUME NEW th \in BOOLEAN, Resend(th)
      PROVE  TypeOK'
  <2>1. Range(added) \in SUBSET Texts /\ <<>> \in Results /\ tierNone \in Tiers /\ {} \in SUBSET Texts
    BY RangeType DEF TypeOK, Results, Tiers, tierNone, tierOut
  <2>2. Nudge \in Messages
    BY <2>1, MessageType DEF Nudge
  <2>3. NoPending \in [elems : Results, round : Nat] /\ recap' \in BOOLEAN
    BY <1>4, <2>1 DEF NoPending, Resend, Returned, TypeOK
  <2>4. told' \in SUBSET Nat /\ noteTurn' \in Nat
    BY <1>4, LearnedType DEF Resend
  <2>5. QED
    BY <1>4, <2>2, <2>3, <2>4 DEF Resend, TypeOK
<1>5. QED
  BY <1>1, <1>2, <1>3, <1>4

LEMMA TurnEndType ==
  TypeOK /\ (Failed \/ Overflow \/ StoppedTooOften \/ Answer \/ Unusable \/ OverBudget \/ Abort) => TypeOK'
<1> SUFFICES ASSUME TypeOK, Failed \/ Overflow \/ StoppedTooOften \/ Answer \/ Unusable \/ OverBudget \/ Abort
             PROVE  TypeOK'
  OBVIOUS
<1>1. CASE Failed \/ Overflow \/ StoppedTooOften
  BY <1>1, EndType DEF Failed, Overflow, StoppedTooOften, TypeOK
<1>2. CASE Answer \/ Unusable \/ OverBudget
  BY <1>2, EndType, LearnedType DEF Answer, Unusable, OverBudget, TypeOK
<1>3. CASE Abort
  <2>1. End("cancelled", TRUE)
    BY <1>3 DEF Abort
  <2>2. ref' \in Nat /\ calls' \in Nat
    BY <1>3 DEF Abort, TypeOK
  <2>3. QED
    BY <1>3, <2>1, <2>2, EndType, Zenon DEF Abort, TypeOK
<1>4. QED
  BY <1>1, <1>2, <1>3

LEMMA CallsType ==
  ASSUME TypeOK,
         \/ \E n \in 1..MaxBatch, soe \in BOOLEAN, th \in BOOLEAN : Envelope(n, soe, th)
         \/ \E exit \in {"ok", "failed"} : RunCall(exit)
         \/ NotRun
         \/ Report
  PROVE  TypeOK'
<1>1. ASSUME NEW n \in 1..MaxBatch, NEW soe \in BOOLEAN, NEW th \in BOOLEAN, Envelope(n, soe, th)
      PROVE  TypeOK'
  <2>1. n \in Nat \ {0} /\ ~CallsSpent(calls) /\ calls \in Nat
    BY <1>1, TurnAssumption DEF Envelope, Capped, TypeOK
  <2>2. batch' \in Batches
    BY <1>1, <2>1, RunnableBounds DEF Envelope, Batches, Results
  <2>3. told' \in SUBSET Nat /\ noteTurn' \in Nat /\ recap' \in BOOLEAN
    BY <1>1, LearnedType DEF Envelope, Returned, TypeOK
  <2>4. QED
    BY <1>1, <2>2, <2>3 DEF Envelope, TypeOK
<1>2. ASSUME NEW exit \in {"ok", "failed"}, RunCall(exit)
      PROVE  TypeOK'
  <2>1. [ref |-> ref + 1, exit |-> exit] \in Element
    BY DEF TypeOK, Element
  <2>2. Append(batch.elems, [ref |-> ref + 1, exit |-> exit]) \in Results
    BY <2>1, AppendProperties DEF TypeOK, Batches, Results
  <2>3. Position \in Nat
    BY LenProperties DEF Position, TypeOK, Batches, Results
  <2>4. batch' \in Batches
    BY <1>2, <2>2, <2>3 DEF RunCall, TypeOK, Batches
  <2>5. ref' \in Nat /\ calls' \in Nat /\ ran' \subseteq Nat
    <3>1. ref' = ref + 1 /\ calls' = calls + 1 /\ ran' = ran \cup {ref + 1}
      BY <1>2 DEF RunCall
    <3>2. ref \in Nat /\ calls \in Nat /\ ran \subseteq Nat
      BY DEF TypeOK
    <3>3. QED
      BY <3>1, <3>2
  <2>6. QED
    BY <1>2, <2>4, <2>5 DEF RunCall, TypeOK
<1>3. CASE NotRun
  <2>1. [ref |-> 0, exit |-> "not_run"] \in Element
    BY DEF Element
  <2>2. Append(batch.elems, [ref |-> 0, exit |-> "not_run"]) \in Results
    BY <2>1, AppendProperties DEF TypeOK, Batches, Results
  <2>3. batch' \in Batches
    BY <1>3, <2>2 DEF NotRun, TypeOK, Batches
  <2>4. QED
    BY <1>3, <2>3 DEF NotRun, TypeOK
<1>4. CASE Report
  <2>1. batch.elems \in Results /\ round \in Nat /\ <<>> \in Results
    BY DEF TypeOK, Batches, Results
  <2>2. send' \in Messages /\ pending' \in [elems : Results, round : Nat] /\ batch' \in Batches
    BY <1>4, <2>1, ResultsMsgType DEF Report, NoBatch, Batches
  <2>3. noted' \in Tiers
    BY <1>4, BudgetAtTier DEF Report, Announced, Larger, TypeOK
  <2>4. QED
    BY <1>4, <2>2, <2>3 DEF Report, TypeOK
<1>5. QED
  BY <1>1, <1>2, <1>3, <1>4

LEMMA TypeInductive == TypeOK /\ [Next]_vars => TypeOK'
<1> SUFFICES ASSUME TypeOK, [Next]_vars PROVE TypeOK'
  OBVIOUS
<1>1. ASSUME NEW text \in Texts, Push(text)
      PROVE  TypeOK'
  BY <1>1, AppendProperties DEF Push, TypeOK
<1>2. CASE UNCHANGED vars
  BY <1>2 DEF vars, TypeOK
<1>3. QED
  BY <1>1, <1>2, StartTurnType, RequestType, AskAgainType, TurnEndType, CallsType
     DEF Next, LoopStep, CallReturns, ComesBack, Reply

LEMMA InitType == Init => TypeOK
<1>1. <<>> \in Results /\ <<>> \in Seq(Texts) /\ tierNone \in Tiers
  BY DEF Results, Tiers, tierNone, tierOut
<1>2. NoPending \in [elems : Results, round : Nat] /\ NoBatch \in Batches
  BY <1>1 DEF NoPending, NoBatch, Batches
<1>3. SUFFICES ASSUME Init PROVE TypeOK
  OBVIOUS
<1>4. pendingNote \in BOOLEAN /\ owned \in BOOLEAN /\ recap \in BOOLEAN
  BY <1>3, Zenon DEF Init
<1>5. /\ turns \in Nat /\ ref \in Nat /\ round \in Nat /\ calls \in Nat /\ fixups \in Nat
      /\ stops \in Nat /\ try \in Nat /\ ran \in SUBSET Nat /\ told \in SUBSET Nat
      /\ used \in Nat /\ noteTurn \in Nat
  BY <1>3 DEF Init
<1>6. QED
  BY <1>1, <1>2, <1>3, <1>4, <1>5, NoMessageType, Zenon DEF Init, TypeOK

(* Every variable of the loop keeps its type. *)
THEOREM TypeCorrect == Spec => []TypeOK
BY InitType, TypeInductive, PTL DEF Spec

-----------------------------------------------------------------------------
(* Rounds and calls. *)

LEMMA CountingInit == Init => Counting
<1> SUFFICES ASSUME Init PROVE Counting
  OBVIOUS
<1>1. Len(batch.elems) = 0 /\ batch.keep = 0 /\ batch = NoBatch /\ pc = "idle"
  BY DEF Init, NoBatch
<1>2. fixups = 0 /\ stops = 0 /\ round = 0 /\ used = 0 /\ calls = 0
  BY DEF Init
<1>3. QED
  BY <1>1, <1>2, BudgetAssumption, TurnAssumption DEF Counting, Unspent

(* What the call budget allows the envelope at work is set aside for it. *)
LEMMA CallsSetAside ==
  ASSUME TypeOK, Counting, MaxCalls > 0
  PROVE  /\ Len(batch.elems) \in Nat /\ batch.keep \in Nat
         /\ Len(batch.elems) <= batch.keep => calls + (batch.keep - Len(batch.elems)) <= MaxCalls
         /\ calls <= MaxCalls
<1>1. Len(batch.elems) \in Nat /\ batch.keep \in Nat /\ calls \in Nat
  BY LenProperties DEF TypeOK, Batches, Results
<1>2. calls + Unspent <= MaxCalls
  BY DEF Counting
<1>3. CASE Len(batch.elems) <= batch.keep
  <2>1. Unspent = batch.keep - Len(batch.elems)
    BY <1>3 DEF Unspent
  <2>2. QED
    BY <1>1, <1>2, <1>3, <2>1, BudgetAssumption
<1>4. CASE ~(Len(batch.elems) <= batch.keep)
  <2>1. Unspent = 0
    BY <1>4 DEF Unspent
  <2>2. QED
    BY <1>1, <1>2, <1>4, <2>1, BudgetAssumption
<1>5. QED
  BY <1>3, <1>4

(* A turn that ends leaves the counts within bounds. *)
LEMMA CountingEnd ==
  ASSUME TypeOK, Counting, NEW how \in {"ok", "blocked", "cancelled"}, NEW note \in BOOLEAN,
         End(how, note), round' = round, used' = used,
         \/ pc = "asking" /\ calls' = calls
         \/ pc = "running" /\ ~HeldBack /\ calls' = calls + 1
  PROVE  Counting'
<1>1. batch' = NoBatch /\ batch'.keep = 0 /\ Len(batch'.elems) = 0 /\ Unspent' = 0
  BY DEF End, NoBatch, Unspent
<1>2. pc' = "idle" /\ fixups' = 0 /\ stops' = 0
  BY DEF End
<1>3. used <= calls'
  BY DEF Counting, TypeOK
<1>4. MaxCalls > 0 => calls' <= MaxCalls
  <2>1. calls \in Nat
    BY DEF TypeOK
  <2>2. CASE pc = "asking" /\ calls' = calls
    BY <2>2, CallsSetAside
  <2>3. CASE pc = "running" /\ ~HeldBack /\ calls' = calls + 1
    <3>1. ~(Len(batch.elems) + 1 > batch.keep)
      BY <2>3 DEF HeldBack, Position
    <3>2. QED
      BY <2>1, <2>3, <3>1, CallsSetAside, BudgetAssumption
  <2>4. QED
    BY <2>2, <2>3
<1>5. QED
  BY <1>1, <1>2, <1>3, <1>4, TurnAssumption DEF Counting, TypeOK

LEMMA CountingInductive == TypeOK /\ Counting /\ [Next]_vars => Counting'
<1> SUFFICES ASSUME TypeOK, Counting, [Next]_vars PROVE Counting'
  OBVIOUS
<1> USE BudgetAssumption, TurnAssumption
<1>0. Len(batch.elems) \in Nat /\ batch.elems \in Seq(Element) /\ batch.keep \in Nat /\ batch.n \in Nat
  BY LenProperties DEF TypeOK, Batches, Results
<1>1. CASE StartTurn
  <2>1. batch' = NoBatch /\ fixups' = 0 /\ stops' = 0 /\ pc' = "prepare"
    BY <1>1 DEF StartTurn, Counting
  <2>2. round' = 1 /\ used' = 0 /\ calls' = 0
    BY <1>1 DEF StartTurn
  <2>3. Unspent' = 0
    BY <2>1 DEF Unspent, NoBatch
  <2>4. MaxCalls > 0 => calls' + Unspent' <= MaxCalls
    BY <2>2, <2>3
  <2>5. QED
    BY <2>1, <2>2, <2>3, <2>4 DEF Counting
<1>2. ASSUME NEW text \in Texts, Push(text)
      PROVE  Counting'
  BY <1>2 DEF Push, Counting, Unspent
<1>3. CASE Request
  BY <1>3 DEF Request, Counting, Unspent
<1>4. CASE RecoverCompact \/ RecoverRefit
  BY <1>4 DEF RecoverCompact, RecoverRefit, Counting, Unspent
<1>5. ASSUME NEW th \in BOOLEAN, Stopped(th) \/ Resend(th)
      PROVE  Counting'
  <2>1. batch' = batch /\ pc = "asking" /\ pc' = "prepare" /\ Unspent' = Unspent
    BY <1>5 DEF Stopped, Resend, Unspent
  <2>2. used' = used /\ calls' = calls /\ round' = round + 1
    BY <1>5 DEF Stopped, Resend
  <2>3. \/ fixups' = fixups /\ stops' = stops + 1 /\ stops < maxStops
        \/ fixups' = fixups + 1 /\ stops' = stops /\ fixups < maxFixups
    BY <1>5 DEF Stopped, Resend, NudgesLeft
  <2>4. batch' = NoBatch /\ used <= calls
    BY <2>1 DEF Counting, TypeOK
  <2>5. /\ round \in Nat /\ used \in Nat /\ fixups \in Nat /\ stops \in Nat /\ calls \in Nat
        /\ round = 1 + used + fixups + stops /\ fixups <= maxFixups /\ stops <= maxStops
    BY <2>1 DEF Counting, TypeOK
  <2>6. /\ fixups' <= maxFixups /\ stops' <= maxStops
        /\ round' = 1 + used' + fixups' + stops'
        /\ round' <= 1 + used' + maxFixups + maxStops
    BY <2>2, <2>3, <2>5
  <2>7. MaxCalls > 0 => calls' + Unspent' <= MaxCalls
    BY <2>1, <2>2 DEF Counting
  <2>8. MaxRounds > 0 => used' <= MaxRounds
    BY <2>2 DEF Counting
  <2>9. QED
    BY <2>1, <2>2, <2>4, <2>6, <2>7, <2>8 DEF Counting
<1>6. CASE Failed \/ Overflow \/ StoppedTooOften \/ Answer \/ Unusable \/ OverBudget
  BY <1>6, CountingEnd DEF Failed, Overflow, StoppedTooOften, Answer, Unusable, OverBudget, TypeOK
<1>7. CASE Abort
  BY <1>7, CountingEnd DEF Abort
<1>8. ASSUME NEW n \in 1..MaxBatch, NEW soe \in BOOLEAN, NEW th \in BOOLEAN, Envelope(n, soe, th)
      PROVE  Counting'
  <2>1. n \in Nat \ {0} /\ ~CallsSpent(calls) /\ calls \in Nat
    BY <1>8 DEF Envelope, Capped, TypeOK
  <2>2. /\ Runnable(n, calls) \in Nat \ {0}
        /\ MaxCalls > 0 => calls + Runnable(n, calls) <= MaxCalls
    BY <2>1, RunnableBounds
  <2>3. batch'.n = n /\ batch'.keep = Runnable(n, calls) /\ batch'.elems = <<>> /\ Len(batch'.elems) = 0
    BY <1>8 DEF Envelope
  <2>4. MaxCalls > 0 => (calls + Unspent)' <= MaxCalls
    BY <1>8, <2>2, <2>3 DEF Envelope, Unspent, TypeOK
  <2>5. QED
    BY <1>8, <2>1, <2>2, <2>3, <2>4 DEF Envelope, Counting, TypeOK, Capped, RoundsSpent
<1>9. ASSUME NEW exit \in {"ok", "failed"}, RunCall(exit)
      PROVE  Counting'
  <2> DEFINE e == [ref |-> ref + 1, exit |-> exit]
  <2>1. e \in Element
    BY DEF TypeOK, Element
  <2>2. Len(Append(batch.elems, e)) = Len(batch.elems) + 1 /\ Append(batch.elems, e) # <<>>
    BY <1>0, <2>1, AppendProperties
  <2>3. /\ batch'.elems = Append(batch.elems, e) /\ batch'.n = batch.n
        /\ batch'.keep \in {batch.keep, Position}
    BY <1>9 DEF RunCall, TypeOK, Batches
  <2>4. pc = "running" /\ pc' = "running" /\ calls' = calls + 1 /\ Position <= batch.keep
    BY <1>0, <1>9 DEF RunCall, HeldBack, Position
  <2>5. MaxCalls > 0 => (calls + Unspent)' <= MaxCalls
    <3>1. Len(batch'.elems) = Len(batch.elems) + 1 /\ calls \in Nat
      BY <2>2, <2>3 DEF TypeOK
    <3>2. Len(batch.elems) + 1 <= batch.keep
      BY <2>4 DEF Position
    <3>3. MaxCalls > 0 => calls + (batch.keep - Len(batch.elems)) <= MaxCalls
      BY <1>0, <3>2, CallsSetAside
    <3>4. batch'.keep \in Nat /\ Len(batch.elems) + 1 <= batch'.keep /\ batch'.keep <= batch.keep
      BY <1>0, <2>3, <3>2 DEF Position
    <3>5. MaxCalls > 0 => Unspent' = batch'.keep - (Len(batch.elems) + 1)
      BY <3>1, <3>4 DEF Unspent
    <3>6. QED
      BY <1>0, <2>4, <3>1, <3>3, <3>4, <3>5
  <2>6. /\ used' = used /\ round' = round /\ fixups' = fixups /\ stops' = stops
        /\ batch'.n > 0 /\ batch'.keep > 0 /\ batch'.elems # <<>>
    <3>1. used' = used /\ round' = round /\ fixups' = fixups /\ stops' = stops
      BY <1>9 DEF RunCall
    <3>2. batch.n > 0 /\ batch.keep > 0
      BY <2>4 DEF Counting
    <3>3. Position > 0
      BY <1>0 DEF Position
    <3>4. QED
      BY <2>2, <2>3, <3>1, <3>2, <3>3
  <2>7. used' <= calls'
    BY <2>4, <2>6 DEF Counting, TypeOK
  <2>8. QED
    BY <2>4, <2>5, <2>6, <2>7 DEF Counting, TypeOK
<1>10. CASE NotRun
  <2> DEFINE e == [ref |-> 0, exit |-> "not_run"]
  <2>1. e \in Element
    BY DEF Element
  <2>2. Len(Append(batch.elems, e)) = Len(batch.elems) + 1 /\ Append(batch.elems, e) # <<>>
    BY <1>0, <2>1, AppendProperties
  <2>3. batch'.elems = Append(batch.elems, e) /\ batch'.n = batch.n /\ batch'.keep = batch.keep
    BY <1>10 DEF NotRun, TypeOK, Batches
  <2>4. pc = "running" /\ pc' = "running" /\ calls' = calls /\ Len(batch.elems) >= batch.keep
    BY <1>0, <1>10 DEF NotRun, HeldBack, Position
  <2>5. batch.elems # <<>>
    BY <1>0, <2>4 DEF Counting
  <2>6. MaxCalls > 0 => calls' + Unspent' <= MaxCalls
    <3>1. ~(Len(batch'.elems) <= batch'.keep)
      BY <1>0, <2>2, <2>3, <2>4
    <3>2. Unspent' = 0
      BY <3>1 DEF Unspent
    <3>3. calls' \in Nat
      BY <2>4 DEF TypeOK
    <3>4. MaxCalls > 0 => calls' <= MaxCalls
      BY <2>4, CallsSetAside
    <3>5. calls' + Unspent' = calls' + 0
      BY <3>2
    <3>6. QED
      BY <3>3, <3>4, <3>5
  <2>7. QED
    BY <1>0, <1>10, <2>2, <2>3, <2>4, <2>5, <2>6 DEF NotRun, Counting, TypeOK
<1>11. CASE Report
  <2>1. batch.elems # <<>> /\ pc = "running"
    BY <1>0, <1>11 DEF Report, AllAnswered, Position, Counting
  <2>2. batch' = NoBatch /\ Unspent' = 0
    BY <1>11 DEF Report, NoBatch, Unspent
  <2>3. MaxCalls > 0 => calls <= MaxCalls
    BY CallsSetAside
  <2>4. /\ used' = used /\ calls' = calls /\ fixups' = fixups /\ stops' = stops
        /\ round' = round + 1 /\ pc' = "prepare"
    BY <1>11 DEF Report
  <2>5. round = used + fixups + stops /\ used <= calls
    BY <2>1 DEF Counting, TypeOK
  <2>6. round' = 1 + used' + fixups' + stops' /\ used' <= calls'
    BY <2>4, <2>5 DEF TypeOK
  <2>7. /\ fixups <= maxFixups /\ stops <= maxStops
        /\ MaxRounds > 0 => used <= MaxRounds
    BY DEF Counting
  <2>8. round' <= 1 + used' + maxFixups + maxStops
    BY <2>4, <2>6, <2>7 DEF TypeOK
  <2>9. MaxCalls > 0 => calls' + Unspent' <= MaxCalls
    <3>1. calls' + Unspent' = calls + 0
      BY <2>2, <2>4
    <3>2. QED
      BY <2>3, <3>1 DEF TypeOK
  <2>10. (IF pc' = "running" /\ batch'.elems = <<>> THEN 1 ELSE 0) = 0 /\ calls' \in Nat
    BY <2>4 DEF TypeOK
  <2>11. used' <= calls' + (IF pc' = "running" /\ batch'.elems = <<>> THEN 1 ELSE 0)
    BY <2>6, <2>10
  <2>12. QED
    BY <2>2, <2>4, <2>6, <2>7, <2>8, <2>9, <2>11 DEF Counting
<1>12. CASE UNCHANGED vars
  BY <1>12 DEF vars, Counting, Unspent
<1>13. QED
  BY <1>1, <1>2, <1>3, <1>4, <1>5, <1>6, <1>7, <1>8, <1>9, <1>10, <1>11, <1>12
     DEF Next, LoopStep, CallReturns, ComesBack, Reply

(* A turn's rounds are bounded by its budget, the nudges and the stops. *)
THEOREM RoundsAreBounded == Spec => []RoundsBounded
<1>1. TypeOK /\ Counting => RoundsBounded
  <2> SUFFICES ASSUME TypeOK, Counting PROVE RoundsBounded
    OBVIOUS
  <2>1. Len(batch.elems) \in Nat /\ batch.keep \in Nat /\ (batch.elems = <<>> => Len(batch.elems) = 0)
    BY LenProperties DEF TypeOK, Batches, Results
  <2>2. MaxCalls > 0 => used <= MaxCalls
    <3>1. CASE pc = "running" /\ batch.elems = <<>>
      <4>1. calls \in Nat /\ used \in Nat /\ batch.keep > 0 /\ used <= calls + 1
        BY <3>1 DEF Counting, TypeOK
      <4>2. MaxCalls > 0 => calls + (batch.keep - Len(batch.elems)) <= MaxCalls
        BY <2>1, <3>1, <4>1, CallsSetAside
      <4>3. QED
        BY <2>1, <3>1, <4>1, <4>2, BudgetAssumption
    <3>2. CASE ~(pc = "running" /\ batch.elems = <<>>)
      <4>1. used <= calls
        BY <3>2 DEF Counting, TypeOK
      <4>2. MaxCalls > 0 => calls <= MaxCalls
        BY CallsSetAside
      <4>3. QED
        BY <4>1, <4>2, BudgetAssumption DEF TypeOK
    <3>3. QED
      BY <3>1, <3>2
  <2>3. QED
    BY <2>2, BudgetAssumption, TurnAssumption DEF Counting, TypeOK, RoundsBounded
<1>2. QED
  BY <1>1, InitType, TypeInductive, CountingInit, CountingInductive, PTL DEF Spec
-----------------------------------------------------------------------------
(* The calls of an envelope. *)

(* Answering one more call with a call that ran adds at most one ref. *)
LEMMA RefsGrow ==
  ASSUME NEW s \in Seq(Element), NEW e \in Element,
         IsFiniteSet(Refs(s)), Cardinality(Refs(s)) <= Len(s)
  PROVE  /\ IsFiniteSet(Refs(Append(s, e)))
         /\ Cardinality(Refs(Append(s, e))) <= Len(s) + 1
         /\ Len(Append(s, e)) = Len(s) + 1
<1>1. Refs(Append(s, e)) = Refs(s) \cup ({e.ref} \ {0})
  BY RefsAppend
<1>2. Len(s) \in Nat /\ Len(Append(s, e)) = Len(s) + 1 /\ Cardinality(Refs(s)) \in Nat
  BY LenProperties, AppendProperties, FS_CardinalityType
<1>3. CASE e.ref = 0
  <2>1. Refs(Append(s, e)) = Refs(s)
    BY <1>1, <1>3
  <2>2. QED
    BY <1>2, <2>1
<1>4. CASE e.ref # 0
  <2>1. Refs(Append(s, e)) = Refs(s) \cup {e.ref}
    BY <1>1, <1>4
  <2>2. /\ IsFiniteSet(Refs(s) \cup {e.ref})
        /\ Cardinality(Refs(s) \cup {e.ref}) \in {Cardinality(Refs(s)), Cardinality(Refs(s)) + 1}
    BY FS_AddElement
  <2>3. QED
    BY <1>2, <2>1, <2>2
<1>5. QED
  BY <1>3, <1>4

LEMMA BatchingNone == Len(NoBatch.elems) = 0 /\ (batch = NoBatch => Batching)
<1>1. NoBatch.elems = <<>> /\ NoBatch.keep = 0
  BY DEF NoBatch
<1>2. Refs(NoBatch.elems) = {} /\ Len(NoBatch.elems) = 0
  BY <1>1, RefsEmpty
<1>3. IsFiniteSet({}) /\ Cardinality({}) = 0
  BY FS_EmptySet
<1>4. ASSUME batch = NoBatch
      PROVE  Batching
  <2>1. Refs(batch.elems) = {} /\ Len(batch.elems) = 0 /\ batch.keep = 0
    BY <1>1, <1>2, <1>4
  <2>2. QED
    BY <1>3, <2>1, BudgetAssumption DEF Batching
<1>5. QED
  BY <1>2, <1>4

LEMMA BatchingInductive == TypeOK /\ Batching /\ [Next]_vars => Batching'
<1> SUFFICES ASSUME TypeOK, Batching, [Next]_vars PROVE Batching'
  OBVIOUS
<1>0. /\ batch.elems \in Seq(Element) /\ Len(batch.elems) \in Nat
      /\ batch.keep \in Nat /\ batch.n \in Nat
  BY LenProperties DEF TypeOK, Batches, Results
<1>1. CASE batch' = batch
  BY <1>1 DEF Batching
<1>2. CASE batch' = NoBatch
  <2>1. Refs(batch'.elems) = {} /\ Len(batch'.elems) = 0 /\ batch'.keep = 0
    BY <1>2, RefsEmpty DEF NoBatch
  <2>2. IsFiniteSet({}) /\ Cardinality({}) = 0
    BY FS_EmptySet
  <2>3. QED
    BY <2>1, <2>2, BudgetAssumption DEF Batching
<1>3. ASSUME NEW n \in 1..MaxBatch, NEW soe \in BOOLEAN, NEW th \in BOOLEAN, Envelope(n, soe, th)
      PROVE  Batching'
  <2>1. n \in Nat \ {0} /\ ~CallsSpent(calls) /\ calls \in Nat
    BY <1>3, TurnAssumption DEF Envelope, Capped, TypeOK
  <2>2. Refs(batch'.elems) = {} /\ Len(batch'.elems) = 0 /\ batch'.keep = Runnable(n, calls)
    BY <1>3, RefsEmpty DEF Envelope
  <2>3. IsFiniteSet({}) /\ Cardinality({}) = 0
    BY FS_EmptySet
  <2>4. QED
    BY <2>1, <2>2, <2>3, RunnableBounds, BudgetAssumption DEF Batching
<1>4. ASSUME NEW exit \in {"ok", "failed"}, RunCall(exit)
      PROVE  Batching'
  <2> DEFINE e == [ref |-> ref + 1, exit |-> exit]
  <2>1. e \in Element
    BY DEF TypeOK, Element
  <2>2. batch'.elems = Append(batch.elems, e) /\ batch'.keep \in {batch.keep, Position}
    BY <1>4 DEF RunCall, TypeOK, Batches
  <2>3. Len(batch.elems) + 1 <= batch.keep /\ Position = Len(batch.elems) + 1
    BY <1>0, <1>4 DEF RunCall, HeldBack, Position
  <2>4. /\ IsFiniteSet(Refs(batch'.elems))
        /\ Cardinality(Refs(batch'.elems)) <= Len(batch.elems) + 1
        /\ Len(batch'.elems) = Len(batch.elems) + 1
    <3> HIDE DEF e
    <3>1. QED
      BY <1>0, <2>1, <2>2, RefsGrow DEF Batching
  <2>5. Cardinality(Refs(batch'.elems)) \in Nat
    BY <2>4, FS_CardinalityType
  <2>6. QED
    BY <1>0, <2>2, <2>3, <2>4, <2>5, BudgetAssumption DEF Batching
<1>5. CASE NotRun
  <2> DEFINE e == [ref |-> 0, exit |-> "not_run"]
  <2>1. e \in Element /\ e.ref = 0
    BY DEF Element
  <2>2. batch'.elems = Append(batch.elems, e) /\ batch'.keep = batch.keep
    BY <1>5 DEF NotRun, TypeOK, Batches
  <2>3. Refs(batch'.elems) = Refs(batch.elems) /\ Len(batch'.elems) = Len(batch.elems) + 1
    <3> HIDE DEF e
    <3>1. Refs(Append(batch.elems, e)) = Refs(batch.elems) \cup ({e.ref} \ {0})
      BY <1>0, <2>1, RefsAppend
    <3>2. QED
      BY <1>0, <2>1, <2>2, <3>1, AppendProperties
  <2>4. Cardinality(Refs(batch.elems)) \in Nat
    BY FS_CardinalityType DEF Batching
  <2>5. QED
    BY <1>0, <2>2, <2>3, <2>4 DEF Batching
<1>6. CASE StartTurn \/ Request \/ RecoverCompact \/ RecoverRefit
           \/ (\E text \in Texts : Push(text))
           \/ (\E th \in BOOLEAN : Stopped(th) \/ Resend(th)) \/ UNCHANGED vars
  BY <1>1, <1>6 DEF StartTurn, Request, RecoverCompact, RecoverRefit, Push, Stopped, Resend, vars
<1>7. CASE Failed \/ Overflow \/ StoppedTooOften \/ Answer \/ Unusable \/ OverBudget \/ Abort \/ Report
  BY <1>2, <1>7 DEF Failed, Overflow, StoppedTooOften, Answer, Unusable, OverBudget, Abort, Report, End
<1>8. QED
  BY <1>3, <1>4, <1>5, <1>6, <1>7 DEF Next, LoopStep, CallReturns, ComesBack, Reply

(* The hands run no more calls than the turn's and the envelope's budget. *)
THEOREM CallsAreBounded == Spec => []CallsBounded
<1>1. Init => Batching
  BY BatchingNone DEF Init
<1>2. TypeOK /\ Counting /\ Batching => CallsBounded
  <2> SUFFICES ASSUME TypeOK, Counting, Batching PROVE CallsBounded
    OBVIOUS
  <2>1. Len(batch.elems) \in Nat /\ batch.keep \in Nat
    BY LenProperties DEF TypeOK, Batches, Results
  <2>2. Unspent \in Nat /\ calls \in Nat
    BY <2>1 DEF Unspent, TypeOK
  <2>3. MaxCalls > 0 => calls + Unspent <= MaxCalls
    BY DEF Counting
  <2>4. QED
    BY <2>2, <2>3, BudgetAssumption DEF Batching, CallsBounded
<1>3. QED
  BY <1>1, <1>2, InitType, TypeInductive, CountingInit, CountingInductive, BatchingInductive, PTL DEF Spec

(* Whatever the budgets, neither is exceeded. *)
THEOREM BudgetsHold == Spec => []WithinBudget
<1>1. RoundsBounded /\ CallsBounded => WithinBudget
  BY DEF WithinBudget
<1>2. QED
  BY <1>1, RoundsAreBounded, CallsAreBounded, PTL
-----------------------------------------------------------------------------
(* What Hermes has read, and the exchange. *)

(* A turn that ends otherwise than with an answer. *)
LEMMA EndsWithout ==
  ASSUME Failed \/ Overflow \/ StoppedTooOften \/ Abort \/ OverBudget
  PROVE  pc # "idle" /\ pc' = "idle" /\ pending' = NoPending /\ outcome' # "ok" /\ ran' = ran
<1>1. CASE Failed \/ Overflow \/ StoppedTooOften
  BY <1>1 DEF Failed, Overflow, StoppedTooOften, End
<1>2. CASE Abort
  BY <1>2 DEF Abort, End
<1>3. CASE OverBudget
  BY <1>3 DEF OverBudget, End
<1>4. QED
  BY <1>1, <1>2, <1>3

LEMMA InformedInductive == TypeOK /\ Informed /\ [Next]_vars => Informed'
<1> SUFFICES ASSUME TypeOK, Informed, [Next]_vars PROVE Informed'
  OBVIOUS
<1>1. CASE StartTurn
  <2>1. send'.results = <<>> /\ send'.mark = FALSE
    BY <1>1, Zenon DEF StartTurn, Message
  <2>2. /\ pc' = "prepare" /\ ran' = {} /\ told' = {} /\ outcome' = "none"
        /\ pending' = NoPending
    BY <1>1 DEF StartTurn, Informed
  <2>3. QED
    BY <2>1, <2>2, RefsEmpty DEF Informed
<1>2. ASSUME NEW text \in Texts, Push(text)
      PROVE  Informed'
  BY <1>2 DEF Push, Informed
<1>3. CASE Request
  <2>1. send' = [send EXCEPT !.full = send.full \cup Range(inbox)]
    BY <1>3, Zenon DEF Request
  <2>2. send'.results = send.results /\ send'.mark = send.mark
    BY <2>1 DEF TypeOK, Messages
  <2>3. inflight'.results = send'.results
    BY <1>3, <2>1 DEF Request, Sent, TypeOK, Messages
  <2>4. QED
    BY <1>3, <2>2, <2>3 DEF Request, Informed
<1>4. CASE RecoverCompact
  BY <1>4 DEF RecoverCompact, Informed
<1>5. CASE RecoverRefit
  <2>1. send'.results = pending.elems /\ ~send'.mark /\ inflight' = send'
    BY <1>5, Zenon DEF RecoverRefit, Refitted, ResultsMsg, Message
  <2>2. pending.elems = send.results
    BY <1>5 DEF RecoverRefit, Informed
  <2>3. QED
    BY <1>5, <2>1, <2>2 DEF RecoverRefit, Informed
<1>6. ASSUME NEW th \in BOOLEAN, Stopped(th)
      PROVE  Informed'
  <2>1. stopped'.results = send.results
    BY <1>6 DEF Stopped, Remembered, Informed
  <2>2. send'.results = stopped'.results
    BY <1>6 DEF Stopped, Corrected, Remembered, TypeOK, Messages
  <2>3. QED
    BY <1>6, <2>1, <2>2 DEF Stopped, Informed
<1>7. ASSUME NEW th \in BOOLEAN, Resend(th)
      PROVE  Informed'
  <2>1. send'.results = <<>> /\ ~send'.mark /\ pending' = NoPending
    BY <1>7, Zenon DEF Resend, Nudge, Message
  <2>2. ran' = ran /\ told' = ran
    BY <1>7 DEF Resend, Learned, Informed
  <2>3. QED
    BY <1>7, <2>1, <2>2, RefsEmpty DEF Resend, Informed
<1>8. CASE Failed \/ Overflow \/ StoppedTooOften \/ Abort
  <2>1. ran' = ran /\ ref' \in {ref, ref + 1}
    BY <1>8 DEF Failed, Overflow, StoppedTooOften, Abort
  <2>2. pc' = "idle" /\ pending' = NoPending /\ outcome' # "ok"
    BY <1>8, EndsWithout
  <2>3. \A r \in ran' : r <= ref'
    BY <2>1 DEF TypeOK, Informed
  <2>4. QED
    BY <2>2, <2>3 DEF Informed
<1>9. CASE Answer \/ Unusable \/ OverBudget
  <2>1. ran' = ran /\ told' = ran /\ ref' = ref
    BY <1>9 DEF Answer, Unusable, OverBudget, Learned, Informed
  <2>2. pc' = "idle" /\ pending' = NoPending
    BY <1>9 DEF Answer, Unusable, OverBudget, End
  <2>3. QED
    BY <2>1, <2>2 DEF Informed
<1>10. ASSUME NEW n \in 1..MaxBatch, NEW soe \in BOOLEAN, NEW th \in BOOLEAN, Envelope(n, soe, th)
       PROVE  Informed'
  <2>1. ran' = ran /\ told' = ran /\ ref' = ref
    BY <1>10 DEF Envelope, Learned, Informed
  <2>2. Refs(batch'.elems) = {} /\ pc' = "running" /\ outcome' = "none"
    BY <1>10, RefsEmpty DEF Envelope, Informed
  <2>3. QED
    BY <2>1, <2>2 DEF Informed
<1>11. CASE (\E exit \in {"ok", "failed"} : RunCall(exit)) \/ NotRun
  <2>1. PICK e \in Element :
          /\ batch'.elems = Append(batch.elems, e)
          /\ \/ e.ref = ref + 1 /\ ran' = ran \cup {ref + 1} /\ ref' = ref + 1
             \/ e.ref = 0 /\ ran' = ran /\ ref' = ref
    <3>1. ASSUME NEW exit \in {"ok", "failed"}, RunCall(exit)
          PROVE  \E e \in Element :
                   /\ batch'.elems = Append(batch.elems, e)
                   /\ e.ref = ref + 1 /\ ran' = ran \cup {ref + 1} /\ ref' = ref + 1
      <4>1. [ref |-> ref + 1, exit |-> exit] \in Element
        BY DEF TypeOK, Element
      <4>2. QED
        BY <3>1, <4>1 DEF RunCall, TypeOK, Batches
    <3>2. CASE NotRun
      <4>1. [ref |-> 0, exit |-> "not_run"] \in Element
        BY DEF Element
      <4>2. QED
        BY <3>2, <4>1 DEF NotRun, TypeOK, Batches
    <3>3. QED
      BY <1>11, <3>1, <3>2
  <2>2. batch.elems \in Seq(Element)
    BY DEF TypeOK, Batches, Results
  <2>3. Refs(batch'.elems) = Refs(batch.elems) \cup ({e.ref} \ {0})
    BY <2>1, <2>2, RefsAppend
  <2>4. /\ pc = "running" /\ pc' = "running" /\ told' = told /\ outcome' = outcome
        /\ ran = told \cup Refs(batch.elems)
    BY <1>11 DEF RunCall, NotRun, Informed
  <2>5. ran' = told' \cup Refs(batch'.elems)
    BY <2>1, <2>3, <2>4 DEF TypeOK
  <2>6. \A r \in ran' : r <= ref'
    <3>1. ran \in SUBSET Nat /\ ref \in Nat /\ \A r \in ran : r <= ref
      BY DEF TypeOK, Informed
    <3>2. CASE ran' = ran \cup {ref + 1} /\ ref' = ref + 1
      BY <3>1, <3>2
    <3>3. CASE ran' = ran /\ ref' = ref
      BY <3>1, <3>3
    <3>4. QED
      BY <2>1, <3>2, <3>3
  <2>7. QED
    BY <2>4, <2>5, <2>6 DEF Informed
<1>12. CASE Report
  <2>1. send'.results = batch.elems /\ ~send'.mark /\ pending'.elems = batch.elems
    BY <1>12, Zenon DEF Report, ResultsMsg, Message
  <2>2. QED
    BY <1>12, <2>1 DEF Report, Informed
<1>13. CASE UNCHANGED vars
  BY <1>13 DEF vars, Informed
<1>14. QED
  BY <1>1, <1>2, <1>3, <1>4, <1>5, <1>6, <1>7, <1>8, <1>9, <1>10, <1>11, <1>12, <1>13
     DEF Next, LoopStep, CallReturns, ComesBack, Reply

LEMMA InformedInit == Init => Informed
BY RefsEmpty DEF Init, Informed, NoPending

(* An answer comes only after Hermes read the results of every call. *)
THEOREM AnswersAreInformed == Spec => []AnswerInformed
<1>1. Informed => AnswerInformed
  BY DEF Informed, AnswerInformed
<1>2. QED
  BY <1>1, InitType, TypeInductive, InformedInit, InformedInductive, PTL DEF Spec

-----------------------------------------------------------------------------
(* The loop implements the exchange: each step of the loop is one of Exchange
   or leaves what Exchange sees alone.                                      *)

LEMMA ExchangeStep == TypeOK /\ Informed /\ Informed' /\ [Next]_vars => [E!Next]_(E!evars)
<1> SUFFICES ASSUME TypeOK, Informed, Informed', [Next]_vars PROVE [E!Next]_(E!evars)
  OBVIOUS
<1> USE DEF Phase, E!evars
<1>1. CASE StartTurn
  <2>1. E!Begin
    BY <1>1 DEF StartTurn, E!Begin
  <2>2. QED
    BY <2>1 DEF E!Next
<1>2. ASSUME \/ \E text \in Texts : Push(text)
             \/ Request \/ RecoverCompact \/ RecoverRefit
             \/ \E th \in BOOLEAN : Stopped(th)
             \/ NotRun
             \/ UNCHANGED vars
      PROVE  UNCHANGED E!evars
  BY <1>2 DEF Push, Request, RecoverCompact, RecoverRefit, Stopped, NotRun, vars
<1>3. ASSUME NEW th \in BOOLEAN, Resend(th)
      PROVE  E!Next
  <2>1. told' = ran
    BY <1>3 DEF Resend, Learned, Informed
  <2>2. E!AskAgain
    BY <1>3, <2>1 DEF Resend, E!AskAgain
  <2>3. QED
    BY <2>2 DEF E!Next
<1>4. CASE Failed \/ Overflow \/ StoppedTooOften \/ Abort \/ OverBudget
  <2>1. told' \in {told, ran} /\ ran' = ran
    BY <1>4, EndsWithout DEF Failed, Overflow, StoppedTooOften, Abort, OverBudget, Learned, Informed
  <2>2. pc # "idle" /\ pc' = "idle" /\ outcome = "none" /\ outcome' # "ok"
    BY <1>4, EndsWithout DEF Informed
  <2>3. E!GiveUp
    BY <2>1, <2>2 DEF E!GiveUp, TypeOK
  <2>4. QED
    BY <2>3 DEF E!Next
<1>5. CASE Answer \/ Unusable
  <2>1. told' = ran /\ ran' = ran
    BY <1>5 DEF Answer, Unusable, Learned, Informed
  <2>2. pc = "asking" /\ pc' = "idle" /\ outcome # "ok"
    BY <1>5 DEF Answer, Unusable, End, Informed
  <2>3. CASE outcome' = "ok"
    BY <2>1, <2>2, <2>3 DEF E!AnswerTurn, E!Next
  <2>4. CASE outcome' # "ok"
    BY <2>1, <2>2, <2>4 DEF E!GiveUp, E!Next
  <2>5. QED
    BY <2>3, <2>4
<1>6. ASSUME NEW n \in 1..MaxBatch, NEW soe \in BOOLEAN, NEW th \in BOOLEAN, Envelope(n, soe, th)
      PROVE  E!Next
  <2>1. told' = ran
    BY <1>6 DEF Envelope, Learned, Informed
  <2>2. E!Act
    BY <1>6, <2>1 DEF Envelope, E!Act
  <2>3. QED
    BY <2>2 DEF E!Next
<1>7. ASSUME NEW exit \in {"ok", "failed"}, RunCall(exit)
      PROVE  E!Next
  <2>1. ran' = ran \cup {ref + 1} /\ ref + 1 \notin ran
    BY <1>7 DEF RunCall, Informed, TypeOK
  <2>2. E!RunOne
    BY <1>7, <2>1 DEF RunCall, E!RunOne
  <2>3. QED
    BY <2>2 DEF E!Next
<1>8. CASE Report
  BY <1>8 DEF Report, E!Report, E!Next
<1>9. QED
  BY <1>1, <1>2, <1>3, <1>4, <1>5, <1>6, <1>7, <1>8 DEF Next, LoopStep, CallReturns, ComesBack, Reply

(* The turn loop implements the exchange: no call runs and no answer is given
   on results Hermes has not read.                                          *)
THEOREM LoopImplementsExchange == Spec => ImplementsExchange
<1>1. Init => E!Init
  BY DEF Init, E!Init, Phase
<1>2. QED
  BY <1>1, InitType, TypeInductive, InformedInit, InformedInductive, ExchangeStep, PTL
     DEF Spec, ImplementsExchange, E!ESpec

-----------------------------------------------------------------------------
(* The order of the results. *)

(* Answering one more call keeps the refs in a row: with the ref after the
   last one's, or with none.                                                *)
LEMMA RowGrows ==
  ASSUME NEW es \in Seq(Element), NEW e \in Element, NEW last \in Nat, InARow(es),
         \/ e.ref = 0
         \/ e.ref = last + 1 /\ \A i \in DOMAIN es : es[i].ref # 0
            /\ (es # <<>> => es[Len(es)].ref = last)
  PROVE  InARow(Append(es, e))
<1> DEFINE new == Append(es, e)
<1>1. Len(es) \in Nat /\ DOMAIN es = 1 .. Len(es) /\ DOMAIN new = 1 .. Len(es) + 1
  BY LenProperties, AppendProperties
<1>2. new[Len(es) + 1] = e /\ \A i \in DOMAIN es : new[i] = es[i] /\ es[i] \in Element
  BY AppendProperties, ElementOfSeq
<1> HIDE DEF new
<1> SUFFICES ASSUME NEW i \in DOMAIN new, NEW j \in DOMAIN new, i < j, new[j].ref # 0
             PROVE  new[j].ref = new[i].ref + (j - i)
  BY DEF InARow, new
<1>3. i \in DOMAIN es
  BY <1>1
<1>4. CASE j \in DOMAIN es
  BY <1>2, <1>3, <1>4 DEF InARow
<1>5. CASE j = Len(es) + 1
  <2>1. e.ref = last + 1 /\ es[Len(es)].ref = last /\ Len(es) \in DOMAIN es /\ es[Len(es)].ref # 0
    <3>1. es # <<>> /\ Len(es) \in DOMAIN es
      BY <1>1, <1>3
    <3>2. QED
      BY <1>2, <1>5, <3>1
  <2>2. i < Len(es) => last = es[i].ref + (Len(es) - i)
    BY <1>3, <2>1 DEF InARow
  <2>3. es[i].ref \in Nat /\ i \in Nat
    BY <1>1, <1>2, <1>3 DEF Element
  <2>4. last = es[i].ref + (Len(es) - i)
    BY <1>1, <1>3, <1>5, <2>1, <2>2, <2>3
  <2>5. QED
    BY <1>1, <1>2, <1>3, <1>5, <2>1, <2>3, <2>4
<1>6. QED
  BY <1>1, <1>4, <1>5

LEMMA SequencedNone == batch = NoBatch => Sequenced
<1> SUFFICES ASSUME batch = NoBatch PROVE Sequenced
  OBVIOUS
<1>1. batch.elems = <<>> /\ batch.n = 0 /\ Len(batch.elems) = 0 /\ DOMAIN batch.elems = {}
  BY DEF NoBatch
<1>2. QED
  BY <1>1 DEF Sequenced, InARow

(* One more call of the envelope is answered. *)
LEMMA SequencedCall ==
  ASSUME TypeOK, Counting, Sequenced,
         (\E exit \in {"ok", "failed"} : RunCall(exit)) \/ NotRun
  PROVE  Sequenced'
<1> DEFINE es == batch.elems
           k == Len(es) + 1
<1>1. es \in Seq(Element) /\ Len(es) \in Nat /\ DOMAIN es = 1 .. Len(es) /\ batch.keep \in Nat
      /\ batch.n \in Nat /\ ref \in Nat /\ batch \in Batches
  BY LenProperties DEF TypeOK, Batches, Results
<1>2. PICK e \in Element :
        /\ batch'.elems = Append(es, e) /\ batch'.n = batch.n /\ batch'.stopOnError = batch.stopOnError
        /\ \/ e.ref = ref + 1 /\ ref' = ref + 1 /\ k <= batch.keep
              /\ batch'.keep = IF batch.stopOnError /\ e.exit # "ok" /\ k < batch.n THEN k ELSE batch.keep
           \/ e.ref = 0 /\ e.exit = "not_run" /\ ref' = ref /\ k > batch.keep /\ batch'.keep = batch.keep
  <2>1. ASSUME NEW exit \in {"ok", "failed"}, RunCall(exit)
        PROVE  \E e \in Element :
                 /\ batch'.elems = Append(es, e) /\ batch'.n = batch.n
                 /\ batch'.stopOnError = batch.stopOnError
                 /\ e.ref = ref + 1 /\ ref' = ref + 1 /\ k <= batch.keep
                 /\ batch'.keep = IF batch.stopOnError /\ e.exit # "ok" /\ k < batch.n THEN k ELSE batch.keep
    <3>1. [ref |-> ref + 1, exit |-> exit] \in Element
      BY <1>1 DEF Element
    <3>2. k <= batch.keep /\ Position = k
      BY <1>1, <2>1 DEF RunCall, HeldBack, Position
    <3>3. QED
      BY <1>1, <2>1, <3>1, <3>2 DEF RunCall, Batches
  <2>2. CASE NotRun
    <3>1. [ref |-> 0, exit |-> "not_run"] \in Element
      BY DEF Element
    <3>2. QED
      BY <1>1, <2>2, <3>1 DEF NotRun, HeldBack, Position, Batches
  <2>3. QED
    BY <2>1, <2>2
<1>3. k <= batch.n /\ batch.keep > 0
  BY <1>1 DEF RunCall, NotRun, Position, Counting
<1> DEFINE new == Append(es, e)
<1>4. Len(new) = k /\ DOMAIN new = 1 .. k /\ new[k] = e /\ \A i \in DOMAIN es : new[i] = es[i]
  BY <1>1, <1>2, LenProperties, AppendProperties
<1>5. batch'.keep \in Nat /\ (k <= batch.keep => batch'.keep \in k .. batch.keep)
      /\ (k > batch.keep => batch'.keep = batch.keep)
  BY <1>1, <1>2
<1>6. \A i \in DOMAIN es : es[i].ref = 0 <=> i > batch.keep
  BY DEF Sequenced
<1>7. InARow(new)
  <2>1. CASE e.ref = 0
    BY <1>1, <1>2, <2>1, RowGrows DEF Sequenced
  <2>2. CASE e.ref # 0
    <3>1. e.ref = ref + 1 /\ k <= batch.keep
      BY <1>2, <2>2
    <3>2. \A i \in DOMAIN es : es[i].ref # 0
      BY <1>1, <1>6, <3>1
    <3>3. es # <<>> => es[Len(es)].ref = ref
      BY <1>1, <3>1 DEF Sequenced
    <3>4. InARow(es)
      BY DEF Sequenced
    <3> HIDE DEF es
    <3>5. QED
      BY <1>1, <1>2, <3>1, <3>2, <3>3, <3>4, RowGrows
  <2>3. QED
    BY <2>1, <2>2
<1>8. \A i \in DOMAIN new : new[i].ref = 0 <=> i > batch'.keep
  <2> SUFFICES ASSUME NEW i \in DOMAIN new PROVE new[i].ref = 0 <=> i > batch'.keep
    OBVIOUS
  <2>1. CASE i = k
    BY <1>1, <1>2, <1>4, <1>5, <2>1
  <2>2. CASE i \in DOMAIN es
    BY <1>1, <1>4, <1>5, <1>6, <2>2
  <2>3. QED
    BY <1>1, <1>4, <2>1, <2>2
<1>9. Len(new) <= batch'.keep => new[Len(new)].ref = ref'
  BY <1>1, <1>2, <1>4, <1>5
<1>10. \A i \in DOMAIN new :
         (batch.stopOnError /\ new[i].exit = "failed") => (batch'.keep <= i \/ i = batch.n)
  <2> SUFFICES ASSUME NEW i \in DOMAIN new, batch.stopOnError, new[i].exit = "failed"
               PROVE  batch'.keep <= i \/ i = batch.n
    OBVIOUS
  <2>1. CASE i = k
    <3>1. e.exit = "failed"
      BY <1>4, <2>1
    <3>2. batch'.keep = IF k < batch.n THEN k ELSE batch.keep
      BY <1>2, <3>1
    <3>3. QED
      BY <1>1, <1>3, <2>1, <3>2
  <2>2. CASE i \in DOMAIN es
    <3>1. batch.keep <= i \/ i = batch.n
      BY <1>4, <2>2 DEF Sequenced
    <3>2. i < k
      BY <1>1, <2>2
    <3>3. QED
      BY <1>1, <1>3, <1>5, <2>2, <3>1, <3>2
  <2>3. QED
    BY <1>1, <1>4, <2>1, <2>2
<1>11. QED
  BY <1>2, <1>3, <1>4, <1>7, <1>8, <1>9, <1>10, Zenon DEF Sequenced

LEMMA SequencedInductive == TypeOK /\ Counting /\ Sequenced /\ [Next]_vars => Sequenced'
<1> SUFFICES ASSUME TypeOK, Counting, Sequenced, [Next]_vars PROVE Sequenced'
  OBVIOUS
<1>1. CASE (\E exit \in {"ok", "failed"} : RunCall(exit)) \/ NotRun
  BY <1>1, SequencedCall
<1>2. ASSUME NEW n \in 1..MaxBatch, NEW soe \in BOOLEAN, NEW th \in BOOLEAN, Envelope(n, soe, th)
      PROVE  Sequenced'
  <2>1. batch'.elems = <<>> /\ Len(batch'.elems) = 0 /\ DOMAIN batch'.elems = {} /\ batch'.n = n /\ n \in Nat
    BY <1>2, TurnAssumption DEF Envelope
  <2>2. QED
    BY <2>1 DEF Sequenced, InARow
<1>3. CASE batch' = batch /\ ref' = ref
  BY <1>3 DEF Sequenced
<1>4. CASE batch' = NoBatch
  <2>1. batch'.elems = <<>> /\ batch'.n = 0 /\ Len(batch'.elems) = 0 /\ DOMAIN batch'.elems = {}
    BY <1>4 DEF NoBatch
  <2>2. QED
    BY <2>1 DEF Sequenced, InARow
<1>5. CASE StartTurn \/ Request \/ RecoverCompact \/ RecoverRefit
           \/ (\E text \in Texts : Push(text))
           \/ (\E th \in BOOLEAN : Stopped(th) \/ Resend(th)) \/ UNCHANGED vars
  BY <1>3, <1>5 DEF StartTurn, Request, RecoverCompact, RecoverRefit, Push, Stopped, Resend, vars
<1>6. CASE Failed \/ Overflow \/ StoppedTooOften \/ Answer \/ Unusable \/ OverBudget \/ Abort \/ Report
  BY <1>4, <1>6 DEF Failed, Overflow, StoppedTooOften, Answer, Unusable, OverBudget, Abort, Report, End
<1>7. QED
  BY <1>1, <1>2, <1>5, <1>6 DEF Next, LoopStep, CallReturns, ComesBack, Reply

(* An envelope all of whose calls are answered: the results are in order. *)
LEMMA AnsweredInOrder ==
  ASSUME TypeOK, Counting, Sequenced, Report
  PROVE  FirstRan(batch.elems) /\ InARow(batch.elems)
<1>1. batch.elems \in Seq(Element) /\ Len(batch.elems) \in Nat /\ DOMAIN batch.elems = 1 .. Len(batch.elems)
      /\ batch.n \in Nat /\ batch.keep \in Nat
  BY LenProperties DEF TypeOK, Batches, Results
<1>2. Len(batch.elems) > 0 /\ 1 \in DOMAIN batch.elems /\ batch.keep > 0 /\ batch.elems # <<>>
  BY <1>1 DEF Report, AllAnswered, Position, Counting
<1>3. batch.elems[1].ref # 0
  BY <1>1, <1>2 DEF Sequenced
<1>4. QED
  BY <1>2, <1>3 DEF Sequenced, FirstRan

LEMMA InOrderNone == InOrder(NoMessage)
BY DEF InOrder, NoMessage, Message

LEMMA OrderedInductive == TypeOK /\ Counting /\ Sequenced /\ Ordered /\ [Next]_vars => Ordered'
<1> SUFFICES ASSUME TypeOK, Counting, Sequenced, Ordered, [Next]_vars PROVE Ordered'
  OBVIOUS
<1>1. CASE StartTurn
  <2>1. send'.kind = "task"
    BY <1>1, Zenon DEF StartTurn, Message
  <2>2. InOrder(send')
    BY <2>1 DEF InOrder
  <2>3. stopped' = stopped /\ inflight' = inflight /\ pending' = pending
    BY <1>1 DEF StartTurn
  <2>4. QED
    BY <2>2, <2>3 DEF Ordered
<1>2. CASE Request
  <2>1. send' = [send EXCEPT !.full = send.full \cup Range(inbox)] /\ inflight' = Sent(send', owned')
    BY <1>2, Zenon DEF Request
  <2>2. send'.kind = send.kind /\ send'.results = send.results /\ send' \in Messages
    BY <2>1, <1>2, RequestType DEF TypeOK, Messages
  <2>3. inflight'.kind = send'.kind /\ inflight'.results = send'.results
    BY <2>1, <2>2 DEF Sent, Messages
  <2>4. InOrder(send') /\ InOrder(inflight')
    BY <2>2, <2>3 DEF Ordered, InOrder
  <2>5. stopped' = stopped /\ pending' = pending
    BY <1>2 DEF Request
  <2>6. QED
    BY <2>4, <2>5 DEF Ordered
<1>3. CASE RecoverCompact
  BY <1>3 DEF RecoverCompact, Ordered
<1>4. CASE RecoverRefit
  <2>1. send'.results = pending.elems /\ inflight' = send' /\ pending' = NoPending /\ stopped' = stopped
    BY <1>4, Zenon DEF RecoverRefit, Refitted, ResultsMsg, Message
  <2>2. InOrder(send')
    BY <1>4, <2>1 DEF RecoverRefit, Ordered, InOrder
  <2>3. QED
    BY <2>1, <2>2 DEF Ordered
<1>5. ASSUME NEW th \in BOOLEAN, Stopped(th)
      PROVE  Ordered'
  <2>1. stopped' \in {send, stopped} /\ inflight' = inflight /\ pending' = pending
    BY <1>5 DEF Stopped, Remembered
  <2>2. send'.kind = stopped'.kind /\ send'.results = stopped'.results
    BY <1>5, <2>1 DEF Stopped, Corrected, TypeOK, Messages
  <2>3. InOrder(stopped') /\ InOrder(send')
    BY <2>1, <2>2 DEF Ordered, InOrder
  <2>4. QED
    BY <2>1, <2>3 DEF Ordered
<1>6. ASSUME NEW th \in BOOLEAN, Resend(th)
      PROVE  Ordered'
  <2>1. send'.kind = "resend" /\ pending' = NoPending /\ stopped' = stopped /\ inflight' = inflight
    BY <1>6, Zenon DEF Resend, Nudge, Message
  <2>2. InOrder(send')
    BY <2>1 DEF InOrder
  <2>3. QED
    BY <2>1, <2>2 DEF Ordered
<1>7. CASE Report
  <2>1. /\ send'.results = batch.elems /\ pending'.elems = batch.elems
        /\ stopped' = stopped /\ inflight' = inflight
    BY <1>7, Zenon DEF Report, ResultsMsg, Message
  <2>2. InOrder(send')
    BY <1>7, <2>1, AnsweredInOrder DEF InOrder
  <2>3. QED
    BY <1>7, <2>1, <2>2, AnsweredInOrder DEF Ordered
<1>8. CASE Failed \/ Overflow \/ StoppedTooOften \/ Answer \/ Unusable \/ OverBudget \/ Abort
  <2>1. send' = NoMessage /\ stopped' = NoMessage /\ inflight' = NoMessage /\ pending' = NoPending
    BY <1>8 DEF Failed, Overflow, StoppedTooOften, Answer, Unusable, OverBudget, Abort, End
  <2>2. QED
    BY <2>1, InOrderNone DEF Ordered
<1>9. CASE \/ \E text \in Texts : Push(text)
           \/ \E n \in 1..MaxBatch, soe \in BOOLEAN, th \in BOOLEAN : Envelope(n, soe, th)
           \/ \E exit \in {"ok", "failed"} : RunCall(exit)
           \/ NotRun
           \/ UNCHANGED vars
  <2>1. send' = send /\ stopped' = stopped /\ inflight' = inflight /\ pending' = pending
    BY <1>9 DEF Push, Envelope, RunCall, NotRun, vars
  <2>2. QED
    BY <2>1 DEF Ordered
<1>10. QED
  BY <1>1, <1>2, <1>3, <1>4, <1>5, <1>6, <1>7, <1>8, <1>9 DEF Next, LoopStep, CallReturns, ComesBack, Reply

(* For every budget and every envelope, the results Hermes gets answer its
   calls in order, and nothing runs after a failure under stop_on_error.    *)
THEOREM ResultsAreInOrder == Spec => []ResultsInOrder
<1>1. Init => Sequenced /\ Ordered
  BY SequencedNone, InOrderNone DEF Init, Ordered
<1>2. TypeOK /\ Sequenced /\ Ordered => ResultsInOrder
  <2> SUFFICES ASSUME TypeOK, Sequenced, Ordered PROVE ResultsInOrder
    OBVIOUS
  <2>1. batch.elems \in Seq(Element) /\ Len(batch.elems) \in Nat /\ batch.keep \in Nat /\ batch.n \in Nat
        /\ DOMAIN batch.elems = 1 .. Len(batch.elems)
    BY LenProperties DEF TypeOK, Batches, Results
  <2>2. ASSUME NEW i \in DOMAIN batch.elems, NEW j \in DOMAIN batch.elems, i < j,
               batch.stopOnError, batch.elems[i].exit = "failed"
        PROVE  batch.elems[j].ref = 0
    <3>1. batch.keep <= i \/ i = batch.n
      BY <2>2 DEF Sequenced
    <3>2. Len(batch.elems) <= batch.n
      BY DEF Sequenced
    <3>3. j > batch.keep
      BY <2>1, <2>2, <3>1, <3>2
    <3>4. QED
      BY <3>3 DEF Sequenced
  <2>3. inflight.kind = "results" => FirstRan(inflight.results) /\ InARow(inflight.results)
    BY DEF Ordered, InOrder
  <2>4. QED
    BY <2>2, <2>3 DEF ResultsInOrder
<1>3. QED
  BY <1>1, <1>2, InitType, TypeInductive, CountingInit, CountingInductive, SequencedInductive,
     OrderedInductive, PTL DEF Spec

-----------------------------------------------------------------------------
(* What is owed to Hermes and to the operator. *)

LEMMA RangeConcat ==
  ASSUME NEW S, NEW s \in Seq(S), NEW t \in Seq(S)
  PROVE  Range(s \o t) \subseteq Range(s) \cup Range(t)
<1>1. Len(s) \in Nat /\ Len(t) \in Nat /\ DOMAIN s = 1 .. Len(s) /\ DOMAIN t = 1 .. Len(t)
  BY LenProperties
<1>2. s \o t \in Seq(S) /\ Len(s \o t) = Len(s) + Len(t)
      /\ \A i \in 1 .. Len(s) + Len(t) : (s \o t)[i] = IF i <= Len(s) THEN s[i] ELSE t[i - Len(s)]
  BY ConcatProperties
<1>3. DOMAIN (s \o t) = 1 .. Len(s) + Len(t)
  BY <1>2, LenProperties
<1>4. ASSUME NEW i \in 1 .. Len(s) + Len(t)
      PROVE  (s \o t)[i] \in Range(s) \cup Range(t)
  <2>1. CASE i <= Len(s)
    BY <1>1, <1>2, <1>4, <2>1 DEF Range
  <2>2. CASE ~(i <= Len(s))
    <3>1. i - Len(s) \in DOMAIN t /\ (s \o t)[i] = t[i - Len(s)]
      BY <1>1, <1>2, <1>4, <2>2
    <3>2. QED
      BY <3>1 DEF Range
  <2>3. QED
    BY <2>1, <2>2
<1>5. QED
  BY <1>3, <1>4 DEF Range

(* With the budget used up, the countdown says so. *)
LEMMA SpentIsOut ==
  ASSUME NEW r \in Nat, NEW c \in Nat, Capped(r, c)
  PROVE  BudgetAt(r, c) = tierOut
<1>1. RoundTier(r) \in 0 .. 4 /\ CallTier(c) \in 0 .. 4
  BY BudgetAssumption DEF RoundTier, CallTier, tierNone, tierWarn, tierFinish, tierLast, tierOut
<1>2. CASE RoundsSpent(r)
  <2>1. RoundTier(r) = tierOut
    BY <1>2, BudgetAssumption DEF RoundsSpent, RoundTier, RoundsLeft
  <2>2. QED
    BY <1>1, <2>1 DEF BudgetAt, Larger, tierOut
<1>3. CASE CallsSpent(c)
  <2>1. CallTier(c) = tierOut
    BY <1>3, BudgetAssumption DEF CallsSpent, CallTier, CallsLeft, Larger
  <2>2. QED
    BY <1>1, <2>1 DEF BudgetAt, Larger, tierOut
<1>4. QED
  BY <1>2, <1>3 DEF Capped

(* Hermes read the message in flight: the note on the turn before, if that one
   brought it, is read.                                                     *)
LEMMA NoteIsRead ==
  ASSUME TypeOK, Carrying, pc = "asking", Learned
  PROVE  noteTurn' # turns /\ noteTurn' <= turns
<1>1. inflight.note = send.note /\ turns \in Nat /\ turns > 0 /\ noteTurn \in Nat /\ noteTurn <= turns
  BY DEF Carrying, TypeOK, Messages
<1>2. noteTurn = turns => send.note
  BY DEF Carrying, Between
<1>3. QED
  BY <1>1, <1>2 DEF Learned

LEMMA CarryingInductive == TypeOK /\ Informed /\ Carrying /\ [Next]_vars => Carrying'
<1> SUFFICES ASSUME TypeOK, Informed, Carrying, [Next]_vars PROVE Carrying'
  OBVIOUS
<1>0. turns \in Nat /\ stops \in Nat /\ noteTurn \in Nat /\ added \in Seq(Texts) /\ inbox \in Seq(Texts)
      /\ send \in Messages /\ stopped \in Messages /\ inflight \in Messages
  BY DEF TypeOK
<1>1. CASE StartTurn
  <2>1. send' = [Message("task", Range(inbox), {}, <<>>, tierNone) EXCEPT !.note = pendingNote]
        /\ noteTurn' = (IF pendingNote THEN turns + 1 ELSE noteTurn)
    BY <1>1, Zenon DEF StartTurn
  <2>2. ~send'.mark /\ send'.note = pendingNote
    BY <2>1 DEF Message
  <2>3. /\ turns' = turns + 1 /\ pc' = "prepare" /\ outcome' = "none" /\ pc = "idle"
        /\ added' = added /\ pending' = pending
    BY <1>1 DEF StartTurn
  <2>4. added' = <<>> /\ Range(<<>>) = {} /\ pending' = NoPending
    BY <2>3 DEF Carrying, Informed, Range
  <2>5. noteTurn' <= turns' /\ (noteTurn' = turns' => send'.note)
    BY <1>0, <2>1, <2>2, <2>3 DEF Carrying
  <2>6. turns' > 0 /\ Range(added') \subseteq Carries(send')
    BY <1>0, <2>3, <2>4
  <2>7. QED
    BY <2>2, <2>3, <2>4, <2>5, <2>6 DEF Carrying, Between
<1>2. ASSUME NEW text \in Texts, Push(text)
      PROVE  Carrying'
  BY <1>2 DEF Push, Carrying, Between
<1>3. CASE Request
  <2>1. send' = [send EXCEPT !.full = send.full \cup Range(inbox)] /\ inflight' = Sent(send', owned')
    BY <1>3, Zenon DEF Request
  <2>2. /\ send'.mark = send.mark /\ send'.note = send.note
        /\ Carries(send') = Carries(send) \cup Range(inbox) /\ send' \in Messages
    BY <1>3, <2>1, RequestType DEF TypeOK, Messages, Carries
  <2>3. inflight' = [send' EXCEPT !.log = inflight'.log]
    BY <2>1, <2>2 DEF Sent, Messages
  <2>4. Range(added') \subseteq Range(added) \cup Range(inbox)
    BY <1>0, <1>3, RangeConcat DEF Request
  <2>5. /\ pc = "prepare" /\ pc' = "asking" /\ stops' = stops /\ turns' = turns /\ noteTurn' = noteTurn
        /\ stopped' = stopped /\ pending' = pending /\ outcome' = outcome
    BY <1>3 DEF Request
  <2>6. /\ send'.mark => stops > 0
        /\ ~(send'.mark /\ stops > 1) => Range(added') \subseteq Carries(send')
    BY <2>2, <2>4, <2>5 DEF Carrying, Between
  <2>7. noteTurn = turns => send'.note /\ (send'.mark => stopped.note) /\ pending = NoPending
    BY <2>2, <2>5 DEF Carrying, Between
  <2>8. turns > 0 /\ noteTurn <= turns /\ (outcome = "ok" => noteTurn # turns)
    BY <2>5 DEF Carrying
  <2>9. QED
    BY <2>3, <2>5, <2>6, <2>7, <2>8 DEF Carrying, Between
<1>4. CASE RecoverCompact
  <2>1. inflight' = [send' EXCEPT !.log = inflight'.log]
    BY <1>0, <1>4 DEF RecoverCompact, Messages
  <2>2. QED
    BY <1>4, <2>1 DEF RecoverCompact, Carrying, Between
<1>5. CASE RecoverRefit
  <2>1. send' = ResultsMsg(pending.elems, pending.round, calls) /\ inflight' = send'
    BY <1>5, Zenon DEF RecoverRefit, Refitted
  <2>2. ~send'.mark /\ Carries(send') = Range(added) /\ send' \in Messages
    BY <1>5, <2>1, AskAgainType DEF TypeOK, ResultsMsg, Message, Carries
  <2>3. inflight' = [send' EXCEPT !.log = inflight'.log]
    BY <2>1, <2>2 DEF Messages
  <2>4. noteTurn # turns
    BY <1>5 DEF RecoverRefit, Carrying, Between
  <2>5. QED
    BY <1>5, <2>2, <2>3, <2>4 DEF RecoverRefit, Carrying, Between
<1>6. ASSUME NEW th \in BOOLEAN, Stopped(th)
      PROVE  Carrying'
  <2>1. /\ pc = "asking" /\ pc' = "prepare" /\ stops' = stops + 1 /\ stopped' = Remembered
        /\ send' = Corrected(stopped') /\ turns' = turns /\ noteTurn' = noteTurn
        /\ pending' = pending /\ added' = added /\ outcome' = outcome
    BY <1>6 DEF Stopped
  <2>2. stopped' \in Messages
    BY <1>0, <2>1 DEF Remembered
  <2>3. send'.mark /\ send'.note = stopped'.note /\ Carries(send') = Carries(stopped')
    BY <2>1, <2>2 DEF Corrected, Messages, Carries
  <2>4. stops' > 0
    BY <1>0, <2>1
  <2>5. ~(stops' > 1) => Range(added) \subseteq Carries(send')
    <3>1. ~(stops' > 1) => stops = 0
      BY <1>0, <2>1
    <3>2. stops = 0 => ~send.mark /\ Range(added) \subseteq Carries(send)
      BY <1>0, <2>1 DEF Carrying, Between
    <3>3. QED
      BY <2>1, <2>3, <3>1, <3>2 DEF Remembered
  <2>6. noteTurn = turns => send'.note /\ stopped'.note /\ pending = NoPending
    BY <2>1, <2>3 DEF Carrying, Between, Remembered
  <2>7. turns > 0 /\ noteTurn <= turns /\ (outcome = "ok" => noteTurn # turns)
    BY <2>1 DEF Carrying
  <2>8. QED
    BY <2>1, <2>3, <2>4, <2>5, <2>6, <2>7 DEF Carrying, Between
<1>7. ASSUME NEW th \in BOOLEAN, Resend(th)
      PROVE  Carrying'
  <2>1. send' = Nudge /\ pc = "asking" /\ pc' = "prepare" /\ turns' = turns /\ added' = added
        /\ outcome' = outcome
    BY <1>7 DEF Resend
  <2>2. ~send'.mark /\ Carries(send') = Range(added)
    BY <2>1 DEF Nudge, Message, Carries
  <2>3. noteTurn' # turns /\ noteTurn' <= turns
    BY <1>7, NoteIsRead DEF Resend
  <2>4. turns > 0
    BY <2>1 DEF Carrying
  <2>5. QED
    BY <2>1, <2>2, <2>3, <2>4 DEF Carrying, Between
<1>8. CASE Report
  <2>1. send' = ResultsMsg(batch.elems, round, calls) /\ added' = added /\ turns' = turns
        /\ pc = "running" /\ pc' = "prepare" /\ noteTurn' = noteTurn /\ outcome' = outcome
    BY <1>8, Zenon DEF Report
  <2>2. ~send'.mark /\ Carries(send') = Range(added)
    BY <2>1 DEF ResultsMsg, Message, Carries
  <2>3. noteTurn # turns /\ noteTurn <= turns /\ turns > 0
    BY <2>1 DEF Carrying
  <2>4. QED
    BY <2>1, <2>2, <2>3 DEF Carrying, Between
<1>9. CASE Failed \/ Overflow \/ StoppedTooOften \/ Abort
  <2>1. noteTurn' = noteTurn /\ turns' = turns
    BY <1>9 DEF Failed, Overflow, StoppedTooOften, Abort
  <2>2. pc' = "idle" /\ added' = <<>> /\ stopped' = NoMessage /\ inflight' = NoMessage /\ outcome' # "ok"
    BY <1>9 DEF Failed, Overflow, StoppedTooOften, Abort, End
  <2>3. QED
    BY <2>1, <2>2 DEF Carrying, Between
<1>10. CASE Answer \/ Unusable \/ OverBudget
  <2>1. noteTurn' # turns /\ noteTurn' <= turns /\ turns' = turns
    BY <1>10, NoteIsRead DEF Answer, Unusable, OverBudget
  <2>2. pc' = "idle" /\ added' = <<>> /\ stopped' = NoMessage /\ inflight' = NoMessage
    BY <1>10 DEF Answer, Unusable, OverBudget, End
  <2>3. QED
    BY <2>1, <2>2 DEF Carrying, Between
<1>11. ASSUME NEW n \in 1..MaxBatch, NEW soe \in BOOLEAN, NEW th \in BOOLEAN, Envelope(n, soe, th)
       PROVE  Carrying'
  <2>1. noteTurn' # turns /\ noteTurn' <= turns
    BY <1>11, NoteIsRead DEF Envelope
  <2>2. pc = "asking" /\ pc' = "running" /\ turns' = turns /\ outcome' = outcome
    BY <1>11 DEF Envelope
  <2>3. QED
    BY <2>1, <2>2 DEF Carrying, Between
<1>12. CASE (\E exit \in {"ok", "failed"} : RunCall(exit)) \/ NotRun
  BY <1>12 DEF RunCall, NotRun, Carrying, Between
<1>13. CASE UNCHANGED vars
  BY <1>13 DEF vars, Carrying, Between
<1>14. QED
  BY <1>1, <1>2, <1>3, <1>4, <1>5, <1>6, <1>7, <1>8, <1>9, <1>10, <1>11, <1>12, <1>13
     DEF Next, LoopStep, CallReturns, ComesBack, Reply

LEMMA CountedInductive ==
  TypeOK /\ Counting /\ Informed /\ Carrying /\ Counted /\ [Next]_vars => Counted'
<1> SUFFICES ASSUME TypeOK, Counting, Informed, Carrying, Counted, [Next]_vars PROVE Counted'
  OBVIOUS
<1>0. /\ noted \in Nat /\ stops \in Nat /\ round \in Nat /\ calls \in Nat /\ pending.round \in Nat
      /\ send \in Messages /\ stopped \in Messages /\ inflight \in Messages
      /\ send.tier \in Nat /\ stopped.tier \in Nat /\ inflight.tier \in Nat
  BY DEF TypeOK, Messages, Tiers, tierNone, tierOut
<1>1. CASE StartTurn
  <2>1. send'.tier = 0 /\ send'.kind = "task"
    BY <1>1, Zenon DEF StartTurn, Message, tierNone
  <2>2. /\ stopped' = NoMessage /\ inflight' = NoMessage /\ pending' = NoPending
        /\ noted' = 0
    BY <1>1 DEF StartTurn, Carrying, Informed, tierNone
  <2>3. NoMessage.tier = 0
    BY DEF NoMessage, Message, tierNone
  <2>4. QED
    BY <2>1, <2>2, <2>3 DEF Counted
<1>2. CASE Request
  <2>1. send' = [send EXCEPT !.full = send.full \cup Range(inbox)] /\ inflight' = Sent(send', owned')
    BY <1>2, Zenon DEF Request
  <2>2. send'.tier = send.tier /\ send'.kind = send.kind /\ send' \in Messages
    BY <1>2, <2>1, RequestType DEF TypeOK, Messages
  <2>3. inflight'.tier = send.tier
    BY <2>1, <2>2 DEF Sent, Messages
  <2>4. /\ pc = "prepare" /\ stops' = stops /\ pending' = pending /\ noted' = noted
        /\ calls' = calls /\ round' = round /\ stopped' = stopped
    BY <1>2 DEF Request
  <2>5. QED
    BY <2>2, <2>3, <2>4 DEF Counted, Between
<1>3. CASE RecoverCompact
  BY <1>3 DEF RecoverCompact, Counted, Between
<1>4. CASE RecoverRefit
  <2>1. /\ send'.tier = BudgetAt(pending.round + 1, calls) /\ inflight' = send'
        /\ pending' = NoPending /\ stopped' = stopped /\ noted' = noted
        /\ stops' = stops /\ round' = round /\ calls' = calls
    BY <1>4, Zenon DEF RecoverRefit, Refitted, ResultsMsg, Message
  <2>2. BudgetAt(pending.round + 1, calls) <= noted /\ (stops = 0 => pending.round + 1 = round)
    BY <1>4 DEF RecoverRefit, Counted, Between
  <2>3. QED
    BY <2>1, <2>2 DEF Counted
<1>5. ASSUME NEW th \in BOOLEAN, Stopped(th)
      PROVE  Counted'
  <2>1. /\ pc = "asking" /\ stops' = stops + 1 /\ stopped' \in {send, stopped} /\ send' = Corrected(stopped')
        /\ pending' = pending /\ noted' = noted /\ calls' = calls /\ inflight' = inflight
    BY <1>5 DEF Stopped, Remembered
  <2>2. send'.tier = stopped'.tier /\ stops' # 0
    BY <1>0, <2>1 DEF Corrected, Messages
  <2>3. QED
    BY <2>1, <2>2 DEF Counted, Between
<1>6. ASSUME NEW th \in BOOLEAN, Resend(th)
      PROVE  Counted'
  <2>1. /\ send'.tier = 0 /\ send'.kind = "resend" /\ pending' = NoPending /\ stopped' = stopped
        /\ inflight' = inflight /\ noted' = noted
    BY <1>6, Zenon DEF Resend, Nudge, Message, tierNone
  <2>2. QED
    BY <1>0, <2>1 DEF Counted
<1>7. CASE Report
  <2>1. /\ send'.tier = BudgetAt(round + 1, calls) /\ pending'.round = round
        /\ noted' = Larger(noted, BudgetAt(round + 1, calls))
        /\ round' = round + 1 /\ calls' = calls /\ stopped' = stopped /\ inflight' = inflight
    BY <1>7, Zenon DEF Report, ResultsMsg, Message, Announced
  <2>2. BudgetAt(round + 1, calls) \in Nat
    BY <1>0, BudgetAtTier DEF Tiers, tierNone, tierOut
  <2>3. noted' >= noted /\ noted' >= BudgetAt(round + 1, calls) /\ noted' \in Nat
    BY <1>0, <2>1, <2>2 DEF Larger
  <2>4. stopped.tier <= noted' /\ inflight.tier <= noted'
    BY <1>0, <2>3 DEF Counted
  <2>5. QED
    BY <2>1, <2>3, <2>4 DEF Counted
<1>8. CASE Failed \/ Overflow \/ StoppedTooOften \/ Answer \/ Unusable \/ OverBudget \/ Abort
  <2>1. /\ send' = NoMessage /\ stopped' = NoMessage /\ inflight' = NoMessage /\ pc' = "idle" /\ noted' = noted
    BY <1>8 DEF Failed, Overflow, StoppedTooOften, Answer, Unusable, OverBudget, Abort, End
  <2>2. NoMessage.tier = 0
    BY DEF NoMessage, Message, tierNone
  <2>3. QED
    BY <1>0, <2>1, <2>2 DEF Counted, Between
<1>9. ASSUME NEW n \in 1..MaxBatch, NEW soe \in BOOLEAN, NEW th \in BOOLEAN, Envelope(n, soe, th)
      PROVE  Counted'
  BY <1>9 DEF Envelope, Counted, Between
<1>10. CASE (\E exit \in {"ok", "failed"} : RunCall(exit)) \/ NotRun
  BY <1>10 DEF RunCall, NotRun, Counted, Between
<1>11. ASSUME NEW text \in Texts, Push(text)
       PROVE  Counted'
  BY <1>11 DEF Push, Counted, Between
<1>12. CASE UNCHANGED vars
  BY <1>12 DEF vars, Counted, Between
<1>13. QED
  BY <1>1, <1>2, <1>3, <1>4, <1>5, <1>6, <1>7, <1>8, <1>9, <1>10, <1>11, <1>12
     DEF Next, LoopStep, CallReturns, ComesBack, Reply

(* For every budget, number of stops and order of additions: nothing one side
   is owed is forgotten.                                                    *)
THEOREM NothingIsForgotten == Spec => []NothingForgotten
<1>1. Init => Carrying /\ Counted
  BY DEF Init, Carrying, Counted, Between, NoMessage, Message, tierNone
<1>2. TypeOK /\ Carrying /\ Counted => NothingForgotten
  <2> SUFFICES ASSUME TypeOK, Carrying, Counted PROVE NothingForgotten
    OBVIOUS
  <2>1. pc = "asking" => /\ inflight.mark = send.mark /\ inflight.tier = send.tier
                         /\ inflight.kind = send.kind /\ Carries(inflight) = Carries(send)
    BY DEF Carrying, TypeOK, Messages, Carries
  <2>2. AdditionsAsked
    BY <2>1 DEF Carrying, Between, AdditionsAsked
  <2>3. NoteRead
    BY DEF Carrying, NoteRead
  <2>4. OperatorSeesCountdown
    BY DEF Counted, OperatorSeesCountdown
  <2>5. CappedWasTold
    BY <2>1, SpentIsOut DEF Counted, Between, TypeOK, CappedWasTold
  <2>6. QED
    BY <2>2, <2>3, <2>4, <2>5 DEF NothingForgotten
<1>3. QED
  BY <1>1, <1>2, InitType, TypeInductive, CountingInit, CountingInductive, InformedInit,
     InformedInductive, CarryingInductive, CountedInductive, PTL DEF Spec
=============================================================================
