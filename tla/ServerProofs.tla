---------------------------- MODULE ServerProofs ----------------------------
(***************************************************************************)
(* Theorems of Server, for any number of sessions and requests and every   *)
(* configuration.                                                          *)
(***************************************************************************)
EXTENDS Server, SequenceTheorems, TLAPS

Runs == [n : Requests, session : 1..Sessions, approvals : {"auto", "never"}]

LEMMA HereType == TypeOK => Here \in Settings
BY DEF TypeOK, Here, Settings

(* A request in hand is one of the client's. *)
LEMMA InHand ==
  ASSUME TypeOK, NEW kind \in Kinds, Handles(kind)
  PROVE  request.n \in Requests /\ request.kind = kind
BY DEF TypeOK, Handles, Kinds, NoRequest

LEMMA InitType == Init => TypeOK
<1> SUFFICES ASSUME Init PROVE TypeOK
  OBVIOUS
<1>1. <<>> \in Seq(Requests) /\ <<>> \in Seq(0..MaxRequests) /\ <<>> \in Seq(Runs)
  BY EmptySeq
<1>2. Here \in Settings
  BY ServerAssumption DEF Init, Here, Settings
<1>3. session \in 1..Sessions /\ trace \in 0..Sessions /\ approvals \in {"auto", "never"}
      /\ debugOn \in BOOLEAN
  BY ServerAssumption DEF Init
<1>4. told \in Settings /\ accepted \in [Requests -> Settings]
  BY <1>2 DEF Init
<1>5. answers \in 0..MaxRequests /\ lastAppend \in 0..MaxRequests /\ sent \in 0..MaxRequests
  BY ServerAssumption DEF Init
<1>6. left \in Seq(Requests) /\ inbox \in Seq(Requests) /\ closed \in Seq(0..MaxRequests)
      /\ ran \in Seq(Runs)
  BY <1>1 DEF Init
<1>7. reader = "read" /\ worker = "none" /\ busy = FALSE /\ request = NoRequest
  BY DEF Init
<1>8. QED
  BY <1>3, <1>4, <1>5, <1>6, <1>7 DEF TypeOK, Runs

LEMMA ReadType ==
  ASSUME TypeOK, Read \/ EndOfInput \/ Exit \/ Queued
  PROVE  TypeOK'
<1>1. CASE Read
  <2>1. sent + 1 \in Requests
    BY <1>1, ServerAssumption DEF Read, TypeOK, Requests
  <2>2. QED
    BY <1>1, <2>1 DEF Read, TypeOK, switches, turn, Requests
<1>2. CASE EndOfInput
  BY <1>2 DEF EndOfInput, TypeOK, switches, turn, record
<1>3. CASE Exit
  BY <1>3 DEF Exit, TypeOK, switches, turn, record
<1>4. CASE Queued
  BY <1>4 DEF Queued, Ready, TypeOK, switches, turn, record
<1>5. QED
  BY <1>1, <1>2, <1>3, <1>4

(* What a closing message leaves behind. *)
LEMMA ClosedType ==
  ASSUME TypeOK, NEW n \in 0..MaxRequests
  PROVE  /\ Append(closed, n) \in Seq(0..MaxRequests)
         /\ DOMAIN closed = 1..Len(closed) /\ DOMAIN Append(closed, n) = 1..(Len(closed) + 1)
         /\ Len(closed) \in Nat
         /\ \A i \in 1..Len(closed) : Append(closed, n)[i] = closed[i] /\ closed[i] \in 0..MaxRequests
         /\ Append(closed, n)[Len(closed) + 1] = n
<1>1. closed \in Seq(0..MaxRequests)
  BY DEF TypeOK
<1>2. DOMAIN closed = 1..Len(closed) /\ Len(closed) \in Nat /\ \A i \in 1..Len(closed) : closed[i] \in 0..MaxRequests
  BY <1>1, LenProperties, ElementOfSeq
<1>3. /\ Append(closed, n) \in Seq(0..MaxRequests) /\ Len(Append(closed, n)) = Len(closed) + 1
      /\ \A i \in 1..Len(closed) : Append(closed, n)[i] = closed[i]
      /\ Append(closed, n)[Len(closed) + 1] = n
  BY <1>1, AppendProperties
<1>4. DOMAIN Append(closed, n) = 1..(Len(closed) + 1)
  BY <1>3, LenProperties
<1>5. QED
  BY <1>2, <1>3, <1>4

LEMMA ReplyType ==
  ASSUME TypeOK,
         Refuse \/ History \/ Check \/ Compact \/ Context \/ SwitchTo \/ SetApprovals \/ SetDebug
  PROVE  TypeOK'
<1>1. ASSUME NEW kind \in Kinds, Reply(kind)
      PROVE  TypeOK'
  <2>1. request.n \in 0..MaxRequests
    BY <1>1, InHand DEF Reply, Requests
  <2>2. closed' \in Seq(0..MaxRequests)
    BY <1>1, <2>1, ClosedType DEF Reply
  <2>3. QED
    BY <1>1, <2>2 DEF Reply, Ready, TypeOK, switches, turn, record
<1>2. CASE SwitchTo
  <2>1. request.n \in 0..MaxRequests
    BY <1>2, InHand DEF SwitchTo, Requests, Kinds
  <2>2. closed' \in Seq(0..MaxRequests)
    BY <1>2, <2>1, ClosedType DEF SwitchTo
  <2>3. session' \in 1..Sessions /\ approvals' \in {"auto", "never"} /\ debugOn' \in BOOLEAN
        /\ trace' \in 0..Sessions /\ told' \in Settings
    BY <1>2, ServerAssumption DEF SwitchTo, Reset, Pointed, TypeOK, Settings
  <2>4. QED
    BY <1>2, <2>2, <2>3 DEF SwitchTo, Ready, TypeOK, turn
<1>3. CASE SetApprovals
  <2>1. request.n \in 0..MaxRequests
    BY <1>3, InHand DEF SetApprovals, Requests, Kinds
  <2>2. closed' \in Seq(0..MaxRequests)
    BY <1>3, <2>1, ClosedType DEF SetApprovals
  <2>3. told' \in Settings
    BY <1>3 DEF SetApprovals, TypeOK, Settings
  <2>4. QED
    BY <1>3, <2>2, <2>3 DEF SetApprovals, Ready, TypeOK, turn
<1>4. CASE SetDebug
  <2>1. request.n \in 0..MaxRequests
    BY <1>4, InHand DEF SetDebug, Requests, Kinds
  <2>2. closed' \in Seq(0..MaxRequests)
    BY <1>4, <2>1, ClosedType DEF SetDebug
  <2>3. trace' \in 0..Sessions
    BY <1>4, ServerAssumption DEF SetDebug, Pointed, TypeOK
  <2>4. QED
    BY <1>4, <2>2, <2>3 DEF SetDebug, Ready, TypeOK, turn, record
<1>5. QED
  BY <1>1, <1>2, <1>3, <1>4 DEF Refuse, History, Check, Compact, Context, Kinds

LEMMA TextType ==
  ASSUME TypeOK, StartTurn \/ Queue
  PROVE  TypeOK'
<1>1. request.n \in Requests
  BY InHand DEF StartTurn, Queue, Kinds
<1>2. request.n \in 0..MaxRequests /\ accepted' \in [Requests -> Settings]
  <2>1. accepted' = [accepted EXCEPT ![request.n] = told]
    BY DEF StartTurn, Queue, Accept
  <2>2. accepted \in [Requests -> Settings] /\ told \in Settings
    BY DEF TypeOK
  <2>3. QED
    BY <1>1, <2>1, <2>2 DEF Requests
<1>3. CASE StartTurn
  BY <1>1, <1>2, <1>3 DEF StartTurn, Ready, TypeOK, switches
<1>4. CASE Queue
  <2>1. inbox' \in Seq(Requests) /\ lastAppend' \in 0..MaxRequests
    BY <1>1, <1>2, <1>4, AppendProperties DEF Queue, LastAppend, TypeOK
  <2>2. QED
    BY <1>2, <1>4, <2>1 DEF Queue, TypeOK, switches
<1>5. QED
  BY <1>3, <1>4

(* The texts of a round, as they go to Hermes. *)
LEMMA RoundTexts ==
  ASSUME TypeOK
  PROVE  LET w == left \o inbox
             s == [i \in 1..Len(w) |-> [n |-> w[i], session |-> session, approvals |-> approvals]]
         IN  /\ w \in Seq(Requests) /\ Len(w) \in Nat /\ DOMAIN w = 1..Len(w)
             /\ s \in Seq(Runs) /\ Len(s) = Len(w)
             /\ \A i \in 1..Len(w) : w[i] \in Requests
<1> DEFINE w == left \o inbox
           s == [i \in 1..Len(w) |-> [n |-> w[i], session |-> session, approvals |-> approvals]]
<1>1. w \in Seq(Requests)
  BY ConcatProperties DEF TypeOK
<1>2. Len(w) \in Nat /\ DOMAIN w = 1..Len(w) /\ \A i \in 1..Len(w) : w[i] \in Requests
  BY <1>1, LenProperties, ElementOfSeq
<1>3. s \in [1..Len(w) -> Runs]
  BY <1>2 DEF Runs, TypeOK
<1>4. s \in Seq(Runs) /\ Len(s) = Len(w)
  <2> HIDE DEF s
  <2>1. QED
    BY <1>2, <1>3
<1>5. QED
  BY <1>1, <1>2, <1>4

LEMMA TurnType ==
  ASSUME TypeOK, Turn
  PROVE  TypeOK'
<1>1. CASE Round
  <2>1. ran' \in Seq(Runs)
    <3> DEFINE s == [i \in 1..Len(left \o inbox) |->
                       [n |-> (left \o inbox)[i], session |-> session, approvals |-> approvals]]
    <3>1. s \in Seq(Runs) /\ ran \in Seq(Runs) /\ ran' = ran \o s
      BY <1>1, RoundTexts DEF Round, TypeOK, Runs
    <3> HIDE DEF s
    <3>2. QED
      BY <3>1, ConcatProperties
  <2>2. left' \in Seq(Requests) /\ inbox' \in Seq(Requests)
    BY <1>1, EmptySeq DEF Round
  <2>3. QED
    BY <1>1, <2>1, <2>2 DEF Round, TypeOK, switches, record, Runs
<1>2. CASE Close
  <2>1. closed' \in Seq(0..MaxRequests)
    BY <1>2, ClosedType DEF Close, TypeOK
  <2>2. QED
    BY <1>2, <2>1 DEF Close, TypeOK, switches, record
<1>3. CASE End
  <2>1. left' \in Seq(Requests) /\ inbox' \in Seq(Requests) /\ answers' \in 0..MaxRequests
    BY <1>3, EmptySeq DEF End, Over, TypeOK
  <2>2. worker' \in {"none", "turn", "ended"} /\ busy' \in BOOLEAN
    BY <1>3 DEF End, Over, TypeOK
  <2>3. QED
    BY <1>3, <2>1, <2>2 DEF End, TypeOK, switches, record
<1>4. QED
  BY <1>1, <1>2, <1>3 DEF Turn

LEMMA TypeInductive == TypeOK /\ [Next]_vars => TypeOK'
<1> SUFFICES ASSUME TypeOK, [Next]_vars PROVE TypeOK'
  OBVIOUS
<1>1. CASE UNCHANGED vars
  BY <1>1 DEF TypeOK, vars, switches, turn, record
<1>2. QED
  BY <1>1, ReadType, ReplyType, TextType, TurnType DEF Next, Handle

(* Every reachable state of the server has its type. *)
THEOREM TypeCorrect == Spec => []TypeOK
BY InitType, TypeInductive, PTL DEF Spec

-----------------------------------------------------------------------------
(* The trace is in the open session's directory, whatever was switched. *)
THEOREM TraceIsInSession == Spec => []TraceInSession
<1>1. Init => TraceInSession
  BY DEF Init, TraceInSession, Pointed
<1>2. TraceInSession /\ [Next]_vars => TraceInSession'
  <2> SUFFICES ASSUME TraceInSession, [Next]_vars PROVE TraceInSession'
    OBVIOUS
  <2>1. CASE UNCHANGED switches
    BY <2>1 DEF TraceInSession, switches, Pointed
  <2>2. CASE SwitchTo \/ SetApprovals \/ SetDebug
    BY <2>2 DEF SwitchTo, SetApprovals, SetDebug, TraceInSession, Pointed
  <2>3. UNCHANGED switches \/ SwitchTo \/ SetApprovals \/ SetDebug
    BY DEF Next, Handle, Turn, Read, EndOfInput, Refuse, History, Check, Compact, Context, Reply,
           StartTurn, Queue, Queued, Exit, Round, Close, End, vars, switches
  <2>4. QED
    BY <2>1, <2>2, <2>3
<1>3. QED
  BY <1>1, <1>2, PTL DEF Spec

-----------------------------------------------------------------------------
(* ClosedOnce: the ids still to be closed are kept apart from those closed. *)

Fresh(n) == \A i \in DOMAIN closed : closed[i] # n

(* Closing a fresh id keeps the closed ones apart, and what was fresh and is
   another id stays fresh.                                                  *)
LEMMA CloseFresh ==
  ASSUME TypeOK, ClosedOnce, NEW n \in 0..MaxRequests, Fresh(n), closed' = Append(closed, n)
  PROVE  /\ ClosedOnce'
         /\ \A m : Fresh(m) /\ m # n => Fresh(m)'
         /\ \A i \in DOMAIN closed' : closed'[i] = n \/ \E j \in DOMAIN closed : closed'[i] = closed[j]
<1>1. /\ DOMAIN closed = 1..Len(closed) /\ DOMAIN closed' = 1..(Len(closed) + 1) /\ Len(closed) \in Nat
      /\ \A i \in 1..Len(closed) : closed'[i] = closed[i]
      /\ closed'[Len(closed) + 1] = n
  BY ClosedType
<1>2. \A i \in DOMAIN closed' : i \in DOMAIN closed \/ i = Len(closed) + 1
  BY <1>1
<1>3. \A i \in DOMAIN closed' : closed'[i] = n \/ \E j \in DOMAIN closed : closed'[i] = closed[j]
  BY <1>1, <1>2
<1>4. ClosedOnce'
  BY <1>1, <1>2 DEF ClosedOnce, Fresh
<1>5. \A m : Fresh(m) /\ m # n => Fresh(m)'
  BY <1>3 DEF Fresh
<1>6. QED
  BY <1>3, <1>4, <1>5

LEMMA TurningInit == Init => Turning
BY DEF Init, Turning

LEMMA TurningStep ==
  ASSUME TypeOK, Turning, [Next]_vars
  PROVE  Turning'
<1>1. CASE UNCHANGED turn
  BY <1>1 DEF turn, Turning
<1>2. CASE StartTurn
  BY <1>2 DEF StartTurn, Turning
<1>3. CASE Queue
  BY <1>3 DEF Queue, Turning
<1>4. CASE Turn
  BY <1>4 DEF Turn, Round, Close, End, Over, Turning
<1>5. UNCHANGED turn \/ StartTurn \/ Queue \/ Turn
  BY DEF Next, Handle, Read, EndOfInput, Refuse, History, Check, Compact, Context, Reply,
         SwitchTo, SetApprovals, SetDebug, Queued, Exit, vars, turn
<1>6. QED
  BY <1>1, <1>2, <1>3, <1>4, <1>5

(* A request answered at once: its id is neither the turn's nor an append's. *)
LEMMA ClosingReply ==
  ASSUME TypeOK, Turning, Closing, ClosedOnce, NEW kind \in Kinds, kind # "append",
         Handles(kind), Ready, closed' = Append(closed, request.n), UNCHANGED <<turn, sent>>
  PROVE  Closing' /\ ClosedOnce'
<1>1. request.n \in Requests /\ request.kind = kind
  BY InHand
<1>2. reader = "handle" /\ reader' = "read"
  BY <1>1 DEF Handles, Ready
<1>3. request.n = sent /\ sent \in 0..MaxRequests
  BY <1>2 DEF Closing, TypeOK
<1>4. Fresh(request.n)
  BY <1>2, <1>3, ClosedType DEF Closing, Fresh, TypeOK
<1>5. /\ ClosedOnce'
      /\ \A m : Fresh(m) /\ m # request.n => Fresh(m)'
      /\ \A i \in DOMAIN closed' : closed'[i] = request.n \/ \E j \in DOMAIN closed : closed'[i] = closed[j]
  BY <1>3, <1>4, CloseFresh
<1>6. \A i \in DOMAIN closed' : closed'[i] <= sent
  BY <1>3, <1>5 DEF Closing
<1>7. answers # request.n /\ lastAppend # request.n
  BY <1>2, <1>3 DEF Closing, TypeOK
<1>8. worker = "turn" => Fresh(answers)'
  BY <1>5, <1>7 DEF Closing, Fresh, turn
<1>9. inbox # <<>> => lastAppend # answers /\ Fresh(lastAppend)'
  BY <1>5, <1>7 DEF Closing, Fresh, turn
<1>10. QED
  BY <1>2, <1>5, <1>6, <1>8, <1>9 DEF Closing, Fresh, turn

LEMMA ClosingInit == Init => Closing /\ ClosedOnce
BY DEF Init, Closing, ClosedOnce

LEMMA ClosingStep ==
  ASSUME TypeOK, Turning, Closing, ClosedOnce, [Next]_vars
  PROVE  Closing' /\ ClosedOnce'
<1>1. CASE UNCHANGED vars
  BY <1>1 DEF vars, turn, record, Closing, ClosedOnce
<1>2. CASE Read
  <2>1. \A i \in DOMAIN closed : closed[i] <= sent /\ closed[i] \in 0..MaxRequests
    BY ClosedType DEF Closing, TypeOK
  <2>2. sent' = sent + 1 /\ request'.n = sent' /\ UNCHANGED <<answers, lastAppend, closed, worker, inbox>>
    BY <1>2 DEF Read, turn
  <2>3. sent \in Nat /\ answers \in Nat /\ lastAppend \in Nat
    BY DEF TypeOK
  <2>4. QED
    BY <2>1, <2>2, <2>3 DEF Closing, ClosedOnce
<1>3. CASE EndOfInput \/ Exit \/ Queued
  BY <1>3 DEF EndOfInput, Exit, Queued, Ready, Closing, ClosedOnce, turn, record
<1>4. CASE Refuse \/ History \/ Check \/ Compact \/ Context
  <2>1. PICK kind \in Kinds \ {"append"} : Reply(kind)
    BY <1>4 DEF Refuse, History, Check, Compact, Context, Kinds
  <2>2. QED
    BY <2>1, ClosingReply DEF Reply, record
<1>5. CASE SwitchTo
  BY <1>5, ClosingReply DEF SwitchTo, Kinds
<1>6. CASE SetApprovals
  BY <1>6, ClosingReply DEF SetApprovals, Kinds
<1>7. CASE SetDebug
  BY <1>7, ClosingReply DEF SetDebug, Kinds, record
<1>8. CASE StartTurn
  <2>1. reader = "handle" /\ worker = "none"
    BY <1>8, InHand DEF StartTurn, Handles, Waits, Turning, TypeOK, Kinds
  <2>2. answers' = sent /\ inbox' = <<>> /\ reader' = "read"
    BY <1>8, <2>1 DEF StartTurn, Closing, Turning, Ready
  <2>3. \A i \in DOMAIN closed : closed[i] < sent /\ closed[i] \in Nat /\ sent \in Nat
    BY <2>1, ClosedType DEF Closing, TypeOK
  <2>4. \A i \in DOMAIN closed : closed[i] # sent /\ closed[i] <= sent
    BY <2>3
  <2>5. lastAppend <= sent /\ sent <= sent
    BY DEF Closing, TypeOK
  <2>6. QED
    BY <1>8, <2>2, <2>4, <2>5 DEF StartTurn, Closing, ClosedOnce
<1>9. CASE Queue
  <2>1. reader = "handle" /\ reader' = "queued" /\ lastAppend' = sent
    BY <1>9 DEF Queue, Handles, LastAppend, Closing
  <2>2. sent \in Nat /\ answers \in Nat /\ answers < sent
    BY <2>1 DEF Closing, TypeOK
  <2>3. \A i \in DOMAIN closed : closed[i] < sent /\ closed[i] \in Nat
    BY <2>1, ClosedType DEF Closing, TypeOK
  <2>4. lastAppend' # answers /\ \A i \in DOMAIN closed : closed[i] # lastAppend'
    BY <2>1, <2>2, <2>3
  <2>5. lastAppend' <= sent
    BY <2>1, <2>2
  <2>6. QED
    BY <1>9, <2>1, <2>4, <2>5 DEF Queue, Closing, ClosedOnce
<1>10. CASE Round
  BY <1>10 DEF Round, record, Closing, ClosedOnce
<1>11. CASE Close
  <2>1. answers \in 0..MaxRequests /\ Fresh(answers)
    BY <1>11 DEF Close, Closing, Fresh, TypeOK
  <2>2. closed' = Append(closed, answers) /\ worker' = "ended"
        /\ UNCHANGED <<reader, request, answers, lastAppend, inbox, sent>>
    BY <1>11 DEF Close, record
  <2>3. /\ ClosedOnce'
        /\ \A m : Fresh(m) /\ m # answers => Fresh(m)'
        /\ \A i \in DOMAIN closed' : closed'[i] = answers \/ \E j \in DOMAIN closed : closed'[i] = closed[j]
    BY <2>1, <2>2, CloseFresh
  <2>4. inbox # <<>> => lastAppend # answers /\ Fresh(lastAppend)'
    BY <2>2, <2>3 DEF Closing, Fresh
  <2>5. \A i \in DOMAIN closed' : closed'[i] <= sent
    BY <2>3 DEF Closing
  <2>6. reader = "handle" => \A i \in DOMAIN closed' : closed'[i] < sent
    BY <2>3 DEF Closing
  <2>7. QED
    BY <2>2, <2>3, <2>4, <2>5, <2>6 DEF Closing, Fresh
<1>12. CASE End
  BY <1>12 DEF End, Over, record, Closing, ClosedOnce
<1>13. QED
  BY <1>1, <1>2, <1>3, <1>4, <1>5, <1>6, <1>7, <1>8, <1>9, <1>10, <1>11, <1>12 DEF Next, Handle, Turn

(* No id is closed twice, however many appends fall between two turns. *)
THEOREM ClosedOnceHolds == Spec => []ClosedOnce
<1>1. Init => TypeOK /\ Turning /\ Closing /\ ClosedOnce
  BY InitType, TurningInit, ClosingInit
<1>2. TypeOK /\ Turning /\ Closing /\ ClosedOnce /\ [Next]_vars
        => (TypeOK /\ Turning /\ Closing /\ ClosedOnce)'
  BY TypeInductive, TurningStep, ClosingStep
<1>3. QED
  BY <1>1, <1>2, PTL DEF Spec

-----------------------------------------------------------------------------
(* RanAsTold: the texts - with Hermes, in the turn, in the inbox - are one
   ascending sequence that a step leaves alone or adds the newest to.       *)

Ns == [i \in DOMAIN ran |-> ran[i].n]

LEMMA TextsType ==
  ASSUME TypeOK
  PROVE  /\ Ns \in Seq(Requests) /\ Len(Ns) = Len(ran) /\ Len(ran) \in Nat
         /\ \A i \in 1..Len(ran) : Ns[i] = ran[i].n /\ ran[i] \in Runs
         /\ left \in Seq(Requests) /\ inbox \in Seq(Requests)
         /\ Ns \o left \in Seq(Requests)
         /\ Texts = (Ns \o left) \o inbox /\ Texts \in Seq(Requests)
<1>1. ran \in Seq(Runs) /\ left \in Seq(Requests) /\ inbox \in Seq(Requests)
  BY DEF TypeOK, Runs
<1>2. Len(ran) \in Nat /\ DOMAIN ran = 1..Len(ran) /\ \A i \in 1..Len(ran) : ran[i] \in Runs
  BY <1>1, LenProperties, ElementOfSeq
<1>3. Ns \in [1..Len(ran) -> Requests] /\ \A i \in 1..Len(ran) : Ns[i] = ran[i].n
  BY <1>2 DEF Ns, Runs
<1>4. Ns \in Seq(Requests) /\ Len(Ns) = Len(ran)
  BY <1>2, <1>3
<1>5. Texts = (Ns \o left) \o inbox
  BY DEF Texts, Ns
<1>6. Ns \o left \in Seq(Requests)
  BY <1>1, <1>4, ConcatProperties
<1>7. (Ns \o left) \o inbox \in Seq(Requests)
  BY <1>1, <1>6, ConcatProperties
<1>8. QED
  BY <1>1, <1>2, <1>3, <1>4, <1>5, <1>6, <1>7

(* Every text is in the sequence. *)
LEMMA InTexts ==
  ASSUME TypeOK, NEW below \in Int, \A k \in DOMAIN Texts : Texts[k] < below
  PROVE  /\ \A i \in DOMAIN ran : ran[i].n \in Requests /\ ran[i].n < below
         /\ \A i \in DOMAIN left : left[i] \in Requests /\ left[i] < below
         /\ \A i \in DOMAIN inbox : inbox[i] \in Requests /\ inbox[i] < below
         /\ \A i \in DOMAIN ran : i \in DOMAIN Texts /\ Texts[i] = ran[i].n
<1> DEFINE nl == Ns \o left
<1>1. /\ Ns \in Seq(Requests) /\ left \in Seq(Requests) /\ inbox \in Seq(Requests) /\ nl \in Seq(Requests)
      /\ Len(Ns) = Len(ran) /\ Texts = nl \o inbox /\ Texts \in Seq(Requests)
      /\ \A i \in 1..Len(ran) : Ns[i] = ran[i].n /\ ran[i] \in Runs
  BY TextsType
<1>2. /\ DOMAIN Texts = 1..Len(Texts) /\ DOMAIN left = 1..Len(left) /\ DOMAIN inbox = 1..Len(inbox)
      /\ DOMAIN ran = 1..Len(ran)
      /\ Len(Ns) \in Nat /\ Len(left) \in Nat /\ Len(inbox) \in Nat
      /\ \A i \in 1..Len(left) : left[i] \in Requests
      /\ \A i \in 1..Len(inbox) : inbox[i] \in Requests
  BY <1>1, LenProperties, ElementOfSeq DEF TypeOK
<1>3. /\ Len(nl) = Len(Ns) + Len(left)
      /\ \A i \in 1..(Len(Ns) + Len(left)) : nl[i] = IF i <= Len(Ns) THEN Ns[i] ELSE left[i - Len(Ns)]
  BY <1>1, ConcatProperties
<1> HIDE DEF nl
<1>4. /\ Len(Texts) = Len(nl) + Len(inbox)
      /\ \A i \in 1..(Len(nl) + Len(inbox)) : Texts[i] = IF i <= Len(nl) THEN nl[i] ELSE inbox[i - Len(nl)]
  BY <1>1, ConcatProperties
<1>5. \A i \in DOMAIN ran : i \in DOMAIN Texts /\ Texts[i] = ran[i].n
  <2> SUFFICES ASSUME NEW i \in DOMAIN ran PROVE i \in DOMAIN Texts /\ Texts[i] = ran[i].n
    OBVIOUS
  <2>1. i \in 1..Len(Ns) /\ Ns[i] = ran[i].n
    BY <1>1, <1>2
  <2>2. i \in 1..Len(nl) /\ nl[i] = Ns[i]
    BY <1>2, <1>3, <2>1
  <2>3. i \in 1..Len(Texts) /\ Texts[i] = nl[i]
    BY <1>2, <1>3, <1>4, <2>2
  <2>4. QED
    BY <1>2, <2>1, <2>2, <2>3
<1>6. \A i \in DOMAIN left : i + Len(Ns) \in DOMAIN Texts /\ Texts[i + Len(Ns)] = left[i]
  BY <1>2, <1>3, <1>4
<1>7. \A i \in DOMAIN inbox : i + Len(nl) \in DOMAIN Texts /\ Texts[i + Len(nl)] = inbox[i]
  BY <1>2, <1>3, <1>4
<1>8. \A i \in DOMAIN ran : ran[i].n \in Requests
  BY <1>1, <1>2 DEF Runs
<1>9. QED
  BY <1>2, <1>5, <1>6, <1>7, <1>8

(* The newest text goes to the end. *)
LEMMA AscendingAppend ==
  ASSUME NEW s \in Seq(Requests), NEW n \in Requests, Ascending(s, n)
  PROVE  Ascending(Append(s, n), n + 1)
<1>1. /\ DOMAIN s = 1..Len(s) /\ Len(s) \in Nat /\ \A i \in 1..Len(s) : s[i] \in Requests
      /\ DOMAIN Append(s, n) = 1..(Len(s) + 1)
      /\ \A i \in 1..Len(s) : Append(s, n)[i] = s[i]
      /\ Append(s, n)[Len(s) + 1] = n
  BY LenProperties, ElementOfSeq, AppendProperties
<1>2. n \in Nat /\ \A i \in 1..Len(s) : s[i] \in Nat
  BY <1>1 DEF Requests
<1>3. \A i \in 1..Len(s) : s[i] < n
  BY <1>1 DEF Ascending
<1>4. \A i \in DOMAIN Append(s, n) : Append(s, n)[i] < n + 1
  BY <1>1, <1>2, <1>3
<1>5. ASSUME NEW i \in DOMAIN Append(s, n), NEW j \in DOMAIN Append(s, n), i < j
      PROVE  Append(s, n)[i] < Append(s, n)[j]
  <2>1. i \in 1..Len(s)
    BY <1>1, <1>5
  <2>2. CASE j \in 1..Len(s)
    BY <1>1, <1>5, <2>1, <2>2 DEF Ascending
  <2>3. CASE j = Len(s) + 1
    BY <1>1, <1>3, <2>1, <2>3
  <2>4. QED
    BY <1>1, <2>2, <2>3
<1>6. QED
  BY <1>4, <1>5 DEF Ascending

(* What a step does to the sequence of the texts. *)
LEMMA TextsStep ==
  ASSUME TypeOK, TypeOK', Turning, [Next]_vars
  PROVE  \/ Texts' = Texts /\ ~(StartTurn \/ Queue)
         \/ Texts' = Append(Texts, request.n) /\ (StartTurn \/ Queue)
<1>0. /\ Ns \in Seq(Requests) /\ left \in Seq(Requests) /\ inbox \in Seq(Requests)
      /\ Ns \o left \in Seq(Requests) /\ Texts = (Ns \o left) \o inbox /\ Texts \in Seq(Requests)
  BY TextsType
<1>a. Texts' = (Ns' \o left') \o inbox'
  BY DEF Texts, Ns
<1>1. CASE StartTurn
  <2>1. worker = "none"
    BY <1>1, InHand DEF StartTurn, Handles, Waits, Turning, TypeOK, Kinds
  <2>2. left = <<>> /\ inbox = <<>> /\ left' = <<request.n>> /\ inbox' = inbox /\ Ns' = Ns
    BY <1>1, <2>1 DEF StartTurn, Turning, Ns
  <2>3. request.n \in Requests
    BY <1>1, InHand DEF StartTurn, Kinds
  <2>4. Texts = Ns
    BY <1>0, <2>2, ConcatEmptySeq
  <2>5. Append(Ns, request.n) = Ns \o <<request.n>> /\ Append(Ns, request.n) \in Seq(Requests)
    BY <1>0, <2>3, AppendIsConcat, AppendProperties
  <2>6. Texts' = Append(Ns, request.n) \o <<>>
    BY <1>a, <2>2, <2>5
  <2>7. QED
    BY <1>1, <2>4, <2>5, <2>6, ConcatEmptySeq
<1>2. CASE Queue
  <2>1. left' = left /\ inbox' = Append(inbox, request.n) /\ Ns' = Ns
    BY <1>2 DEF Queue, Ns
  <2>2. request.n \in Requests
    BY <1>2, InHand DEF Queue, Kinds
  <2>3. Append(inbox, request.n) = inbox \o <<request.n>> /\ <<request.n>> \in Seq(Requests)
    BY <1>0, <2>2, AppendIsConcat
  <2>4. (Ns \o left) \o (inbox \o <<request.n>>) = Texts \o <<request.n>>
    BY <1>0, <2>3, ConcatAssociative
  <2>5. Append(Texts, request.n) = Texts \o <<request.n>>
    BY <1>0, <2>2, AppendIsConcat
  <2>6. QED
    BY <1>2, <1>a, <2>1, <2>3, <2>4, <2>5
<1>3. CASE Round
  <2> DEFINE w == left \o inbox
             s == [i \in 1..Len(w) |-> [n |-> w[i], session |-> session, approvals |-> approvals]]
  <2>1. /\ w \in Seq(Requests) /\ Len(w) \in Nat /\ s \in Seq(Runs) /\ Len(s) = Len(w)
        /\ \A i \in 1..Len(w) : s[i].n = w[i]
    BY RoundTexts
  <2>2. ran' = ran \o s /\ left' = <<>> /\ inbox' = <<>>
    BY <1>3 DEF Round
  <2> HIDE DEF s
  <2> HIDE DEF w
  <2>3. /\ Len(ran') = Len(ran) + Len(w) /\ Len(ran) \in Nat
        /\ \A i \in 1..(Len(ran) + Len(w)) : ran'[i] = IF i <= Len(ran) THEN ran[i] ELSE s[i - Len(ran)]
    <3>1. ran \in Seq(Runs) /\ s \in Seq(Runs) /\ Len(ran) \in Nat
      BY <2>1, LenProperties DEF TypeOK, Runs
    <3>2. /\ Len(ran \o s) = Len(ran) + Len(s)
          /\ \A i \in 1..(Len(ran) + Len(s)) : (ran \o s)[i] = IF i <= Len(ran) THEN ran[i] ELSE s[i - Len(ran)]
      BY <3>1, ConcatProperties
    <3>3. QED
      BY <2>1, <2>2, <3>1, <3>2
  <2>4. Ns' \in Seq(Requests) /\ Len(Ns') = Len(ran') /\ \A i \in 1..Len(ran') : Ns'[i] = ran'[i].n
    <3>1. ran' \in Seq(Runs) /\ Ns' = [i \in DOMAIN ran' |-> ran'[i].n]
      BY DEF TypeOK, Runs, Ns
    <3>2. Len(ran') \in Nat /\ DOMAIN ran' = 1..Len(ran') /\ \A i \in 1..Len(ran') : ran'[i] \in Runs
      BY <3>1, LenProperties, ElementOfSeq
    <3>3. Ns' \in [1..Len(ran') -> Requests] /\ \A i \in 1..Len(ran') : Ns'[i] = ran'[i].n
      BY <3>1, <3>2 DEF Runs
    <3>4. QED
      BY <3>2, <3>3
  <2>5. /\ Len(Ns) = Len(ran) /\ \A i \in 1..Len(ran) : Ns[i] = ran[i].n
    BY TextsType
  <2>6. /\ Ns \o w \in Seq(Requests) /\ Len(Ns \o w) = Len(ran) + Len(w)
        /\ \A i \in 1..(Len(ran) + Len(w)) : (Ns \o w)[i] = IF i <= Len(ran) THEN Ns[i] ELSE w[i - Len(ran)]
    <3>1. /\ Ns \o w \in Seq(Requests) /\ Len(Ns \o w) = Len(Ns) + Len(w)
          /\ \A i \in 1..(Len(Ns) + Len(w)) : (Ns \o w)[i] = IF i <= Len(Ns) THEN Ns[i] ELSE w[i - Len(Ns)]
      BY <1>0, <2>1, ConcatProperties
    <3>2. QED
      BY <2>5, <3>1
  <2>7. \A i \in 1..(Len(ran) + Len(w)) : Ns'[i] = (Ns \o w)[i]
    <3> SUFFICES ASSUME NEW i \in 1..(Len(ran) + Len(w)) PROVE Ns'[i] = (Ns \o w)[i]
      OBVIOUS
    <3>1. Ns'[i] = ran'[i].n
      BY <2>3, <2>4
    <3>2. CASE i <= Len(ran)
      BY <2>3, <2>5, <2>6, <3>1, <3>2
    <3>3. CASE ~(i <= Len(ran))
      <4>1. i - Len(ran) \in 1..Len(w)
        BY <2>1, <2>3, <3>3
      <4>2. QED
        BY <2>1, <2>3, <2>6, <3>1, <3>3, <4>1
    <3>4. QED
      BY <3>2, <3>3
  <2>8. Ns' = Ns \o w
    BY <2>3, <2>4, <2>6, <2>7, SeqEqual
  <2>9. Ns \o w = Texts
    <3>1. (Ns \o left) \o inbox = Ns \o (left \o inbox)
      BY <1>0, ConcatAssociative
    <3>2. QED
      BY <1>0, <3>1 DEF w
  <2>10. Texts' = Ns'
    BY <1>a, <2>2, <2>4, ConcatEmptySeq
  <2>11. ~(StartTurn \/ Queue)
    BY <1>3, <2>2 DEF Round, StartTurn, Queue, Handles, Ready, Turning, TypeOK
  <2>12. QED
    BY <2>8, <2>9, <2>10, <2>11
<1>4. CASE End
  <2>1. Ns' = Ns /\ left = <<>>
    BY <1>4 DEF End, Turning, Ns
  <2>2. inbox' = <<>> \/ (left' = left /\ inbox' = inbox)
    BY <1>4 DEF End, Over
  <2>3. ASSUME left' = left, inbox' = inbox PROVE Texts' = Texts
    BY <1>0, <1>a, <2>1, <2>3
  <2>4. ASSUME left' = inbox, inbox' = <<>> PROVE Texts' = Texts
    <3>1. Ns \o inbox \in Seq(Requests) /\ Ns \o left = Ns
      BY <1>0, <2>1, ConcatProperties, ConcatEmptySeq
    <3>2. QED
      BY <1>0, <1>a, <2>1, <2>4, <3>1, ConcatEmptySeq
  <2>5. ~(StartTurn \/ Queue)
    BY <1>4 DEF End, StartTurn, Queue, Handles, Ready, InHand
  <2>6. QED
    BY <1>4, <2>3, <2>4, <2>5 DEF End, Over
<1>5. CASE UNCHANGED <<left, inbox, ran>>
  <2>1. Texts' = Texts
    BY <1>5 DEF Texts
  <2>2. QED
    BY <1>1, <1>2, <2>1
<1>6. UNCHANGED <<left, inbox, ran>> \/ StartTurn \/ Queue \/ Round \/ End
  BY DEF Next, Handle, Turn, Read, EndOfInput, Refuse, History, Check, Compact, Context, Reply,
         SwitchTo, SetApprovals, SetDebug, Queued, Exit, Close, vars, turn
<1>7. QED
  BY <1>1, <1>2, <1>3, <1>4, <1>5, <1>6

Below == IF reader = "handle" THEN sent ELSE sent + 1

LEMMA OrderedInit == Init => Ordered
<1> SUFFICES ASSUME Init PROVE Ordered
  OBVIOUS
<1>1. TypeOK /\ ran = <<>> /\ left = <<>> /\ inbox = <<>>
  BY InitType DEF Init
<1>2. Len(Ns) = 0 /\ Ns \in Seq(Requests)
  BY <1>1, TextsType
<1>3. Ns = <<>>
  BY <1>2, EmptySeq
<1>4. Texts = <<>>
  BY <1>1, <1>2, <1>3, TextsType, ConcatEmptySeq, EmptySeq
<1>5. QED
  BY <1>4 DEF Ordered, Ascending

LEMMA OrderedStep ==
  ASSUME TypeOK, TypeOK', Turning, Closing, Ordered, [Next]_vars
  PROVE  Ordered'
<1>1. /\ Ascending(Texts, Below) /\ Below \in Int /\ Below' \in Int
      /\ Ordered' <=> Ascending(Texts, Below)'
  <2>1. sent \in Int /\ sent' \in Int
    BY DEF TypeOK
  <2>2. Below \in Int /\ Below' \in Int
    BY <2>1 DEF Below
  <2>3. QED
    BY <2>2 DEF Ordered, Below
<1>2. CASE StartTurn \/ Queue
  <2>1. request.n \in Requests /\ reader = "handle" /\ reader' # "handle" /\ sent' = sent
    BY <1>2, InHand DEF StartTurn, Queue, Handles, Ready, Kinds
  <2>2. request.n = sent /\ Below = request.n /\ Below' = request.n + 1
    BY <2>1 DEF Closing, Below
  <2>3. Texts \in Seq(Requests) /\ Texts' = Append(Texts, request.n)
    BY <1>2, TextsType, TextsStep
  <2>4. Ascending(Append(Texts, request.n), request.n + 1)
    BY <1>1, <2>1, <2>2, <2>3, AscendingAppend
  <2>5. QED
    BY <1>1, <2>2, <2>3, <2>4 DEF Ascending
<1>3. CASE ~(StartTurn \/ Queue)
  <2>1. Texts' = Texts
    BY <1>3, TextsStep
  <2>2. Below <= Below'
    <3>1. CASE Read
      BY <3>1 DEF Read, Below, TypeOK
    <3>2. ASSUME ~Read PROVE sent' = sent /\ (reader' = "handle" => reader = "handle")
      BY <3>2 DEF Next, Handle, Turn, EndOfInput, Refuse, History, Check, Compact, Context,
             Reply, SwitchTo, SetApprovals, SetDebug, StartTurn, Queue, Queued, Exit, Round, Close, End,
             vars, record, Ready
    <3>3. QED
      <4>1. sent \in Int
        BY DEF TypeOK
      <4>2. CASE ~Read
        BY <3>2, <4>1, <4>2 DEF Below
      <4>3. QED
        BY <3>1, <4>2
  <2>3. \A i \in DOMAIN Texts : Texts[i] \in Int
    <3>1. Texts \in Seq(Requests)
      BY TextsType
    <3>2. DOMAIN Texts = 1..Len(Texts) /\ \A i \in 1..Len(Texts) : Texts[i] \in Requests
      BY <3>1, LenProperties, ElementOfSeq
    <3>3. QED
      BY <3>2 DEF Requests
  <2>4. \A i \in DOMAIN Texts : Texts[i] < Below'
    BY <1>1, <2>2, <2>3 DEF Ascending
  <2>5. QED
    BY <1>1, <2>1, <2>4 DEF Ascending
<1>4. QED
  BY <1>2, <1>3

LEMMA AppendElements ==
  ASSUME NEW s \in Seq(Requests), NEW n \in Requests
  PROVE  \A i \in DOMAIN Append(s, n) : Append(s, n)[i] = n \/ (i \in DOMAIN s /\ Append(s, n)[i] = s[i])
<1> DEFINE t == Append(s, n)
<1>1. /\ DOMAIN s = 1..Len(s) /\ Len(s) \in Nat /\ DOMAIN t = 1..(Len(s) + 1)
      /\ \A i \in 1..Len(s) : t[i] = s[i]
      /\ t[Len(s) + 1] = n
  BY LenProperties, AppendProperties
<1> HIDE DEF t
<1>2. ASSUME NEW i \in DOMAIN t
      PROVE  t[i] = n \/ (i \in DOMAIN s /\ t[i] = s[i])
  <2>1. i \in 1..Len(s) \/ i = Len(s) + 1
    BY <1>1, <1>2
  <2>2. QED
    BY <1>1, <2>1
<1>3. QED
  BY <1>2 DEF t

(* A text is taken: what it was told is noted for it and no text before it. *)
LEMMA TakingText ==
  ASSUME TypeOK, TypeOK', Turning, Closing, Ordered, Taking, StartTurn \/ Queue
  PROVE  Taking'
<1>1. request.n \in Requests /\ request.n = sent /\ reader = "handle"
  BY InHand DEF StartTurn, Queue, Handles, Closing, Kinds
<1>2. /\ \A i \in DOMAIN ran : ran[i].n \in Requests /\ ran[i].n < sent
      /\ \A i \in DOMAIN left : left[i] \in Requests /\ left[i] < sent
      /\ \A i \in DOMAIN inbox : inbox[i] \in Requests /\ inbox[i] < sent
  <2>1. sent \in Int /\ \A k \in DOMAIN Texts : Texts[k] < sent
    BY <1>1 DEF Ordered, Ascending, TypeOK
  <2>2. QED
    BY <2>1, InTexts
<1>3. /\ accepted' = [accepted EXCEPT ![sent] = told] /\ accepted \in [Requests -> Settings]
      /\ UNCHANGED <<told, ran, session, approvals>> /\ sent \in Int
  <2>1. Accept /\ UNCHANGED <<told, ran, switches>>
    BY DEF StartTurn, Queue
  <2>2. QED
    BY <1>1, <2>1 DEF Accept, TypeOK, switches
<1>4. told = Here /\ told' = Here' /\ Here' = Here
  BY <1>3 DEF Taking, Here
<1>5. accepted'[sent] = Here /\ \A n \in Requests : n < sent => accepted'[n] = accepted[n]
  BY <1>1, <1>3, <1>4
<1>6. \A i \in DOMAIN ran : /\ ran[i].session = accepted'[ran[i].n].session
                           /\ ran[i].approvals = accepted'[ran[i].n].approvals
  BY <1>2, <1>5 DEF Taking
<1>7. CASE StartTurn
  <2>1. left' = <<sent>> /\ inbox' = <<>>
    BY <1>1, <1>7 DEF StartTurn, Handles, Waits, Turning
  <2>2. QED
    BY <1>3, <1>4, <1>5, <1>6, <2>1 DEF Taking
<1>8. CASE Queue
  <2>1. left' = left /\ inbox' = Append(inbox, sent) /\ inbox \in Seq(Requests) /\ sent \in Requests
    BY <1>1, <1>8 DEF Queue, TypeOK
  <2>2. \A i \in DOMAIN inbox' : inbox'[i] = sent \/ (i \in DOMAIN inbox /\ inbox'[i] = inbox[i])
    BY <2>1, AppendElements
  <2>3. \A i \in DOMAIN inbox' : accepted'[inbox'[i]] = Here
    BY <1>2, <1>5, <2>2 DEF Taking
  <2>4. \A i \in DOMAIN left : accepted'[left[i]] = Here
    BY <1>2, <1>5 DEF Taking
  <2>5. QED
    BY <1>3, <1>4, <1>6, <2>1, <2>3, <2>4 DEF Taking
<1>9. QED
  BY <1>7, <1>8

(* A round's texts carry the session and the approvals that hold. *)
LEMMA TakingRound ==
  ASSUME TypeOK, Taking, Round
  PROVE  Taking'
<1> DEFINE w == left \o inbox
           s == [i \in 1..Len(w) |-> [n |-> w[i], session |-> session, approvals |-> approvals]]
<1>1. /\ w \in Seq(Requests) /\ Len(w) \in Nat /\ s \in Seq(Runs) /\ Len(s) = Len(w)
      /\ \A i \in 1..Len(w) : s[i].n = w[i] /\ s[i].session = session /\ s[i].approvals = approvals
  BY RoundTexts
<1>2. /\ ran' = ran \o s /\ left' = <<>> /\ inbox' = <<>>
      /\ UNCHANGED <<session, approvals, told, accepted>>
  BY DEF Round, switches, record
<1>3. /\ left \in Seq(Requests) /\ inbox \in Seq(Requests)
      /\ Len(left) \in Nat /\ Len(inbox) \in Nat
      /\ DOMAIN left = 1..Len(left) /\ DOMAIN inbox = 1..Len(inbox)
      /\ ran \in Seq(Runs) /\ Len(ran) \in Nat /\ DOMAIN ran = 1..Len(ran)
  BY LenProperties DEF TypeOK, Runs
<1>4. \A i \in 1..Len(w) : accepted[w[i]] = Here
  <2>1. /\ Len(w) = Len(left) + Len(inbox)
        /\ \A i \in 1..(Len(left) + Len(inbox)) : w[i] = IF i <= Len(left) THEN left[i] ELSE inbox[i - Len(left)]
    BY <1>3, ConcatProperties
  <2> HIDE DEF w
  <2>2. SUFFICES ASSUME NEW i \in 1..Len(w) PROVE accepted[w[i]] = Here
    OBVIOUS
  <2>3. CASE i <= Len(left)
    BY <1>3, <2>1, <2>3 DEF Taking
  <2>4. CASE ~(i <= Len(left))
    <3>1. i - Len(left) \in DOMAIN inbox /\ w[i] = inbox[i - Len(left)]
      BY <1>3, <2>1, <2>4
    <3>2. QED
      BY <3>1 DEF Taking
  <2>5. QED
    BY <2>3, <2>4
<1> HIDE DEF s
<1> HIDE DEF w
<1>5. /\ DOMAIN ran' = 1..(Len(ran) + Len(w))
      /\ \A i \in 1..(Len(ran) + Len(w)) : ran'[i] = IF i <= Len(ran) THEN ran[i] ELSE s[i - Len(ran)]
  <2>1. /\ ran \o s \in Seq(Runs) /\ Len(ran \o s) = Len(ran) + Len(s)
        /\ \A i \in 1..(Len(ran) + Len(s)) : (ran \o s)[i] = IF i <= Len(ran) THEN ran[i] ELSE s[i - Len(ran)]
    <3>1. s \in Seq(Runs) /\ ran \in Seq(Runs)
      BY <1>1, <1>3
    <3>2. QED
      BY <3>1, ConcatProperties
  <2>2. QED
    BY <1>1, <1>2, <2>1, LenProperties
<1>6. ASSUME NEW i \in DOMAIN ran'
      PROVE  ran'[i].session = accepted[ran'[i].n].session /\ ran'[i].approvals = accepted[ran'[i].n].approvals
  <2>1. CASE i <= Len(ran)
    <3>1. i \in DOMAIN ran /\ ran'[i] = ran[i]
      BY <1>3, <1>5, <1>6, <2>1
    <3>2. QED
      BY <3>1 DEF Taking
  <2>2. CASE ~(i <= Len(ran))
    <3>1. i - Len(ran) \in 1..Len(w) /\ ran'[i] = s[i - Len(ran)]
      BY <1>1, <1>3, <1>5, <1>6, <2>2
    <3>2. accepted[ran'[i].n] = Here /\ ran'[i].session = session /\ ran'[i].approvals = approvals
      BY <1>1, <1>4, <3>1
    <3>3. QED
      BY <3>2 DEF Here
  <2>3. QED
    BY <2>1, <2>2
<1>7. told' = Here'
  BY <1>2 DEF Taking, Here
<1>8. QED
  BY <1>2, <1>6, <1>7 DEF Taking

LEMMA TakingStep ==
  ASSUME TypeOK, TypeOK', Turning, Closing, Ordered, Taking, [Next]_vars
  PROVE  Taking'
<1>1. CASE UNCHANGED <<told, session, approvals, left, inbox, accepted, ran>>
  BY <1>1 DEF Taking, Here
<1>2. CASE SwitchTo \/ SetApprovals
  <2>1. worker = "none"
    BY <1>2, InHand DEF SwitchTo, SetApprovals, Handles, Waits, Kinds
  <2>2. left = <<>> /\ inbox = <<>> /\ UNCHANGED <<left, inbox, accepted, ran>>
    BY <1>2, <2>1 DEF Turning, SwitchTo, SetApprovals, turn
  <2>3. told' = Here'
    BY <1>2 DEF SwitchTo, SetApprovals, Reset, Here, Taking, TypeOK, Settings
  <2>4. QED
    BY <2>2, <2>3 DEF Taking
<1>3. CASE StartTurn \/ Queue
  BY <1>3, TakingText
<1>4. CASE Round
  BY <1>4, TakingRound
<1>5. CASE End
  <2>1. UNCHANGED <<told, session, approvals, accepted, ran>> /\ Here' = Here
    BY <1>5 DEF End, switches, record, Here
  <2>2. (inbox' = <<>> /\ left' = inbox) \/ UNCHANGED <<left, inbox>>
    BY <1>5 DEF End, Over
  <2>3. QED
    BY <2>1, <2>2 DEF Taking
<1>6. UNCHANGED <<told, session, approvals, left, inbox, accepted, ran>>
      \/ SwitchTo \/ SetApprovals \/ StartTurn \/ Queue \/ Round \/ End
  BY DEF Next, Handle, Turn, Read, EndOfInput, Refuse, History, Check, Compact, Context, Reply,
         SetDebug, Queued, Exit, Close, vars, turn, switches, record
<1>7. QED
  BY <1>1, <1>2, <1>3, <1>4, <1>5, <1>6

(* The texts go to Hermes in the order they were sent, none of them twice,
   and each as the client was told when it was taken.                       *)
THEOREM RanAsToldHolds == Spec => []RanAsTold
<1> DEFINE IInv == TypeOK /\ Turning /\ Closing /\ ClosedOnce /\ Ordered /\ Taking
<1>1. Init => IInv
  <2>1. Init => Taking
    BY DEF Init, Taking
  <2>2. QED
    BY <2>1, InitType, TurningInit, ClosingInit, OrderedInit
<1>2. IInv /\ [Next]_vars => IInv'
  BY TypeInductive, TurningStep, ClosingStep, OrderedStep, TakingStep
<1>3. IInv => RanAsTold
  <2> SUFFICES ASSUME IInv PROVE RanAsTold
    OBVIOUS
  <2>1. \A i \in DOMAIN ran : i \in DOMAIN Texts /\ Texts[i] = ran[i].n
    <3>1. Below \in Int /\ \A k \in DOMAIN Texts : Texts[k] < Below
      BY DEF Ordered, Ascending, TypeOK, Below
    <3>2. QED
      BY <3>1, InTexts
  <2>2. \A i, j \in DOMAIN ran : i < j => ran[i].n < ran[j].n
    BY <2>1 DEF Ordered, Ascending
  <2>3. QED
    BY <2>2 DEF Taking, RanAsTold
<1>4. QED
  BY <1>1, <1>2, <1>3, PTL DEF Spec
=============================================================================
