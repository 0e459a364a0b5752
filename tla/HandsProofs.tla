---------------------------- MODULE HandsProofs ----------------------------
(***************************************************************************)
(* Theorems of Hands, for every tree of directories, every set of rules    *)
(* texts, of modes, and every bound.                                       *)
(***************************************************************************)
EXTENDS Hands, TLAPS

LEMMA NoCallType == NoCall \in [kind : {"none", "shell", "write"}, dir : Dirs]
<1>1. (CHOOSE d \in Dirs : TRUE) \in Dirs
  BY HandsAssumption
<1>2. QED
  BY <1>1 DEF NoCall

LEMMA TakeType ==
  ASSUME TypeOK, NEW where \in SUBSET Dirs
  PROVE  /\ Governing(where) \in SUBSET Dirs /\ Unseen(where) \in SUBSET Governing(where)
         /\ Handed(where) \in SUBSET Texts
         /\ GivenNow(where) \in [Dirs -> Nat]
         /\ [f \in Dirs |-> IF f \in Unseen(where) THEN content[f] ELSE gave[f]]
              \in [Dirs -> Texts \cup {Absent, Blank}]
<1>1. Governing(where) \in SUBSET Dirs
  BY HandsAssumption DEF Governing
<1>2. Unseen(where) \in SUBSET Governing(where)
  BY DEF Unseen
<1>3. Handed(where) \in SUBSET Texts
  BY DEF Handed
<1>4. GivenNow(where) \in [Dirs -> Nat]
  BY DEF GivenNow, TypeOK
<1>5. [f \in Dirs |-> IF f \in Unseen(where) THEN content[f] ELSE gave[f]]
        \in [Dirs -> Texts \cup {Absent, Blank}]
  BY DEF TypeOK
<1>6. QED
  BY <1>1, <1>2, <1>3, <1>4, <1>5

LEMMA SettledType ==
  ASSUME Settled
  PROVE  /\ call' \in [kind : {"none", "shell", "write"}, dir : Dirs]
         /\ modes' \subseteq Modes /\ answer' \in {"none", "yes", "all"}
BY NoCallType DEF Settled

-----------------------------------------------------------------------------
(* Types *)

LEMMA TurnType ==
  TypeOK /\ (StartTurn \/ Batch \/ Answer \/ Fail \/ Report \/ OpenSession) => TypeOK'
<1> SUFFICES ASSUME TypeOK, StartTurn \/ Batch \/ Answer \/ Fail \/ Report \/ OpenSession
             PROVE  TypeOK'
  OBVIOUS
<1>1. CASE StartTurn \/ Report
  BY <1>1 DEF StartTurn, Report, TypeOK, approver, scoped, hermes, consent
<1>2. CASE Batch \/ Answer
  BY <1>2 DEF Batch, Answer, ReadsResults, TypeOK, approver, scoped, consent
<1>3. CASE Fail
  BY <1>3 DEF Fail, TypeOK, approver, scoped, consent
<1>4. CASE OpenSession
  BY <1>4, HandsAssumption DEF OpenSession, TypeOK, scoped, consent
<1>5. QED
  BY <1>1, <1>2, <1>3, <1>4

(* What a call changes when rules are taken for it. *)
LEMMA DispatchType ==
  ASSUME TypeOK, Dispatch \/ Refuse \/ \E where \in SUBSET Dirs : RunShell(where)
  PROVE  TypeOK'
<1>1. CASE Refuse
  BY <1>1, SettledType DEF Refuse, Answered, TypeOK, approver, scoped, hermes
<1>2. CASE DoShell
  <2>1. call' \in [kind : {"none", "shell", "write"}, dir : Dirs]
    BY <1>2, NoCallType DEF DoShell, Comes
  <2>2. QED
    BY <1>2, <2>1 DEF DoShell, Comes, TypeOK, approver, scoped, hermes
<1>3. ASSUME NEW where \in SUBSET Dirs, RunShell(where) \/ \E d \in Dirs : where = {d} /\ DoRead(d)
      PROVE  TypeOK'
  <2>1. Take(where) /\ Answered /\ carried' = carried \cup Handed(where)
        /\ UNCHANGED <<content, changes, approver, hermes, held, saidAll>>
    BY <1>3 DEF RunShell, DoRead
  <2>2. given' \in [Dirs -> Nat] /\ texts' \subseteq Texts /\ carried' \subseteq Texts
        /\ gave' \in [Dirs -> Texts \cup {Absent, Blank}]
    BY <2>1, TakeType DEF Take, TypeOK
  <2>3. QED
    BY <2>1, <2>2, SettledType DEF Take, Answered, TypeOK, approver, hermes
<1>4. ASSUME NEW d \in Dirs, DoReadRules(d)
      PROVE  TypeOK'
  <2>1. given' \in [Dirs -> Nat] /\ texts' \subseteq Texts /\ carried' \subseteq Texts
        /\ gave' \in [Dirs -> Texts \cup {Absent, Blank}]
    <3>1. Handed({d}) \subseteq Texts /\ GivenNow({d}) \in [Dirs -> Nat]
          /\ [f \in Dirs |-> IF f \in Unseen({d}) THEN content[f] ELSE gave[f]]
               \in [Dirs -> Texts \cup {Absent, Blank}]
      BY TakeType
    <3>2. given' = GivenNow({d})
          /\ gave' = [f \in Dirs |-> IF f \in Unseen({d}) THEN content[f] ELSE gave[f]]
          /\ carried' = carried \cup Handed({d}) \cup ({content[d]} \cap Texts)
      BY <1>4 DEF DoReadRules
    <3>3. texts' \subseteq texts \cup ({content[d]} \cap Texts) \cup Handed({d})
      BY <1>4 DEF DoReadRules
    <3>4. texts \subseteq Texts /\ carried \subseteq Texts
      BY DEF TypeOK
    <3>5. QED
      BY <3>1, <3>2, <3>3, <3>4
  <2>2. Answered /\ UNCHANGED <<content, changes, approver, round, hermes, held, saidAll>>
    BY <1>4 DEF DoReadRules
  <2>3. QED
    BY <2>1, <2>2, SettledType DEF Answered, TypeOK, approver, hermes
<1>5. ASSUME NEW d \in Dirs, Writes(d)
      PROVE  TypeOK'
  <2>1. given' \in [Dirs -> Nat] /\ texts' \subseteq Texts /\ carried' \subseteq Texts
        /\ gave' \in [Dirs -> Texts \cup {Absent, Blank}] /\ round' = round
    <3>1. Handed({d}) \subseteq Texts /\ GivenNow({d}) \in [Dirs -> Nat]
          /\ [f \in Dirs |-> IF f \in Unseen({d}) THEN content[f] ELSE gave[f]]
               \in [Dirs -> Texts \cup {Absent, Blank}]
      BY TakeType
    <3>2. Take({d}) /\ carried' = carried \cup Handed({d})
      BY <1>5 DEF Writes, DoWrite, DoEdit, WriteCall
    <3>3. texts \subseteq Texts /\ carried \subseteq Texts
      BY DEF TypeOK
    <3>4. QED
      BY <3>1, <3>2, <3>3 DEF Take
  <2>2. held' \in [Dirs -> [round : Nat, files : SUBSET Dirs]]
    BY <1>5, TakeType DEF Writes, DoWrite, DoEdit, WriteCall, TypeOK
  <2>3. UNCHANGED <<content, changes, approver, hermes, saidAll>>
    BY <1>5 DEF Writes, DoWrite, DoEdit, WriteCall
  <2>4. CASE Answered
    BY <2>3, <2>1, <2>2, <2>4, SettledType DEF Answered, TypeOK, approver, hermes
  <2>5. CASE Comes("write", d) /\ UNCHANGED calls
    BY <2>3, <2>1, <2>2, <2>5 DEF Comes, TypeOK, approver, hermes
  <2>6. QED
    BY <1>5, <2>4, <2>5 DEF Writes, DoWrite, DoEdit, WriteCall
<1>6. QED
  BY <1>1, <1>2, <1>3, <1>4, <1>5 DEF Dispatch

LEMMA ApprovalType ==
  ASSUME TypeOK, Confirm \/ Approve("yes") \/ Approve("all") \/ Decline \/ Quit \/ Apply
  PROVE  TypeOK'
<1>1. CASE Confirm
  <2>1. UNCHANGED <<content, changes, approver, scoped, carried, gave, hermes, held, saidAll>>
    BY <1>1 DEF Confirm
  <2>2. CASE Answered
    BY <2>1, <2>2, SettledType DEF Answered, TypeOK, approver, scoped, hermes
  <2>3. CASE pc' \in {"allowed", "question"} /\ UNCHANGED <<calls, call, modes, answer>>
    BY <2>1, <2>3 DEF TypeOK, approver, scoped, hermes
  <2>4. QED
    BY <1>1, <2>2, <2>3 DEF Confirm
<1>2. ASSUME NEW reply \in {"yes", "all"}, Approve(reply)
      PROVE  TypeOK'
  <2>1. allDone' \in BOOLEAN /\ saidAll' \in BOOLEAN
    BY <1>2, Zenon DEF Approve, Latches, TypeOK
  <2>2. QED
    BY <1>2, <2>1 DEF Approve, TypeOK, scoped, hermes
<1>3. CASE Decline \/ Apply
  BY <1>3, SettledType DEF Decline, Apply, Answered, TypeOK, approver, scoped, hermes
<1>4. CASE Quit
  BY <1>4, SettledType DEF Quit, TypeOK, approver, scoped
<1>5. QED
  BY <1>1, <1>2, <1>3, <1>4

LEMMA TypeInductive == TypeOK /\ [Next]_vars => TypeOK'
<1> SUFFICES ASSUME TypeOK, [Next]_vars PROVE TypeOK'
  OBVIOUS
<1>1. ASSUME NEW m \in Modes, SetMode(m)
      PROVE  TypeOK'
  BY <1>1 DEF SetMode, TypeOK, scoped, hermes
<1>2. ASSUME NEW f \in Dirs, NEW text \in Texts \cup {Absent, Blank}, Change(f, text)
      PROVE  TypeOK'
  BY <1>2 DEF Change, TypeOK, approver, scoped, hermes, consent
<1>3. CASE UNCHANGED vars
  BY <1>3 DEF vars, TypeOK, approver, scoped, hermes, consent
<1>4. QED
  BY <1>1, <1>2, <1>3, TurnType, DispatchType, ApprovalType DEF Next

LEMMA InitType == Init => TypeOK
<1> SUFFICES ASSUME Init PROVE TypeOK
  OBVIOUS
<1>1. allDone \in BOOLEAN /\ saidAll \in BOOLEAN
  BY Zenon DEF Init
<1>2. held \in [Dirs -> [round : Nat, files : SUBSET Dirs]]
  BY DEF Init
<1>3. QED
  BY <1>1, <1>2, NoCallType, HandsAssumption DEF Init, TypeOK

(* Every variable of the hands keeps its type. *)
THEOREM TypeCorrect == Spec => []TypeOK
BY InitType, TypeInductive, PTL DEF Spec

-----------------------------------------------------------------------------
(* The operator's consent *)

LEMMA ConsentInductive == TypeOK /\ Consent /\ [Next]_vars => Consent'
<1> SUFFICES ASSUME TypeOK, Consent, [Next]_vars PROVE Consent'
  OBVIOUS
<1> USE DEF Pending
<1>1. CASE StartTurn \/ Batch \/ Answer \/ Fail \/ Report \/ OpenSession
  <2>1. pc' \in {"idle", "asking", "batch"} /\ allDone' = allDone /\ saidAll' = saidAll
    BY <1>1 DEF StartTurn, Batch, Answer, Fail, Report, OpenSession, approver, consent
  <2>2. QED
    BY <2>1 DEF Consent
<1>2. CASE Refuse \/ Decline \/ Quit \/ Apply
           \/ (\E d \in Dirs : DoRead(d) \/ DoReadRules(d))
           \/ \E where \in SUBSET Dirs : RunShell(where)
  <2>1. pc' \in {"idle", "batch"} /\ allDone' = allDone /\ saidAll' = saidAll
    BY <1>2 DEF Refuse, Decline, Quit, Apply, DoRead, DoReadRules, RunShell, Answered, approver
  <2>2. QED
    BY <2>1 DEF Consent
<1>3. CASE DoShell
  BY <1>3 DEF DoShell, Comes, Consent, approver
<1>4. ASSUME NEW d \in Dirs, Writes(d)
      PROVE  Consent'
  <2>1. UNCHANGED <<mode, allDone, saidAll>>
    BY <1>4 DEF Writes, DoWrite, DoEdit, WriteCall, approver
  <2>2. CASE Answered
    BY <2>1, <2>2 DEF Answered, Consent
  <2>3. CASE mode # "plan" /\ Comes("write", d)
    BY <2>1, <2>3 DEF Comes, Consent
  <2>4. QED
    BY <1>4, <2>2, <2>3 DEF Writes, DoWrite, DoEdit, WriteCall
<1>5. CASE Confirm
  <2>1. UNCHANGED <<mode, allDone, saidAll>>
    BY <1>5 DEF Confirm, approver
  <2>2. CASE Answered
    BY <2>1, <2>2 DEF Answered, Consent
  <2>3. CASE Allowed /\ pc' = "allowed" /\ UNCHANGED <<call, modes, answer>>
    BY <1>5, <2>1, <2>3 DEF Allowed, Consent, Confirm
  <2>4. CASE mode # "never" /\ pc' = "question" /\ UNCHANGED <<call, modes, answer>>
    BY <1>5, <2>1, <2>4 DEF Consent, Confirm
  <2>5. QED
    BY <1>5, <2>2, <2>3, <2>4 DEF Confirm
<1>6. ASSUME NEW reply \in {"yes", "all"}, Approve(reply)
      PROVE  Consent'
  <2>1. pc = "question" /\ pc' = "allowed" /\ answer' = reply /\ UNCHANGED <<mode, call, modes>>
    BY <1>6 DEF Approve
  <2>2. allDone' = saidAll'
    BY <1>6, Zenon DEF Approve, Latches, Consent
  <2>3. QED
    BY <2>1, <2>2 DEF Consent
<1>7. ASSUME NEW m \in Modes, SetMode(m)
      PROVE  Consent'
  BY <1>7 DEF SetMode, Consent
<1>8. ASSUME \/ \E f \in Dirs, text \in Texts \cup {Absent, Blank} : Change(f, text)
             \/ UNCHANGED vars
      PROVE  Consent'
  BY <1>8 DEF Change, vars, approver, consent, Consent
<1>9. CASE Dispatch
  BY <1>2, <1>3, <1>4, <1>9 DEF Dispatch
<1>10. CASE Approve("yes") \/ Approve("all")
  BY <1>6, <1>10
<1>11. QED
  BY <1>1, <1>2, <1>5, <1>7, <1>8, <1>9, <1>10 DEF Next

(* What runs or is written was allowed, however the mode is switched. *)
THEOREM CallsAreAllowed == Spec => []OperatorAllowed
<1>1. Init => Consent
  BY DEF Init, Consent, Pending
<1>2. Consent => OperatorAllowed
  BY DEF Consent, OperatorAllowed, Pending
<1>3. QED
  BY <1>1, <1>2, InitType, TypeInductive, ConsentInductive, PTL DEF Spec

-----------------------------------------------------------------------------
(* Rules handed out *)

(* What Take does to the invariant, with the texts that Saw noted before. *)
LEMMA TakeHanding ==
  ASSUME TypeOK, Handing, round > 0, NEW where \in SUBSET Dirs, NEW seen,
         seen \subseteq {content[f] : f \in Unseen(where)},
         given' = GivenNow(where), texts' = texts \cup seen \cup Handed(where),
         gave' = [f \in Dirs |-> IF f \in Unseen(where) THEN content[f] ELSE gave[f]],
         carried \cup seen \cup Handed(where) \subseteq carried',
         round' = round, read' = read, lost' = lost
  PROVE  Handing'
<1>1. texts' \subseteq read' \cup lost' \cup carried'
  BY DEF Handing
<1>2. ASSUME NEW f \in Dirs, f \in Unseen(where)
      PROVE  given'[f] = round /\ gave'[f] = content[f] /\ (content[f] \in Texts => content[f] \in texts')
  BY <1>2 DEF GivenNow, Handed
<1>3. ASSUME NEW f \in Dirs, f \notin Unseen(where)
      PROVE  given'[f] = given[f] /\ gave'[f] = gave[f]
  BY <1>3 DEF GivenNow
<1>4. ASSUME NEW f \in Dirs
      PROVE  /\ given'[f] <= round'
             /\ given'[f] > 0 /\ gave'[f] \in Texts =>
                  gave'[f] \in texts' /\ (given'[f] < round' => gave'[f] \in read' \cup lost')
  <2>1. CASE f \in Unseen(where)
    BY <1>2, <2>1 DEF TypeOK
  <2>2. CASE f \notin Unseen(where)
    BY <1>3, <2>2 DEF Handing
  <2>3. QED
    BY <2>1, <2>2
<1>5. ASSUME NEW text \in texts'
      PROVE  text \in read' \cup lost' \/ \E g \in Dirs : gave'[g] = text /\ given'[g] = round'
  <2>1. CASE text \in seen \cup Handed(where)
    <3>1. PICK g \in Unseen(where) : content[g] = text
      BY <2>1 DEF Handed
    <3>2. g \in Dirs
      BY TakeType
    <3>3. QED
      BY <1>2, <3>1, <3>2
  <2>2. CASE text \in texts
    <3>1. CASE text \in read \cup lost
      BY <3>1
    <3>2. CASE text \notin read \cup lost
      <4>1. PICK g \in Dirs : gave[g] = text /\ given[g] = round
        BY <2>2, <3>2 DEF Handing
      <4>2. g \notin Unseen(where)
        BY <4>1 DEF Unseen
      <4>3. QED
        BY <1>3, <4>1, <4>2
    <3>3. QED
      BY <3>1, <3>2
  <2>3. QED
    BY <2>1, <2>2
<1>6. QED
  BY <1>1, <1>4, <1>5 DEF Handing

LEMMA HandingInductive == TypeOK /\ Handing /\ [Next]_vars => Handing'
<1> SUFFICES ASSUME TypeOK, Handing, [Next]_vars PROVE Handing'
  OBVIOUS
<1>1. ASSUME UNCHANGED <<scoped, gave>>,
             read \cup lost \cup carried \subseteq read' \cup lost' \cup carried',
             read \cup lost \subseteq read' \cup lost',
             pc' = "batch" \/ Pending' => pc = "batch" \/ Pending
      PROVE  Handing'
  <2>1. round' = round /\ given' = given /\ texts' = texts /\ gave' = gave
    BY <1>1 DEF scoped
  <2>2. QED
    BY <1>1, <2>1 DEF Handing
<1>2. CASE StartTurn \/ Answer \/ Fail \/ Report \/ Quit
  BY <1>1, <1>2 DEF StartTurn, Answer, Fail, Report, Quit, ReadsResults, hermes, Pending
<1>3. CASE OpenSession
  BY <1>1, <1>3 DEF OpenSession, Pending
<1>4. CASE Batch
  <2>1. round' = round + 1 /\ round \in Nat /\ UNCHANGED <<given, texts, gave>>
        /\ read' = read \cup carried /\ lost' = lost
    BY <1>4 DEF Batch, ReadsResults, TypeOK
  <2>2. \A f \in Dirs : given[f] \in Nat /\ given[f] <= round
    BY DEF TypeOK, Handing
  <2>3. texts' \subseteq read' \cup lost'
    BY <2>1 DEF Handing
  <2>4. \A f \in Dirs : given'[f] > 0 /\ gave'[f] \in Texts => gave'[f] \in texts'
    BY <2>1 DEF Handing
  <2>5. round' > 0 /\ \A f \in Dirs : given'[f] <= round'
    BY <2>1, <2>2
  <2>6. QED
    BY <2>3, <2>4, <2>5 DEF Handing
<1>5. CASE Refuse \/ DoShell \/ Confirm \/ Approve("yes") \/ Approve("all") \/ Decline \/ Apply
  <2>1. UNCHANGED <<scoped, gave, carried, hermes>> /\ (pc = "batch" \/ Pending)
    BY <1>5 DEF Refuse, DoShell, Confirm, Approve, Decline, Apply, Pending
  <2>2. QED
    BY <1>1, <2>1 DEF hermes
<1>6. ASSUME \/ \E m \in Modes : SetMode(m)
             \/ \E f \in Dirs, text \in Texts \cup {Absent, Blank} : Change(f, text)
             \/ UNCHANGED vars
      PROVE  Handing'
  <2>1. UNCHANGED <<scoped, gave, carried, hermes, pc>>
    BY <1>6 DEF SetMode, Change, vars
  <2>2. QED
    BY <1>1, <2>1 DEF hermes, Pending
<1>7. ASSUME NEW where \in SUBSET Dirs,
             RunShell(where) \/ \E d \in Dirs : where = {d} /\ (DoRead(d) \/ Writes(d))
      PROVE  Handing'
  <2>1. Take(where) /\ carried' = carried \cup Handed(where) /\ UNCHANGED hermes
        /\ (pc = "batch" \/ Pending)
    BY <1>7 DEF RunShell, DoRead, Writes, DoWrite, DoEdit, WriteCall, Pending
  <2>2. round > 0
    BY <2>1 DEF Handing
  <2> DEFINE seen == {}
  <2>3. seen \subseteq {content[f] : f \in Unseen(where)}
        /\ texts' = texts \cup seen \cup Handed(where) /\ given' = GivenNow(where) /\ round' = round
        /\ gave' = [f \in Dirs |-> IF f \in Unseen(where) THEN content[f] ELSE gave[f]]
    BY <2>1 DEF Take
  <2>4. carried \cup seen \cup Handed(where) \subseteq carried' /\ read' = read /\ lost' = lost
    BY <2>1 DEF hermes
  <2>5. QED
    <3> HIDE DEF seen
    <3>1. QED
      BY <2>2, <2>3, <2>4, TakeHanding
<1>8. ASSUME NEW d \in Dirs, DoReadRules(d)
      PROVE  Handing'
  <2> DEFINE seen == IF d \in Unseen({d}) THEN {content[d]} \cap Texts ELSE {}
  <2>1. round > 0 /\ UNCHANGED <<round, hermes>>
    BY <1>8 DEF DoReadRules, Handing
  <2>2. given' = GivenNow({d}) /\ texts' = texts \cup seen \cup Handed({d})
        /\ gave' = [f \in Dirs |-> IF f \in Unseen({d}) THEN content[f] ELSE gave[f]]
    BY <1>8 DEF DoReadRules
  <2>3. carried \cup seen \cup Handed({d}) \subseteq carried'
    BY <1>8 DEF DoReadRules
  <2>4. seen \subseteq {content[f] : f \in Unseen({d})}
    OBVIOUS
  <2>5. QED
    <3> HIDE DEF seen
    <3>1. QED
      BY <2>1, <2>2, <2>3, <2>4, TakeHanding DEF hermes
<1>9. CASE Dispatch
  BY <1>5, <1>7, <1>8, <1>9 DEF Dispatch
<1>10. QED
  BY <1>2, <1>3, <1>4, <1>5, <1>6, <1>7, <1>9 DEF Next

(* Only a write that is not held back goes to the approver as one. *)
LEMMA LetThroughIsWrite ==
  ASSUME [Next]_vars, NEW d \in Dirs, LetThrough(d)
  PROVE  Writes(d) /\ ~Fresh({d}) /\ pc = "batch"
<1>1. pc = "batch" /\ pc' = "confirm" /\ call'.kind = "write" /\ call'.dir = d
  BY DEF LetThrough
<1>2. ~(StartTurn \/ Batch \/ Answer \/ Fail \/ Report \/ OpenSession \/ Refuse \/ DoShell)
  BY <1>1 DEF StartTurn, Batch, Answer, Fail, Report, OpenSession, Refuse, Answered, DoShell, Comes
<1>3. ~(Confirm \/ Approve("yes") \/ Approve("all") \/ Decline \/ Quit \/ Apply
         \/ \E where \in SUBSET Dirs : RunShell(where))
  BY <1>1 DEF Confirm, Approve, Decline, Quit, Apply, RunShell
<1>4. ~(\/ \E m \in Modes : SetMode(m)
        \/ \E f \in Dirs, text \in Texts \cup {Absent, Blank} : Change(f, text)
        \/ UNCHANGED vars)
  BY <1>1 DEF SetMode, Change, vars
<1>5. \A e \in Dirs : ~(DoRead(e) \/ DoReadRules(e))
  BY <1>1 DEF DoRead, DoReadRules, Answered
<1>6. PICK e \in Dirs : Writes(e)
  BY <1>2, <1>3, <1>4, <1>5 DEF Next, Dispatch
<1>7. ~Fresh({e}) /\ e = d
  BY <1>1, <1>6 DEF Writes, DoWrite, DoEdit, WriteCall, Comes, Answered
<1>8. QED
  BY <1>1, <1>6, <1>7

(* A write is let through under rules Hermes had before it wrote the batch,
   whatever brought them along and whatever became of the requests.        *)
THEOREM RulesComeFirst == Spec => RulesBeforeWrite
<1>1. Init => Handing
  BY DEF Init, Handing, Pending
<1>2. ASSUME TypeOK, Handing, [Next]_vars, NEW d \in Dirs, LetThrough(d), NEW f \in Binding(d)
      PROVE  \/ gave'[f] \in read \cup lost
             \/ \E g \in Dirs \ {f} : gave[g] = gave'[f] /\ given[g] = round
  <2>1. Writes(d) /\ ~Fresh({d}) /\ pc = "batch"
    BY <1>2, LetThroughIsWrite
  <2>2. f \in Governing({d}) /\ f \in Dirs /\ gave'[f] \in Texts
    BY <1>2, TakeType DEF Binding
  <2>3. Handed({d}) = {} /\ given[f] # round
    BY <2>1, <2>2 DEF Fresh
  <2>4. gave' = [g \in Dirs |-> IF g \in Unseen({d}) THEN content[g] ELSE gave[g]]
    BY <2>1 DEF Writes, DoWrite, DoEdit, WriteCall, Take
  <2>5. CASE f \in Unseen({d})
    <3>1. gave'[f] = content[f] /\ given[f] = 0
      BY <2>2, <2>4, <2>5 DEF Unseen
    <3>2. gave'[f] \in texts
      BY <2>2, <2>3, <2>5, <3>1 DEF Handed
    <3>3. round > 0
      BY <1>2, <2>1 DEF Handing
    <3>4. QED
      BY <1>2, <3>1, <3>2, <3>3 DEF Handing
  <2>6. CASE f \notin Unseen({d})
    <3>1. gave'[f] = gave[f] /\ given[f] # 0
      BY <2>2, <2>4, <2>6 DEF Unseen
    <3>2. given[f] \in Nat /\ round \in Nat /\ given[f] <= round
      BY <1>2, <2>2 DEF Handing, TypeOK
    <3>3. given[f] > 0 /\ given[f] < round
      BY <2>3, <3>1, <3>2
    <3>4. QED
      BY <1>2, <2>2, <3>1, <3>3 DEF Handing
  <2>7. QED
    BY <2>5, <2>6
<1>3. TypeOK /\ Handing /\ [Next]_vars =>
        [\A d \in Dirs : LetThrough(d) => \A f \in Binding(d) :
           \/ gave'[f] \in read \cup lost
           \/ \E g \in Dirs \ {f} : gave[g] = gave'[f] /\ given[g] = round]_vars
  BY <1>2
<1>4. QED
  BY <1>1, <1>3, InitType, TypeInductive, HandingInductive, PTL DEF Spec, RulesBeforeWrite

-----------------------------------------------------------------------------
(* Writes held back *)

(* What the steps other than writes do to what Holding is about. *)
LEMMA OtherSteps ==
  ASSUME TypeOK, [Next]_vars, ~(\E d \in Dirs : Writes(d))
  PROVE  /\ held' = held
         /\ \/ given' = given /\ round' \in {round, round + 1}
            \/ \E where \in SUBSET Dirs : given' = GivenNow(where) /\ round' = round
<1>1. CASE StartTurn \/ Batch \/ Answer \/ Fail \/ Report \/ OpenSession
  BY <1>1 DEF StartTurn, Batch, Answer, Fail, Report, OpenSession, scoped
<1>2. CASE Refuse \/ DoShell \/ Confirm \/ Approve("yes") \/ Approve("all") \/ Decline \/ Quit \/ Apply
  BY <1>2 DEF Refuse, DoShell, Confirm, Approve, Decline, Quit, Apply, scoped
<1>3. ASSUME \/ \E m \in Modes : SetMode(m)
             \/ \E f \in Dirs, text \in Texts \cup {Absent, Blank} : Change(f, text)
             \/ UNCHANGED vars
      PROVE  held' = held /\ given' = given /\ round' = round
  BY <1>3 DEF SetMode, Change, vars, scoped
<1>4. ASSUME NEW where \in SUBSET Dirs,
             RunShell(where) \/ \E d \in Dirs : where = {d} /\ (DoRead(d) \/ DoReadRules(d))
      PROVE  held' = held /\ given' = GivenNow(where) /\ round' = round
  BY <1>4 DEF RunShell, DoRead, DoReadRules, Take
<1>5. CASE \E d \in Dirs : DoRead(d) \/ DoReadRules(d)
  <2>1. PICK d \in Dirs : DoRead(d) \/ DoReadRules(d)
    BY <1>5
  <2>2. {d} \in SUBSET Dirs
    OBVIOUS
  <2>3. QED
    BY <1>4, <2>1, <2>2
<1>6. QED
  BY <1>1, <1>2, <1>3, <1>4, <1>5 DEF Next, Dispatch

LEMMA HoldingInductive == TypeOK /\ Handing /\ Holding /\ [Next]_vars => Holding'
<1> SUFFICES ASSUME TypeOK, Handing, Holding, [Next]_vars PROVE Holding'
  OBVIOUS
<1>1. ASSUME NEW where \in SUBSET Dirs, given' = GivenNow(where)
      PROVE  \A f \in Dirs : IF f \in Unseen(where) THEN given'[f] = round /\ given[f] = 0
                                                     ELSE given'[f] = given[f]
  BY <1>1 DEF GivenNow, Unseen
<1>2. CASE held' = held /\ given' = given /\ round' \in {round, round + 1}
  BY <1>2 DEF Holding, TypeOK
<1>3. ASSUME NEW where \in SUBSET Dirs, given' = GivenNow(where), held' = held, round' = round
      PROVE  Holding'
  <2>1. \A d \in Dirs : \A f \in held[d].files : f \in Dirs /\ given[f] > 0
    BY DEF Holding, TypeOK
  <2>2. \A d \in Dirs : \A f \in held[d].files : given'[f] = given[f]
    BY <1>1, <1>3, <2>1
  <2>3. QED
    BY <1>3, <2>2 DEF Holding
<1>4. ASSUME NEW d \in Dirs, Writes(d)
      PROVE  Holding'
  <2>1. Take({d}) /\ given' = GivenNow({d}) /\ round' = round
    BY <1>4 DEF Writes, DoWrite, DoEdit, WriteCall, Take
  <2>2. CASE held' = held
    BY <1>3, <2>1, <2>2
  <2>3. CASE held' = [held EXCEPT ![d] = [round |-> round, files |-> Governing({d})]]
    <3>1. round > 0 /\ round \in Nat
      BY <1>4 DEF Writes, DoWrite, DoEdit, WriteCall, Handing, TypeOK
    <3>2. \A f \in Dirs : given[f] \in Nat /\ given[f] <= round
      BY DEF Handing, TypeOK
    <3>3. \A f \in Governing({d}) : f \in Dirs /\ (f \notin Unseen({d}) => given[f] # 0)
      BY TakeType DEF Unseen
    <3>4. \A f \in Governing({d}) : 0 < given'[f] /\ given'[f] <= round
      BY <1>1, <2>1, <3>1, <3>2, <3>3
    <3>5. held'[d] = [round |-> round, files |-> Governing({d})]
          /\ \A e \in Dirs \ {d} : held'[e] = held[e]
      BY <2>3 DEF TypeOK
    <3>6. \A e \in Dirs : \A f \in held[e].files : f \in Dirs /\ given[f] > 0
      BY DEF Holding, TypeOK
    <3>7. \A e \in Dirs : \A f \in held[e].files : given'[f] = given[f]
      <4>1. \A f \in Dirs : given[f] > 0 => given'[f] = given[f]
        BY <1>1, <2>1
      <4>2. QED
        BY <3>6, <4>1
    <3>8. held'[d].round <= round' /\ \A f \in held'[d].files : 0 < given'[f] /\ given'[f] <= held'[d].round
      BY <2>1, <3>1, <3>4, <3>5
    <3>9. ASSUME NEW e \in Dirs \ {d}
          PROVE  held'[e].round <= round' /\ \A f \in held'[e].files : 0 < given'[f] /\ given'[f] <= held'[e].round
      BY <2>1, <3>5, <3>7 DEF Holding
    <3>10. QED
      BY <3>8, <3>9 DEF Holding
  <2>4. QED
    BY <1>4, <2>2, <2>3 DEF Writes, DoWrite, DoEdit, WriteCall
<1>5. CASE ~(\E d \in Dirs : Writes(d))
  BY <1>2, <1>3, <1>5, OtherSteps
<1>6. QED
  BY <1>4, <1>5

(* A write sent again in a later batch is not held back once more for rules
   files that were there before.                                           *)
THEOREM WritesAreHeldOnce == Spec => HeldOnce
<1>1. Init => Handing /\ Holding
  BY DEF Init, Handing, Holding, Pending
<1>2. ASSUME TypeOK, Handing, Holding, [Next]_vars, NEW d \in Dirs,
             held'[d].round > held[d].round, held'[d].files \subseteq held[d].files
      PROVE  FALSE
  <2>1. held[d].round \in Nat
    BY <1>2 DEF TypeOK
  <2>2. PICK e \in Dirs : Writes(e)
    BY <1>2, <2>1, OtherSteps
  <2>3. held' = [held EXCEPT ![e] = [round |-> round, files |-> Governing({e})]] /\ Fresh({e})
    BY <1>2, <2>1, <2>2 DEF Writes, DoWrite, DoEdit, WriteCall
  <2>4. e = d /\ held'[d].round = round /\ held'[d].files = Governing({d})
    <3>1. held \in [Dirs -> [round : Nat, files : SUBSET Dirs]] /\ d \in Dirs /\ e \in Dirs
      BY <1>2, <2>2 DEF TypeOK
    <3>2. CASE e # d
      <4>1. held'[d] = held[d]
        BY <2>3, <3>1, <3>2
      <4>2. QED
        BY <1>2, <2>1, <4>1
    <3>3. CASE e = d
      <4>1. held'[d] = [round |-> round, files |-> Governing({d})]
        BY <2>3, <3>1, <3>3
      <4>2. QED
        BY <3>3, <4>1
    <3>4. QED
      BY <3>2, <3>3
  <2>5. \A f \in Governing({d}) : 0 < given[f] /\ given[f] <= held[d].round
    BY <1>2, <2>4 DEF Holding
  <2>6. round \in Nat /\ \A f \in Governing({d}) : given[f] \in Nat
    BY <1>2, TakeType DEF TypeOK
  <2>7. \A f \in Governing({d}) : given[f] # 0 /\ given[f] # round
    BY <1>2, <2>1, <2>4, <2>5, <2>6
  <2>8. Handed({d}) = {}
    BY <2>7 DEF Handed, Unseen
  <2>9. QED
    BY <2>3, <2>4, <2>7, <2>8 DEF Fresh
<1>3. TypeOK /\ Handing /\ Holding /\ [Next]_vars =>
        [\A d \in Dirs : held'[d].round > held[d].round
           => ~(held'[d].files \subseteq held[d].files)]_vars
  BY <1>2
<1>4. QED
  BY <1>1, <1>3, InitType, TypeInductive, HandingInductive, HoldingInductive, PTL DEF Spec, HeldOnce
=============================================================================
