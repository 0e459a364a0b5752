-------------------------------- MODULE Hands --------------------------------
(***************************************************************************)
(* The hands (internal/dispatch, prompt, knowsystem/scoped.go): the calls  *)
(* of Hermes' batches, each checked, held back, asked for and applied.     *)
(*                                                                         *)
(* A directory below the root may have a rules file, and is governed by    *)
(* its own and those above it.  The first call into it brings its rules    *)
(* along; a write composed before Hermes read them is held back.  What is  *)
(* to run or to be written the operator is asked for, as the approvals     *)
(* mode has it; the mode is switched while turns run, and files change.    *)
(***************************************************************************)
EXTENDS Integers, FiniteSets

CONSTANTS Dirs,       \* directories below the root; a rules file is named by its own
          Above,      \* the directories whose rules govern one: itself and those above it
          Texts,      \* what a rules file may say
          Inlined,    \* the texts the instructions carry
          Modes,      \* the approvals modes in use
          MaxRounds,  \* bound: batches of the process
          MaxBatch,   \* bound: calls of a batch
          MaxChanges  \* bound: changes of rules files

Absent == "no file"
Blank  == "blank file"

ASSUME HandsAssumption ==
  /\ Dirs # {} /\ Above \in [Dirs -> SUBSET Dirs]
  /\ Modes \subseteq {"ask", "plan", "auto", "never"}
  /\ Inlined \subseteq Texts /\ Absent \notin Texts /\ Blank \notin Texts
  /\ MaxRounds \in Nat /\ MaxBatch \in Nat /\ MaxChanges \in Nat

VARIABLES
  content,  \* the rules files on disk
  changes,  \* changes of them so far
  \* the approver
  mode, allDone,
  \* ScopedRules
  round,
  given,    \* the round a file was handed out in; 0: not yet
  texts,    \* contents already with Hermes
  \* the turn
  pc,       \* "idle" | "asking" (Hermes) | "batch" | "confirm" | "question" | "allowed"
  calls,    \* calls of the batch so far
  call,     \* the call being answered: what it does, where
  carried,  \* the rules in the results Hermes has not read
  \* history variables, read by no action
  gave,     \* what a file said when it was handed out
  read,     \* the texts Hermes has read in this conversation
  lost,     \* those it may not have: the turn failed, or the conversation is another
  held,     \* per directory, the last write held back: its batch, the rules there
  modes,    \* the modes in effect since the call came in
  answer,   \* what the operator answered to it
  saidAll   \* they answered "all" once

approver == <<mode, allDone>>
scoped   == <<round, given, texts>>
hermes   == <<read, lost>>
consent  == <<modes, answer, saidAll>>
vars     == <<content, changes, approver, scoped, pc, calls, call, carried, gave, hermes, held,
              consent>>

NoCall == [kind |-> "none", dir |-> CHOOSE d \in Dirs : TRUE]

Init ==
  /\ content \in [Dirs -> Texts \cup {Absent, Blank}] /\ changes = 0
  /\ mode \in Modes /\ allDone = FALSE
  /\ round = 0 /\ given = [f \in Dirs |-> 0] /\ texts = Inlined
  /\ pc = "idle" /\ calls = 0 /\ call = NoCall /\ carried = {}
  /\ gave = [f \in Dirs |-> Absent] /\ read = Inlined /\ lost = {}
  /\ held = [d \in Dirs |-> [round |-> 0, files |-> {}]]
  /\ modes = {} /\ answer = "none" /\ saidAll = FALSE

-----------------------------------------------------------------------------
(* Take: of the rules files that govern where, those not handed out yet are
   handed out, each text once.                                              *)
Governing(where) == {f \in UNION {Above[d] : d \in where} : content[f] # Absent}

Unseen(where) == {f \in Governing(where) : given[f] = 0}

Handed(where) == ({content[f] : f \in Unseen(where)} \cap Texts) \ texts

\* mutant of Fresh: handed out by this very call
Fresh_Handed(where) == Handed(where) # {}

(* Some of them reached Hermes, or will, with this batch's results only. *)
Fresh(where) == Handed(where) # {} \/ \E f \in Governing(where) : given[f] = round

\* mutant of GivenNow: noted again with every call
GivenNow_Again(where) == [f \in Dirs |-> IF f \in Governing(where) THEN round ELSE given[f]]

GivenNow(where) == [f \in Dirs |-> IF f \in Unseen(where) THEN round ELSE given[f]]

Take(where) ==
  /\ given' = GivenNow(where)
  /\ texts' = texts \cup Handed(where)
  /\ gave'  = [f \in Dirs |-> IF f \in Unseen(where) THEN content[f] ELSE gave[f]]
  /\ UNCHANGED round

-----------------------------------------------------------------------------
(* A turn: Hermes is asked, with the results of its last batch if there is one;
   it answers with a batch or ends the turn.                                *)
StartTurn ==
  /\ pc = "idle"
  /\ pc' = "asking"
  /\ UNCHANGED <<content, changes, approver, scoped, calls, call, carried, gave, hermes, held, consent>>

ReadsResults == read' = read \cup carried /\ carried' = {} /\ UNCHANGED lost

(* NextRound: what was handed out before now Hermes saw when it wrote this. *)
Batch ==
  /\ pc = "asking" /\ round < MaxRounds
  /\ pc' = "batch" /\ round' = round + 1
  /\ ReadsResults
  /\ UNCHANGED <<content, changes, approver, given, texts, calls, call, gave, held, consent>>

Answer ==
  /\ pc = "asking"
  /\ pc' = "idle"
  /\ ReadsResults
  /\ UNCHANGED <<content, changes, approver, scoped, calls, call, gave, held, consent>>

(* The request failed or was cancelled; Hermes may have read it all the same. *)
Fail ==
  /\ pc = "asking"
  /\ pc' = "idle" /\ carried' = {} /\ lost' = lost \cup carried /\ UNCHANGED read
  /\ UNCHANGED <<content, changes, approver, scoped, calls, call, gave, held, consent>>

Report ==
  /\ pc = "batch" /\ calls > 0
  /\ pc' = "asking" /\ calls' = 0
  /\ UNCHANGED <<content, changes, approver, scoped, call, carried, gave, hermes, held, consent>>

(* OpenSession: another conversation, the configured mode; the hands keep what
   they handed out, and the latch.                                          *)
OpenSession ==
  /\ pc = "idle"
  /\ read' = Inlined /\ lost' = lost \cup read
  /\ mode' \in Modes
  /\ UNCHANGED <<content, changes, allDone, scoped, pc, calls, call, carried, gave, held, consent>>

-----------------------------------------------------------------------------
(* Dispatch *)
Comes(kind, dir) ==
  pc' = "confirm" /\ call' = [kind |-> kind, dir |-> dir] /\ modes' = {mode} /\ UNCHANGED answer

Settled  == call' = NoCall /\ modes' = {} /\ answer' = "none"

Answered == pc' = "batch" /\ calls' = calls + 1 /\ Settled

(* An unknown tool, a missing argument, a path outside the root, a command on
   the denylist, local_output: nothing runs, no rules are looked up.        *)
Refuse ==
  /\ pc = "batch" /\ calls < MaxBatch
  /\ Answered
  /\ UNCHANGED <<content, changes, approver, scoped, carried, gave, hermes, held, saidAll>>

DoShell ==
  /\ pc = "batch" /\ calls < MaxBatch
  /\ Comes("shell", NoCall.dir)
  /\ UNCHANGED <<content, changes, approver, scoped, calls, carried, gave, hermes, held, saidAll>>

(* local_read of a file in dir. *)
DoRead(dir) ==
  /\ pc = "batch" /\ calls < MaxBatch
  /\ Take({dir}) /\ carried' = carried \cup Handed({dir})
  /\ Answered
  /\ UNCHANGED <<content, changes, approver, hermes, held, saidAll>>

(* local_read of dir's rules file: Saw, then Take. *)
DoReadRules(dir) ==
  /\ pc = "batch" /\ calls < MaxBatch
  /\ dir \in Governing({dir})
  /\ LET seen == IF dir \in Unseen({dir}) THEN {content[dir]} \cap Texts ELSE {}
     IN  /\ given' = GivenNow({dir})
         /\ texts' = texts \cup seen \cup Handed({dir})
         /\ gave'  = [f \in Dirs |-> IF f \in Unseen({dir}) THEN content[f] ELSE gave[f]]
  /\ carried' = carried \cup Handed({dir}) \cup ({content[dir]} \cap Texts)
  /\ Answered
  /\ UNCHANGED <<content, changes, approver, round, hermes, held, saidAll>>

(* A write or an edit is held back, fails, is refused in plan mode, or goes on
   to the approver.                                                         *)
WriteCall(dir, fails) ==
  /\ pc = "batch" /\ calls < MaxBatch
  /\ Take({dir}) /\ carried' = carried \cup Handed({dir})
  /\ IF Fresh({dir})
     THEN /\ Answered
          /\ held' = [held EXCEPT ![dir] = [round |-> round, files |-> Governing({dir})]]
     ELSE /\ UNCHANGED held
          /\ IF fails \/ mode = "plan" THEN Answered ELSE Comes("write", dir) /\ UNCHANGED calls
  /\ UNCHANGED <<content, changes, approver, hermes, saidAll>>

DoWrite(dir) == WriteCall(dir, FALSE)

(* No such file, or no single match: known before the mode is looked at. *)
DoEdit(dir) == WriteCall(dir, FALSE) \/ WriteCall(dir, TRUE)

Writes(dir) == DoWrite(dir) \/ DoEdit(dir)

-----------------------------------------------------------------------------
(* Confirm: by the mode, by the latch, or the operator is asked. *)
Allowed == mode = "auto" \/ (mode \in {"ask", "plan"} /\ allDone)

Confirm ==
  /\ pc = "confirm"
  /\ \/ Allowed /\ pc' = "allowed" /\ UNCHANGED <<calls, call, modes, answer>>
     \/ mode = "never" /\ Answered
     \/ ~Allowed /\ mode # "never" /\ pc' = "question" /\ UNCHANGED <<calls, call, modes, answer>>
  /\ UNCHANGED <<content, changes, approver, scoped, carried, gave, hermes, held, saidAll>>

\* mutant of Latches: a yes latches as well
Latches_Yes(reply) == reply \in {"yes", "all"}

Latches(reply) == reply = "all"

Approve(reply) ==
  /\ pc = "question"
  /\ pc' = "allowed" /\ answer' = reply
  /\ allDone' = (allDone \/ Latches(reply))
  /\ saidAll' = (saidAll \/ reply = "all")
  /\ UNCHANGED <<content, changes, mode, scoped, calls, call, carried, gave, hermes, held, modes>>

Decline ==
  /\ pc = "question"
  /\ Answered
  /\ UNCHANGED <<content, changes, approver, scoped, carried, gave, hermes, held, saidAll>>

(* The operator quits the turn: its batch goes back to nobody. *)
Quit ==
  /\ pc = "question"
  /\ pc' = "idle" /\ Settled
  /\ calls' = 0 /\ carried' = {} /\ lost' = lost \cup carried /\ UNCHANGED read
  /\ UNCHANGED <<content, changes, approver, scoped, gave, held, saidAll>>

(* The command runs; the places it touched are guessed from its words and from
   where it left the shell.                                                 *)
RunShell(where) ==
  /\ pc = "allowed" /\ call.kind = "shell"
  /\ Take(where) /\ carried' = carried \cup Handed(where)
  /\ Answered
  /\ UNCHANGED <<content, changes, approver, hermes, held, saidAll>>

Apply ==
  /\ pc = "allowed" /\ call.kind = "write"
  /\ Answered
  /\ UNCHANGED <<content, changes, approver, scoped, carried, gave, hermes, held, saidAll>>

-----------------------------------------------------------------------------
(* /approve, /yolo, rpc approvals: at any time. *)
SetMode(m) ==
  /\ m # mode
  /\ mode' = m
  /\ modes' = IF pc \in {"confirm", "question", "allowed"} THEN modes \cup {m} ELSE modes
  /\ UNCHANGED <<content, changes, allDone, scoped, pc, calls, call, carried, gave, hermes, held,
                 answer, saidAll>>

(* A command, a write or somebody else writes a rules file. *)
Change(f, text) ==
  /\ changes < MaxChanges
  /\ changes' = changes + 1
  /\ content' = [content EXCEPT ![f] = text]
  /\ UNCHANGED <<approver, scoped, pc, calls, call, carried, gave, hermes, held, consent>>

Dispatch == DoShell \/ \E dir \in Dirs : DoRead(dir) \/ DoReadRules(dir) \/ Writes(dir)

Next ==
  \/ StartTurn \/ Batch \/ Answer \/ Fail \/ Report \/ OpenSession
  \/ Refuse \/ Dispatch
  \/ Confirm \/ Approve("yes") \/ Approve("all") \/ Decline \/ Quit
  \/ Apply \/ \E where \in SUBSET Dirs : RunShell(where)
  \/ \E m \in Modes : SetMode(m)
  \/ \E f \in Dirs, text \in Texts \cup {Absent, Blank} : Change(f, text)

Spec == Init /\ [][Next]_vars

-----------------------------------------------------------------------------
(* Properties *)

TypeOK ==
  /\ content \in [Dirs -> Texts \cup {Absent, Blank}] /\ changes \in Nat
  /\ mode \in Modes /\ allDone \in BOOLEAN
  /\ round \in Nat /\ given \in [Dirs -> Nat] /\ texts \subseteq Texts
  /\ pc \in {"idle", "asking", "batch", "confirm", "question", "allowed"}
  /\ calls \in Nat /\ call \in [kind : {"none", "shell", "write"}, dir : Dirs]
  /\ carried \subseteq Texts /\ read \subseteq Texts /\ lost \subseteq Texts
  /\ gave \in [Dirs -> Texts \cup {Absent, Blank}]
  /\ held \in [Dirs -> [round : Nat, files : SUBSET Dirs]]
  /\ modes \subseteq Modes /\ answer \in {"none", "yes", "all"} /\ saidAll \in BOOLEAN

(* A write into dir is let through to the approver, under the rules then there. *)
LetThrough(dir) == pc = "batch" /\ pc' = "confirm" /\ call' = [kind |-> "write", dir |-> dir]

Binding(dir) == {f \in Governing({dir}) : gave'[f] \in Texts}

(* scoped.go, Take: "a write composed before it saw them has to wait".  A write
   is let through only when Hermes had the rules governing it before it wrote
   the batch - in whatever order reads, commands and writes brought them along
   -, but for results that did not reach it, and for a text another file of
   which the same batch brought along.                                      *)
RulesBeforeWrite ==
  [][\A d \in Dirs : LetThrough(d) => \A f \in Binding(d) :
       \/ gave'[f] \in read \cup lost
       \/ \E g \in Dirs \ {f} : gave[g] = gave'[f] /\ given[g] = round]_vars

(* README: "Hermes gets the rules and sends the call again" - which goes
   through: in a later batch a write is held back only for a rules file that
   was not there when the last one was.                                     *)
HeldOnce ==
  [][\A d \in Dirs : held'[d].round > held[d].round
       => ~(held'[d].files \subseteq held[d].files)]_vars

(* README: "Approval by default ... you see the command or diff and confirm".
   Nothing runs or is written unless approvals were off at some time while the
   call was in, the operator said yes to it, or "all" before; nothing at all
   while they are "never", and no write in plan mode, however the mode is
   switched in between.                                                     *)
OperatorAllowed ==
  pc = "allowed" =>
    /\ "auto" \in modes \/ answer # "none" \/ saidAll
    /\ modes # {"never"}
    /\ call.kind = "write" => modes # {"plan"}

(* README: "A local_write / local_edit there that Hermes wrote before it saw
   those rules is held back".  Hermes has read what governs the write.      *)
RulesRead == [][\A d \in Dirs : LetThrough(d) => \A f \in Binding(d) : gave'[f] \in read \cup lost]_vars

-----------------------------------------------------------------------------
(* The inductive invariants behind the theorems of HandsProofs. *)

Pending == pc \in {"confirm", "question", "allowed"}

Consent ==
  /\ allDone = saidAll
  /\ Pending => mode \in modes /\ (call.kind = "write" => \E m \in modes : m # "plan")
  /\ pc = "question" => \E m \in modes : m # "never"
  /\ pc = "allowed" =>
       /\ "auto" \in modes \/ answer # "none" \/ saidAll
       /\ \E m \in modes : m # "never"

Handing ==
  /\ pc = "batch" \/ Pending => round > 0
  /\ texts \subseteq read \cup lost \cup carried
  /\ \A f \in Dirs : given[f] <= round
  /\ \A f \in Dirs : given[f] > 0 /\ gave[f] \in Texts =>
       gave[f] \in texts /\ (given[f] < round => gave[f] \in read \cup lost)
  /\ \A text \in texts : \/ text \in read \cup lost
                         \/ \E g \in Dirs : gave[g] = text /\ given[g] = round

Holding ==
  \A d \in Dirs :
    /\ held[d].round <= round
    /\ \A f \in held[d].files : 0 < given[f] /\ given[f] <= held[d].round
=============================================================================
