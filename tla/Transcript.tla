----------------------------- MODULE Transcript -----------------------------
(***************************************************************************)
(* The conversation Hermes reads, rendered from a session's event log      *)
(* (internal/session: transcript.go, elide.go, fit.go) - what a compaction *)
(* decides and what is left out, never the wording.  An event is a record  *)
(* of the log.  A conversation is the sequence of its parts: the event a   *)
(* part carries, its role, its form; neighbours of one role are one        *)
(* message, strictly alternating.                                          *)
(*                                                                         *)
(* A round runs one call: its KindCall and KindResult are one event here,  *)
(* out NoResult when the process died in between.                          *)
(***************************************************************************)
EXTENDS Integers, SequencesExt

CONSTANTS Short,   \* outputs too short to elide or to hash (< ElideMin)
          Fitting, \* longer ones that fit the round's budget
          Huge     \* ones FitRound cuts

NoResult == "no result"

Outputs == Short \cup Fitting \cup Huge

Hashed == Fitting \cup Huge

Blank == [seq |-> 0, kind |-> "", turn |-> 0, ref |-> 0, out |-> NoResult, ok |-> FALSE,
          upto |-> 0, collapse |-> 0, checkpoint |-> 0]

HasRun(e) == e.kind = "round" /\ e.out # NoResult

LatestTurn(evs) == IF evs = <<>> THEN 0 ELSE evs[Len(evs)].turn

RefsOf(evs) == {0} \cup {evs[i].ref : i \in DOMAIN evs}

LatestRef(evs) == CHOOSE r \in RefsOf(evs) : \A s \in RefsOf(evs) : s <= r

(* The compaction in effect; Blank: none yet. *)
LastCompact(evs) ==
  LET at == {i \in DOMAIN evs : evs[i].kind = "compact"}
  IN  IF at = {} THEN Blank ELSE evs[CHOOSE i \in at : \A j \in at : j <= i]

(* The events numbered above seq. *)
After(evs, seq) == FlattenSeq([i \in DOMAIN evs |-> IF evs[i].seq > seq THEN <<evs[i]>> ELSE <<>>])

-----------------------------------------------------------------------------
Part(e, role, form, of) == [seq |-> e.seq, role |-> role, form |-> form, of |-> of]

User(e, form)      == <<Part(e, "user", form, 0)>>
Assistant(e, form) == <<Part(e, "assistant", form, 0)>>

Collapsed(e, o) == e.turn <= o.collapse

Elided(e, o) == e.out = NoResult \/ e.seq <= o.upto

\* mutant of Seen: an elided output counts as sent
Seen_Elided(evs, e, o) ==
  {evs[i].ref : i \in {j \in DOMAIN evs : /\ HasRun(evs[j]) /\ evs[j].seq < e.seq /\ evs[j].out = e.out
                                          /\ ~Collapsed(evs[j], o)}}

\* mutant of Seen: the latest copy is the one kept
Seen_Later(evs, e, o) ==
  {evs[i].ref : i \in {j \in DOMAIN evs : /\ HasRun(evs[j]) /\ evs[j].seq > e.seq /\ evs[j].out = e.out
                                          /\ ~Collapsed(evs[j], o) /\ ~Elided(evs[j], o)}}

(* The earlier calls with e's output that are not elided: the first of them
   went out verbatim.                                                       *)
Seen(evs, e, o) ==
  {evs[i].ref : i \in {j \in DOMAIN evs : /\ HasRun(evs[j]) /\ evs[j].seq < e.seq /\ evs[j].out = e.out
                                          /\ ~Collapsed(evs[j], o) /\ ~Elided(evs[j], o)}}

First(refs) == CHOOSE r \in refs : \A s \in refs : r <= s

(* An elided output: a line that names it; a short one costs less and stays. *)
AsLine(e) == User(e, IF e.out \in Short THEN "full" ELSE "line")

(* FitRound: what the round's budget does not hold keeps its head and tail. *)
Fitted(e) == User(e, IF e.out \in Huge THEN "cut" ELSE "full")

(* A batch's results: elided, a repeat as a reference to the first, or fitted
   to the round's budget again.                                             *)
Results(evs, e, o) ==
  IF Elided(e, o) THEN AsLine(e)
  ELSE IF e.out \in Hashed /\ Seen(evs, e, o) # {}
  THEN <<Part(e, "user", "same", First(Seen(evs, e, o)))>>
  ELSE Fitted(e)

(* elideReply: an old reply's prose and long arguments are shortened. *)
Reply(e, o) == Assistant(e, IF e.seq <= o.upto THEN "line" ELSE "full")

(* What evs has of e's turn before e. *)
Before(evs, e, kinds) ==
  {i \in DOMAIN evs : evs[i].turn = e.turn /\ evs[i].seq < e.seq /\ evs[i].kind \in kinds}

Replied(evs, e) == Before(evs, e, {"reply"}) # {}

(* The last reply asked for nothing more. *)
Final(evs, e) ==
  \E i \in Before(evs, e, {"reply"}) : \A j \in Before(evs, e, {"reply", "round"}) : j <= i

Closing(evs, e) ==
  IF ~e.ok \/ (Replied(evs, e) /\ ~Final(evs, e)) THEN User(e, "full")
  ELSE IF ~Replied(evs, e) THEN Assistant(e, "full")
  ELSE <<>>

(* turn: the operator's message, every reply, every round's results. *)
InTurn(evs, e, o) ==
  CASE e.kind \in {"user", "added"} -> User(e, "full")
    [] e.kind = "reply"  -> Reply(e, o)
    [] e.kind = "round"  -> Results(evs, e, o)
    [] e.kind = "answer" -> Closing(evs, e)
    [] OTHER             -> <<>>

EndsTurn(evs, e) == \A i \in DOMAIN evs : evs[i].turn = e.turn => evs[i].seq <= e.seq

(* collapsed: the operator's messages, and one answer for the rest. *)
InCollapsed(evs, e) ==
  (IF e.kind \in {"user", "added"} THEN User(e, "full") ELSE <<>>)
    \o (IF EndsTurn(evs, e) THEN <<Part(e, "assistant", "gist", e.turn)>> ELSE <<>>)

Piece(evs, e, o) == IF Collapsed(e, o) THEN InCollapsed(evs, e) ELSE InTurn(evs, e, o)

Transcript(evs, o) == FlattenSeq([i \in DOMAIN evs |-> Piece(evs, evs[i], o)])

\* mutant of WithoutInput: the last message goes, whosever it is
WithoutInput_Last(parts) ==
  LET others == {i \in DOMAIN parts : parts[i].role # parts[Len(parts)].role}
  IN  IF others = {} THEN <<>> ELSE SubSeq(parts, 1, CHOOSE i \in others : \A j \in others : j <= i)

(* The trailing user message goes as the run's input. *)
WithoutInput(parts) ==
  LET said == {i \in DOMAIN parts : parts[i].role = "assistant"}
  IN  IF said = {} THEN <<>> ELSE SubSeq(parts, 1, CHOOSE i \in said : \A j \in said : j <= i)
=============================================================================
