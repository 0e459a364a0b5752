------------------------------ MODULE Exchange ------------------------------
(***************************************************************************)
(* What a turn promises Hermes and the operator, the loop's machinery left *)
(* out: hands calls run only in answer to a reply Hermes gave after        *)
(* reading the results of every call before them, and an answer is given   *)
(* only after Hermes read the results of them all.                         *)
(***************************************************************************)
VARIABLES phase,     \* "idle" | "asking" | "acting"
          ran,       \* refs of the calls run this turn
          told,      \* refs whose results Hermes has read
          answered   \* the last turn ended with an answer

evars == <<phase, ran, told, answered>>

Init == phase = "idle" /\ ran = {} /\ told = {} /\ answered = FALSE

(* The operator sends a message. *)
Begin ==
  /\ phase = "idle" /\ phase' = "asking"
  /\ ran' = {} /\ told' = {} /\ answered' = FALSE

(* Hermes is asked again: it may have read the last message, or not. *)
AskAgain ==
  /\ phase = "asking" /\ told' \in {told, ran}
  /\ UNCHANGED <<phase, ran, answered>>

(* Hermes read everything and asks for calls. *)
Act ==
  /\ phase = "asking" /\ phase' = "acting"
  /\ told' = ran
  /\ UNCHANGED <<ran, answered>>

(* A call runs, under a ref no call of the turn had. *)
RunOne ==
  /\ phase = "acting"
  /\ \E r \in ran' \ ran : ran' = ran \cup {r}
  /\ UNCHANGED <<phase, told, answered>>

Report ==
  /\ phase = "acting" /\ phase' = "asking"
  /\ UNCHANGED <<ran, told, answered>>

(* Hermes read everything and answers. *)
AnswerTurn ==
  /\ phase = "asking" /\ phase' = "idle"
  /\ told' = ran /\ answered' = TRUE
  /\ UNCHANGED ran

(* The turn ends without an answer. *)
GiveUp ==
  /\ phase # "idle" /\ phase' = "idle"
  /\ told' \in {told, ran}
  /\ UNCHANGED <<ran, answered>>

Next == Begin \/ AskAgain \/ Act \/ RunOne \/ Report \/ AnswerTurn \/ GiveUp

ESpec == Init /\ [][Next]_evars
=============================================================================
