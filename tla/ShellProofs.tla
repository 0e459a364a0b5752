---------------------------- MODULE ShellProofs ----------------------------
(***************************************************************************)
(* Theorems of Shell, for any number of commands, shells and calls of Kill *)
(* and any size of the pipe; and, at the end, of the module that reads the *)
(* terminal's bytes, Line: for any bytes and a line of any length.         *)
(***************************************************************************)
EXTENDS Shell, Line, SequenceTheorems, WellFoundedInduction, TLAPS

-----------------------------------------------------------------------------
(* Sequences, an element at a time. *)

LEMMA TailOf ==
  ASSUME NEW S, NEW s \in Seq(S), s # <<>>
  PROVE  /\ Tail(s) \in Seq(S) /\ Len(Tail(s)) = Len(s) - 1 /\ Len(s) \in Nat \ {0}
         /\ DOMAIN s = 1..Len(s) /\ DOMAIN Tail(s) = 1..(Len(s) - 1)
         /\ \A i \in 1..(Len(s) - 1) : Tail(s)[i] = s[i + 1]
         /\ Head(s) = s[1] /\ s[1] \in S
<1>1. Tail(s) \in Seq(S) /\ Len(Tail(s)) = Len(s) - 1 /\ \A i \in 1..(Len(s) - 1) : Tail(s)[i] = s[i + 1]
  BY HeadTailProperties
<1>2. Head(s) = s[1] /\ Head(s) \in S
  BY HeadTailProperties
<1>3. DOMAIN s = 1..Len(s) /\ DOMAIN Tail(s) = 1..Len(Tail(s)) /\ Len(s) \in Nat
  BY <1>1, LenProperties
<1>4. Len(s) # 0
  BY EmptySeq
<1>5. QED
  BY <1>1, <1>2, <1>3, <1>4

LEMMA AppendOf ==
  ASSUME NEW S, NEW s \in Seq(S), NEW e \in S
  PROVE  /\ Append(s, e) \in Seq(S) /\ Len(Append(s, e)) = Len(s) + 1 /\ Len(s) \in Nat
         /\ DOMAIN s = 1..Len(s) /\ DOMAIN Append(s, e) = 1..(Len(s) + 1)
         /\ \A i \in 1..Len(s) : Append(s, e)[i] = s[i] /\ s[i] \in S
         /\ Append(s, e)[Len(s) + 1] = e
         /\ Append(s, e) # <<>>
<1>1. /\ Append(s, e) \in Seq(S) /\ Len(Append(s, e)) = Len(s) + 1
      /\ \A i \in 1..Len(s) : Append(s, e)[i] = s[i]
      /\ Append(s, e)[Len(s) + 1] = e
  BY AppendProperties
<1>2. Len(s) \in Nat /\ DOMAIN s = 1..Len(s) /\ \A i \in 1..Len(s) : s[i] \in S
  BY LenProperties, ElementOfSeq
<1>3. DOMAIN Append(s, e) = 1..(Len(s) + 1)
  BY <1>1, LenProperties
<1>4. Append(s, e) # <<>>
  BY <1>1, <1>2, EmptySeq
<1>5. QED
  BY <1>1, <1>2, <1>3, <1>4

LEMMA PairOf ==
  ASSUME NEW S, NEW s \in Seq(S), NEW a \in S, NEW b \in S
  PROVE  /\ s \o <<a, b>> \in Seq(S) /\ Len(s \o <<a, b>>) = Len(s) + 2 /\ Len(s) \in Nat
         /\ DOMAIN s = 1..Len(s) /\ DOMAIN (s \o <<a, b>>) = 1..(Len(s) + 2)
         /\ \A i \in 1..Len(s) : (s \o <<a, b>>)[i] = s[i] /\ s[i] \in S
         /\ (s \o <<a, b>>)[Len(s) + 1] = a /\ (s \o <<a, b>>)[Len(s) + 2] = b
<1>1. Append(s, a) \in Seq(S) /\ Len(Append(s, a)) = Len(s) + 1
  BY AppendOf
<1>2. s \o <<a, b>> = Append(Append(s, a), b)
  OBVIOUS
<1>3. QED
  BY <1>1, <1>2, AppendOf

LEMMA Indexed ==
  ASSUME NEW S, NEW s \in Seq(S)
  PROVE  DOMAIN s = 1..Len(s) /\ Len(s) \in Nat /\ \A i \in 1..Len(s) : s[i] \in S
BY LenProperties, ElementOfSeq

LEMMA EmptyOf == ASSUME NEW S PROVE <<>> \in Seq(S) /\ DOMAIN <<>> = {} /\ Len(<<>>) = 0
BY EmptySeq

(* What there is. *)
LEMMA Kinds ==
  /\ \A g \in Nat : Prime(g + 1) \in Items /\ Cd(g + 1) \in Items /\ Command(g + 1) \in Items
  /\ Nothing \notin Items
  /\ \A item \in Items, exit \in {0, 1} : Line(item) \in Lines /\ Mark(item, exit) \in Lines
BY DEF Prime, Cd, Command, Items, Nothing, Line, Mark, Lines

-----------------------------------------------------------------------------
(* The types. *)

LEMMA PrimingType == CountsOK => Priming(gen + 1) \in Seq(Items) /\ Priming(gen + 1) # <<>>
<1> SUFFICES ASSUME CountsOK PROVE Priming(gen + 1) \in Seq(Items) /\ Priming(gen + 1) # <<>>
  OBVIOUS
<1>1. gen \in Nat
  BY ShellAssumption DEF CountsOK
<1>2. Prime(gen + 1) \in Items /\ Cd(gen + 1) \in Items
  BY <1>1, Kinds
<1>3. QED
  BY <1>2 DEF Priming

LEMMA DoneType ==
  ASSUME RunOK, FlagsOK, pc \in {"sending", "reading"}, todo # <<>>,
         NEW result \in Answers, Done(result)
  PROVE  /\ pc' \in {"idle", "sending", "stopping", "reading"} /\ todo' \in Seq(Items)
         /\ cancelled' \in BOOLEAN /\ answer' \in Answers
<1>1. todo \in Seq(Items)
  BY DEF RunOK
<1>2. Tail(todo) \in Seq(Items) /\ <<>> \in Seq(Items)
  BY <1>1, TailOf, EmptyOf
<1>3. todo' \in {todo, <<>>, Tail(todo)} /\ pc' \in {"idle", "sending", "stopping"}
  BY DEF Done, Returns, GivesUp
<1>4. answer' \in {answer, result} /\ cancelled' \in {cancelled, FALSE}
  BY DEF Done, Returns, GivesUp
<1>5. QED
  BY <1>1, <1>2, <1>3, <1>4 DEF RunOK, FlagsOK

LEMMA InitType == Init => TypeOK
<1> SUFFICES ASSUME Init PROVE TypeOK
  OBVIOUS
<1>1. CountsOK /\ FlagsOK
  <2>1. CountsOK
    BY ShellAssumption DEF Init, CountsOK
  <2>2. FlagsOK
    BY DEF Init, FlagsOK
  <2>3. QED
    BY <2>1, <2>2
<1>2. RunOK
  BY EmptyOf DEF Init, RunOK, NoAnswer, Answers
<1>3. BashOK
  BY EmptyOf DEF Init, BashOK
<1>4. QED
  BY <1>1, <1>2, <1>3 DEF TypeOK

LEMMA RunType ==
  ASSUME TypeOK, Run
  PROVE  TypeOK'
<1>1. CountsOK /\ FlagsOK /\ RunOK /\ BashOK
  BY DEF TypeOK
<1>2. runs + 1 \in 0..MaxRuns /\ Command(runs + 1) \in Items
  <2>1. runs \in Nat /\ runs < MaxRuns
    BY <1>1, ShellAssumption DEF Run, CountsOK
  <2>2. QED
    BY <2>1, Kinds, ShellAssumption
<1>3. CountsOK' /\ FlagsOK'
  <2>1. CountsOK'
    BY <1>1, <1>2 DEF Run, CountsOK, shell, bash, signal, past
  <2>2. FlagsOK'
    BY <1>1, <1>2 DEF Run, FlagsOK, shell, bash, signal, past
  <2>3. QED
    BY <2>1, <2>2
<1>4. RunOK'
  <2>1. Append(Priming(gen + 1), Command(runs + 1)) \in Seq(Items)
    BY <1>1, <1>2, PrimingType, AppendOf
  <2>2. <<Command(runs + 1)>> \in Seq(Items)
    BY <1>2
  <2>3. pc' \in {"sending", "starting"} /\ todo' \in Seq(Items)
    BY <2>1, <2>2 DEF Run
  <2>4. got' \in Seq(Items) /\ answer' \in Answers
    BY EmptyOf DEF Run, NoAnswer, Answers
  <2>5. QED
    BY <2>3, <2>4 DEF RunOK
<1>5. BashOK'
  BY <1>1 DEF Run, BashOK, bash, past
<1>6. QED
  BY <1>3, <1>4, <1>5 DEF TypeOK

LEMMA StartType ==
  ASSUME TypeOK, Start \/ StartFails \/ Store
  PROVE  TypeOK'
<1>1. CountsOK /\ FlagsOK /\ RunOK /\ BashOK
  BY DEF TypeOK
<1>2. CASE Start
  <2>1. CountsOK' /\ FlagsOK'
    <3>1. CountsOK'
      BY <1>1, <1>2, ShellAssumption DEF Start, CountsOK, run, shell, signal
    <3>2. FlagsOK'
      BY <1>1, <1>2 DEF Start, FlagsOK, run, shell, signal
    <3>3. QED
      BY <3>1, <3>2
  <2>2. RunOK'
    BY <1>1, <1>2 DEF Start, RunOK, run
  <2>3. BashOK'
    BY <1>1, <1>2, EmptyOf DEF Start, BashOK
  <2>4. QED
    BY <2>1, <2>2, <2>3 DEF TypeOK
<1>3. CASE StartFails
  <2>1. CountsOK' /\ FlagsOK'
    <3>1. CountsOK'
      BY <1>1, <1>3 DEF StartFails, Returns, CountsOK, shell, bash, signal, past
    <3>2. FlagsOK'
      BY <1>1, <1>3 DEF StartFails, Returns, FlagsOK, shell, bash, signal, past
    <3>3. QED
      BY <3>1, <3>2
  <2>2. RunOK'
    BY <1>1, <1>3, EmptyOf DEF StartFails, Returns, NotAvailable, RunOK, Answers
  <2>3. BashOK'
    BY <1>1, <1>3 DEF StartFails, BashOK, bash, past
  <2>4. QED
    BY <2>1, <2>2, <2>3 DEF TypeOK
<1>4. CASE Store
  <2>1. CountsOK' /\ FlagsOK'
    <3>1. CountsOK'
      BY <1>1, <1>4, ShellAssumption DEF Store, Group, CountsOK, run, bash, signal, past
    <3>2. FlagsOK'
      BY <1>1, <1>4 DEF Store, Group, FlagsOK, run, bash, signal, past
    <3>3. QED
      BY <3>1, <3>2
  <2>2. RunOK'
    BY <1>1, <1>4 DEF Store, RunOK, run
  <2>3. BashOK'
    BY <1>1, <1>4 DEF Store, BashOK, bash, past
  <2>4. QED
    BY <2>1, <2>2, <2>3 DEF TypeOK
<1>5. QED
  BY <1>2, <1>3, <1>4

LEMMA HeadOfTodo ==
  ASSUME TypeOK, Planned, pc # "idle"
  PROVE  todo # <<>> /\ todo \in Seq(Items) /\ Item \in Items /\ Item = todo[1] /\ 1 \in DOMAIN todo
<1>1. todo # <<>>
  BY DEF Planned
<1>2. todo \in Seq(Items)
  BY DEF TypeOK, RunOK
<1>3. todo[1] \in Items /\ Head(todo) = todo[1] /\ DOMAIN todo = 1..Len(todo) /\ Len(todo) \in Nat \ {0}
  BY <1>1, <1>2, TailOf
<1>4. 1 \in DOMAIN todo
  BY <1>3
<1>5. QED
  BY <1>1, <1>2, <1>3, <1>4 DEF Item

LEMMA SendType ==
  ASSUME TypeOK, Planned, Send
  PROVE  TypeOK'
<1>1. CountsOK /\ FlagsOK /\ RunOK /\ BashOK /\ pc = "sending"
  BY DEF TypeOK, Send
<1>2. todo # <<>> /\ Item \in Items
  BY <1>1, HeadOfTodo
<1>3. got' \in Seq(Items)
  BY EmptyOf DEF Send
<1>4. /\ pc' \in {"idle", "sending", "stopping", "reading"} /\ todo' \in Seq(Items)
      /\ cancelled' \in BOOLEAN /\ answer' \in Answers
  <2>1. CASE alive
    BY <1>1, <2>1 DEF Send, RunOK, FlagsOK
  <2>2. CASE ~alive
    <3>1. NotAvailable \in Answers
      BY DEF NotAvailable, Answers
    <3>2. Done(NotAvailable)
      BY <2>2 DEF Send
    <3>3. QED
      BY <1>1, <1>2, <3>1, <3>2, DoneType
  <2>3. QED
    BY <2>1, <2>2
<1>5. input' \in Seq(Lines)
  <2>1. input \in Seq(Lines)
    BY <1>1 DEF BashOK
  <2>2. Line(Item) \in Lines /\ Mark(Item, 0) \in Lines
    BY <1>2, Kinds
  <2>3. input \o <<Line(Item), Mark(Item, 0)>> \in Seq(Lines)
    BY <2>1, <2>2, PairOf
  <2>4. QED
    BY <2>1, <2>3 DEF Send
<1>6. CountsOK' /\ FlagsOK'
  <2>1. CountsOK'
    BY <1>1, <1>4 DEF Send, CountsOK, shell, signal
  <2>2. FlagsOK'
    BY <1>1, <1>4 DEF Send, FlagsOK, shell, signal
  <2>3. QED
    BY <2>1, <2>2
<1>7. RunOK'
  BY <1>3, <1>4 DEF RunOK
<1>8. BashOK'
  BY <1>1, <1>5 DEF Send, BashOK, past
<1>9. QED
  BY <1>6, <1>7, <1>8 DEF TypeOK

LEMMA ReadType ==
  ASSUME TypeOK, Planned, ReadLine \/ ReadFails
  PROVE  TypeOK'
<1>1. CountsOK /\ FlagsOK /\ RunOK /\ BashOK /\ pc = "reading"
  BY DEF TypeOK, ReadLine, ReadFails
<1>2. todo # <<>> /\ Item \in Items
  BY <1>1, HeadOfTodo
<1>3. CASE ReadLine
  <2>1. pipe \in Seq(Lines) /\ pipe # <<>>
    BY <1>1, <1>3 DEF BashOK, ReadLine
  <2>2. Tail(pipe) \in Seq(Lines) /\ Head(pipe) \in Lines
    BY <2>1, TailOf
  <2>3. /\ pc' \in {"idle", "sending", "stopping", "reading"} /\ todo' \in Seq(Items)
        /\ cancelled' \in BOOLEAN /\ answer' \in Answers
    <3>1. CASE Marks(Head(pipe), Item)
      <4>1. [how |-> "ok", exit |-> Head(pipe).exit] \in Answers
        BY <2>2 DEF Lines, Answers
      <4>2. Done([how |-> "ok", exit |-> Head(pipe).exit])
        BY <1>3, <3>1 DEF ReadLine
      <4>3. QED
        BY <1>1, <1>2, <4>1, <4>2, DoneType
    <3>2. CASE ~Marks(Head(pipe), Item)
      BY <1>1, <1>3, <3>2 DEF ReadLine, RunOK, FlagsOK
    <3>3. QED
      BY <3>1, <3>2
  <2>4. got' \in Seq(Items)
    <3>1. Head(pipe).of \in Items /\ got \in Seq(Items)
      BY <1>1, <2>2 DEF RunOK, Lines
    <3>2. Append(got, Head(pipe).of) \in Seq(Items)
      BY <3>1, AppendOf
    <3>3. QED
      BY <1>3, <3>1, <3>2 DEF ReadLine
  <2>5. CountsOK' /\ FlagsOK'
    <3>1. CountsOK'
      BY <1>1, <1>3, <2>3 DEF ReadLine, CountsOK, shell, signal
    <3>2. FlagsOK'
      BY <1>1, <1>3, <2>3 DEF ReadLine, FlagsOK, shell, signal
    <3>3. QED
      BY <3>1, <3>2
  <2>6. RunOK'
    BY <2>3, <2>4 DEF RunOK
  <2>7. BashOK'
    BY <1>1, <1>3, <2>2 DEF ReadLine, BashOK, past
  <2>8. QED
    BY <2>5, <2>6, <2>7 DEF TypeOK
<1>4. CASE ReadFails
  <2>1. [how |-> "reset", exit |-> 124] \in Answers /\ Done([how |-> "reset", exit |-> 124])
    BY <1>4 DEF Answers, ReadFails
  <2>2. /\ pc' \in {"idle", "sending", "stopping", "reading"} /\ todo' \in Seq(Items)
        /\ cancelled' \in BOOLEAN /\ answer' \in Answers
    BY <1>1, <1>2, <2>1, DoneType
  <2>3. CountsOK' /\ FlagsOK'
    <3>1. CountsOK'
      BY <1>1, <1>4, <2>2 DEF ReadFails, CountsOK, shell, bash, signal
    <3>2. FlagsOK'
      BY <1>1, <1>4, <2>2 DEF ReadFails, FlagsOK, shell, bash, signal
    <3>3. QED
      BY <3>1, <3>2
  <2>4. RunOK'
    BY <1>1, <1>4, <2>2 DEF ReadFails, RunOK
  <2>5. BashOK'
    BY <1>1, <1>4 DEF ReadFails, BashOK, bash, past
  <2>6. QED
    BY <2>3, <2>4, <2>5 DEF TypeOK
<1>5. QED
  BY <1>3, <1>4

LEMMA StopType ==
  ASSUME TypeOK, Reset \/ Stop
  PROVE  TypeOK'
<1>1. CountsOK /\ FlagsOK /\ RunOK /\ BashOK
  BY DEF TypeOK
<1>2. CountsOK' /\ FlagsOK'
  <2>1. CountsOK'
    BY <1>1, ShellAssumption DEF Reset, Stop, Stopped, CountsOK, run, signal
  <2>2. FlagsOK'
    BY <1>1 DEF Reset, Stop, Stopped, FlagsOK, run, signal
  <2>3. QED
    BY <2>1, <2>2
<1>3. RunOK'
  BY <1>1, PrimingType DEF Reset, Stop, RunOK, run
<1>4. BashOK'
  BY <1>1, EmptyOf DEF Reset, Stop, Stopped, BashOK
<1>5. QED
  BY <1>2, <1>3, <1>4 DEF TypeOK

LEMMA BashType ==
  ASSUME TypeOK, Begin \/ (\E exit \in {0, 1} : Finish(exit)) \/ Talk \/ LeaveBehind \/ ReadInput \/ Exit
  PROVE  TypeOK'
<1>1. CountsOK /\ FlagsOK /\ RunOK /\ BashOK /\ input \in Seq(Lines) /\ pipe \in Seq(Lines)
  BY DEF TypeOK, BashOK
<1>2. RunOK'
  BY <1>1 DEF Begin, Finish, Talk, LeaveBehind, ReadInput, Exit, Bash, run, RunOK
<1>3. CountsOK' /\ FlagsOK'
  <2>1. CountsOK'
    BY <1>1 DEF Begin, Finish, Talk, LeaveBehind, ReadInput, Exit, Bash, run, shell, signal, CountsOK
  <2>2. FlagsOK'
    BY <1>1 DEF Begin, Finish, Talk, LeaveBehind, ReadInput, Exit, Bash, run, shell, signal, FlagsOK
  <2>3. QED
    BY <2>1, <2>2
<1>4. CASE Begin
  <2>1. Tail(input) \in Seq(Lines) /\ Head(input) \in Lines
    BY <1>1, <1>4, TailOf DEF Begin
  <2>2. Head(input).of \in Items /\ Mark(Head(input).of, status) \in Lines
    BY <1>1, <2>1, Kinds DEF Lines, CountsOK
  <2>3. Append(pipe, Mark(Head(input).of, status)) \in Seq(Lines)
    BY <1>1, <2>2, AppendOf
  <2>4. input' \in Seq(Lines) /\ pipe' \in Seq(Lines)
    BY <1>1, <1>4, <2>1, <2>3 DEF Begin, Writes
  <2>5. at' \in Items \cup {Nothing} /\ began' \subseteq Items
    BY <1>1, <1>4, <2>2 DEF Begin, BashOK
  <2>6. BashOK'
    BY <1>1, <1>4, <2>4, <2>5 DEF Begin, Bash, BashOK
  <2>7. QED
    BY <1>2, <1>3, <2>6 DEF TypeOK
<1>5. ASSUME NEW exit \in {0, 1}, Finish(exit)
      PROVE  TypeOK'
  <2>1. at \in Items
    BY <1>1, <1>5 DEF Finish, BashOK
  <2>2. Line(at) \in Lines /\ Mark(at, exit) \in Lines
    BY <2>1, Kinds
  <2>3. Append(pipe, Line(at)) \in Seq(Lines)
    BY <1>1, <2>2, AppendOf
  <2>4. BashOK'
    BY <1>1, <1>5, <2>2, <2>3 DEF Finish, Writes, Bash, BashOK
  <2>5. QED
    BY <1>2, <1>3, <2>4 DEF TypeOK
<1>6. CASE Talk
  <2>1. PICK item \in behind \cup {at} : item.what = "command" /\ Writes(Line(item))
    BY <1>6 DEF Talk
  <2>2. item \in Items
    BY <1>1, <2>1 DEF BashOK, Nothing
  <2>3. pipe' \in Seq(Lines)
    BY <1>1, <2>1, <2>2, AppendOf, Kinds DEF Writes
  <2>4. BashOK'
    BY <1>1, <1>6, <2>3 DEF Talk, Bash, BashOK
  <2>5. QED
    BY <1>2, <1>3, <2>4 DEF TypeOK
<1>7. CASE LeaveBehind
  <2>1. at \in Items
    BY <1>1, <1>7 DEF LeaveBehind, Nothing, BashOK
  <2>2. BashOK'
    BY <1>1, <1>7, <2>1 DEF LeaveBehind, Bash, BashOK
  <2>3. QED
    BY <1>2, <1>3, <2>2 DEF TypeOK
<1>8. CASE ReadInput
  <2>1. Tail(input) \in Seq(Lines)
    BY <1>1, <1>8, TailOf DEF ReadInput
  <2>2. BashOK'
    BY <1>1, <1>8, <2>1 DEF ReadInput, Bash, BashOK
  <2>3. QED
    BY <1>2, <1>3, <2>2 DEF TypeOK
<1>9. CASE Exit
  <2>1. BashOK'
    BY <1>1, <1>9, EmptyOf DEF Exit, Bash, BashOK
  <2>2. QED
    BY <1>2, <1>3, <2>1 DEF TypeOK
<1>10. QED
  BY <1>4, <1>5, <1>6, <1>7, <1>8, <1>9

LEMMA KillType ==
  ASSUME TypeOK, KillLoad \/ KillSignal
  PROVE  TypeOK'
<1>1. CountsOK /\ FlagsOK /\ RunOK /\ BashOK
  BY DEF TypeOK
<1>2. CountsOK' /\ FlagsOK'
  <2>1. CountsOK'
    BY <1>1, ShellAssumption DEF KillLoad, KillSignal, CountsOK, run, shell, bash
  <2>2. FlagsOK'
    BY <1>1 DEF KillLoad, KillSignal, FlagsOK, run, shell, bash
  <2>3. QED
    BY <2>1, <2>2
<1>3. RunOK'
  BY <1>1 DEF KillLoad, KillSignal, RunOK, run
<1>4. BashOK'
  BY <1>1, EmptyOf DEF KillLoad, KillSignal, BashOK, bash, past
<1>5. QED
  BY <1>2, <1>3, <1>4 DEF TypeOK

-----------------------------------------------------------------------------
(* The invariant, an action at a time. *)

USE DEF Mine, IsCommand, Waiting

LEMMA Sized ==
  ASSUME TypeOK
  PROVE  /\ todo \in Seq(Items) /\ DOMAIN todo = 1..Len(todo) /\ Len(todo) \in Nat
         /\ input \in Seq(Lines) /\ DOMAIN input = 1..Len(input) /\ Len(input) \in Nat
         /\ pipe \in Seq(Lines) /\ DOMAIN pipe = 1..Len(pipe) /\ Len(pipe) \in Nat
         /\ runs \in Nat /\ gen \in Nat
<1>1. todo \in Seq(Items) /\ input \in Seq(Lines) /\ pipe \in Seq(Lines)
  BY DEF TypeOK, RunOK, BashOK
<1>2. runs \in Nat /\ gen \in Nat
  BY ShellAssumption DEF TypeOK, CountsOK
<1>3. QED
  BY <1>1, <1>2, Indexed

(* Priming has two items, and no command. *)
LEMMA PrimingIs ==
  /\ Priming(gen + 1) # <<>> /\ DOMAIN Priming(gen + 1) = 1..2 /\ Len(Priming(gen + 1)) = 2
  /\ \A i \in 1..2 : Priming(gen + 1)[i].what # "command"
BY DEF Priming, Prime, Cd

LEMMA Unavailable == NotAvailable.how = "not available"
BY DEF NotAvailable

LEMMA InitInv == Init => IInv
<1> SUFFICES ASSUME Init PROVE IInv
  OBVIOUS
<1>1. Planned
  BY EmptyOf DEF Init, Planned
<1>2. Untouched /\ Calm /\ Paired /\ Piped
  BY EmptyOf DEF Init, Untouched, Calm, Paired, Piped, Command, Nothing
<1>3. Behind /\ AnswerIsItsOwn /\ OutputIsOwn
  BY DEF Init, Behind, AnswerIsItsOwn, OutputIsOwn, NoAnswer
<1>4. QED
  BY <1>1, <1>2, <1>3 DEF IInv

LEMMA RunInv ==
  ASSUME TypeOK, IInv, Run
  PROVE  IInv'
<1>1. /\ Planned /\ Calm /\ Paired /\ Piped /\ Behind
      /\ pc = "idle" /\ pc' \in {"sending", "starting"} /\ runs' = runs + 1 /\ answer' = NoAnswer
      /\ UNCHANGED <<bash, past>>
  BY DEF IInv, Run
<1>2. DOMAIN input = 1..Len(input) /\ DOMAIN pipe = 1..Len(pipe) /\ runs \in Nat
  BY Sized
<1>3. /\ ~IsCommand(at) /\ \A i \in DOMAIN input : ~IsCommand(input[i].of)
      /\ \A i \in DOMAIN pipe : IsCommand(pipe[i].of) => ~pipe[i].mark /\ pipe[i].of \in strays
  BY <1>1 DEF Calm, Piped
<1>4. Planned'
  <2>1. \/ todo' = <<Command(runs + 1)>>
        \/ todo' = Append(Priming(gen + 1), Command(runs + 1))
    BY DEF Run
  <2>2. CASE todo' = <<Command(runs + 1)>>
    BY <1>1, <2>2 DEF Planned, Command, NoAnswer
  <2>3. CASE todo' = Append(Priming(gen + 1), Command(runs + 1))
    <3>1. Priming(gen + 1) \in Seq(Items) /\ Command(runs + 1) \in Items
      BY <1>2, PrimingType, Kinds DEF TypeOK
    <3>2. /\ todo' # <<>> /\ DOMAIN todo' = 1..3 /\ Len(todo') = 3 /\ todo'[3] = Command(runs + 1)
          /\ todo'[1].what # "command" /\ todo'[2].what # "command"
      BY <2>3, <3>1, AppendOf, PrimingIs
    <3>3. QED
      BY <1>1, <3>2 DEF Planned, Command, NoAnswer
  <2>4. QED
    BY <2>1, <2>2, <2>3
<1>5. Untouched'
  <2>1. \A item \in behind \cup strays \cup began : item # Command(runs + 1)
    BY <1>1, <1>2 DEF Behind, Command
  <2>2. at # Command(runs + 1)
    BY <1>3 DEF Command
  <2>3. \A i \in DOMAIN input : input[i].of # Command(runs + 1)
    BY <1>3 DEF Command
  <2>4. \A i \in DOMAIN pipe : pipe[i].of # Command(runs + 1)
    BY <1>3, <2>1 DEF Command
  <2>5. QED
    BY <1>1, <2>1, <2>2, <2>3, <2>4 DEF Untouched, bash, past
<1>6. Calm'
  BY <1>1, <1>3 DEF Calm, bash
<1>7. Paired'
  BY <1>1, <1>3 DEF Paired, bash, past
<1>8. Piped'
  BY <1>1, <1>3 DEF Piped, bash, past
<1>9. Behind'
  <2>1. \A item \in behind \cup strays \cup began : item.n \in Nat
    BY DEF TypeOK, BashOK, Items
  <2>2. \A item \in behind \cup strays \cup began : IsCommand(item) => item.n <= runs + 1
    BY <1>1, <1>2, <2>1 DEF Behind
  <2>3. QED
    BY <1>1, <2>2 DEF Behind, bash, past, NoAnswer
<1>10. AnswerIsItsOwn' /\ OutputIsOwn'
  BY <1>1 DEF AnswerIsItsOwn, OutputIsOwn, NoAnswer
<1>11. QED
  BY <1>4, <1>5, <1>6, <1>7, <1>8, <1>9, <1>10 DEF IInv

LEMMA StartInv ==
  ASSUME TypeOK, IInv, Start \/ StartFails \/ Store
  PROVE  IInv'
<1>1. /\ Planned /\ Untouched /\ Calm /\ Paired /\ Piped /\ Behind /\ AnswerIsItsOwn
      /\ UNCHANGED <<runs, began, ended>> /\ pc \in {"starting", "started"} /\ todo # <<>>
      /\ pc' \notin {"reading", "stopping"}
  BY DEF IInv, Planned, Start, StartFails, Store, Returns, run, past
<1>2. AnswerIsItsOwn' /\ OutputIsOwn'
  <2>1. answer' = answer \/ (answer.how = "none" /\ answer' = NotAvailable)
    BY DEF Start, StartFails, Store, run
  <2>2. answer.how = "none" => Mine \notin began
    BY <1>1 DEF Untouched
  <2>3. answer' = answer \/ (answer.how = "none" /\ answer'.how = "not available")
    BY <2>1, Unavailable
  <2>5. AnswerIsItsOwn'
    BY <1>1, <2>2, <2>3 DEF AnswerIsItsOwn
  <2>6. QED
    BY <1>1, <2>5 DEF OutputIsOwn
<1>3. CASE Start
  <2>1. /\ UNCHANGED <<todo, answer, left>> /\ input' = <<>> /\ at' = Nothing /\ pipe' = <<>>
        /\ behind' = {} /\ strays' = {} /\ pc' = "started"
    BY <1>3 DEF Start, run
  <2>2. Planned'
    BY <1>1, <2>1 DEF Planned
  <2>3. Untouched' /\ Calm' /\ Paired' /\ Piped' /\ Behind'
    BY <1>1, <2>1, EmptyOf DEF Untouched, Calm, Paired, Piped, Behind, Nothing, Command
  <2>4. QED
    BY <1>2, <2>2, <2>3 DEF IInv
<1>4. CASE StartFails
  <2>1. /\ todo' = <<>> /\ pc' = "idle" /\ pc = "starting" /\ UNCHANGED <<bash, past>>
        /\ answer' = answer \/ (answer.how = "none" /\ answer' = NotAvailable)
    BY <1>4 DEF StartFails, Returns
  <2>2. Planned'
    BY <1>1, <2>1, EmptyOf DEF Planned, NotAvailable
  <2>3. Untouched'
    BY <1>1, <2>1 DEF Untouched, NotAvailable, bash, past
  <2>4. Calm' /\ Paired' /\ Piped'
    BY <1>1, <2>1 DEF Calm, Paired, Piped, bash, past
  <2>5. Behind'
    <3>1. answer' = answer \/ answer'.how = "not available"
      BY <2>1, Unavailable
    <3>2. QED
      BY <1>1, <2>1, <3>1 DEF Behind, bash, past
  <2>6. QED
    BY <1>2, <2>2, <2>3, <2>4, <2>5 DEF IInv
<1>5. CASE Store
  <2>1. UNCHANGED <<run, bash, past>> /\ pc = "started" /\ pc' = "sending"
    BY <1>5 DEF Store
  <2>2. Planned' /\ Untouched' /\ Behind'
    BY <1>1, <2>1 DEF Planned, Untouched, Behind, run, bash, past
  <2>3. Calm' /\ Paired' /\ Piped'
    BY <1>1, <2>1 DEF Calm, Paired, Piped, run, bash, past
  <2>4. QED
    BY <1>2, <2>2, <2>3 DEF IInv
<1>6. QED
  BY <1>3, <1>4, <1>5

(* What is left of a plan whose command comes last. *)
LEMMA PlanTail ==
  ASSUME NEW s \in Seq(Items), s # <<>>, NEW m,
         \A i \in DOMAIN s : IsCommand(s[i]) => i = Len(s) /\ s[i] = m
  PROVE  /\ IsCommand(s[1]) => (\A i \in DOMAIN s : i = 1) /\ s[1] = m /\ Len(s) = 1
         /\ Tail(s) = <<>> => Len(s) = 1
         /\ Tail(s) # <<>> => Tail(s)[Len(Tail(s))] = s[Len(s)]
         /\ \A i \in DOMAIN Tail(s) :
              /\ IsCommand(Tail(s)[i]) => i = Len(Tail(s)) /\ Tail(s)[i] = m
              /\ \E j \in DOMAIN s : Tail(s)[i] = s[j]
<1>1. PICK n \in Nat, t \in Seq(Items) :
        /\ n = Len(s) /\ t = Tail(s) /\ n # 0 /\ DOMAIN s = 1..n
        /\ Len(t) = n - 1 /\ DOMAIN t = 1..(n - 1)
        /\ \A i \in 1..(n - 1) : t[i] = s[i + 1]
  <2>1. /\ Tail(s) \in Seq(Items) /\ Len(Tail(s)) = Len(s) - 1 /\ Len(s) \in Nat \ {0}
        /\ DOMAIN s = 1..Len(s) /\ DOMAIN Tail(s) = 1..(Len(s) - 1)
        /\ \A i \in 1..(Len(s) - 1) : Tail(s)[i] = s[i + 1]
    BY TailOf
  <2>2. Len(s) \in Nat /\ Len(s) # 0
    BY <2>1
  <2>3. QED
    BY <2>1, <2>2, Zenon
<1>2. t = <<>> <=> n = 1
  <2>1. t = <<>> <=> Len(t) = 0
    BY EmptySeq
  <2>2. QED
    BY <1>1, <2>1
<1>3. IsCommand(s[1]) => (\A i \in DOMAIN s : i = 1) /\ s[1] = m /\ n = 1
  <2>1. 1 \in 1..n
    BY <1>1
  <2>2. QED
    BY <1>1, <2>1
<1>4. t # <<>> => t[n - 1] = s[n]
  <2>1. SUFFICES ASSUME n # 1 PROVE t[n - 1] = s[n]
    BY <1>2
  <2>2. n - 1 \in 1..(n - 1) /\ (n - 1) + 1 = n
    BY <1>1, <2>1
  <2>3. QED
    BY <1>1, <2>2
<1>5. \A i \in 1..(n - 1) : /\ IsCommand(t[i]) => i = n - 1 /\ t[i] = m
                           /\ \E j \in 1..n : t[i] = s[j]
  <2>1. TAKE i \in 1..(n - 1)
  <2>2. i + 1 \in 1..n /\ (i + 1 = n => i = n - 1)
    BY <1>1
  <2>3. t[i] = s[i + 1]
    BY <1>1
  <2>4. IsCommand(s[i + 1]) => i + 1 = n /\ s[i + 1] = m
    BY <1>1, <2>2
  <2>5. QED
    BY <2>2, <2>3, <2>4
<1>6. QED
  BY <1>1, <1>2, <1>3, <1>4, <1>5

(* An item is done with: its last step leaves Run idle, or with the next item,
   or about to stop the shell.                                              *)
LEMMA DoneInv ==
  ASSUME TypeOK, Planned, pc \in {"sending", "reading"}, runs' = runs,
         NEW result \in Answers, result.how # "none", Done(result)
  PROVE  /\ Planned' /\ pc' \in {"idle", "sending", "stopping"} /\ todo # <<>>
         /\ IsCommand(Item) => /\ answer.how = "none" /\ answer' = result /\ Item = Mine
                              /\ (result.how = "ok" => pc' = "idle")
                              /\ (result.how # "ok" => pc' = "stopping")
         /\ ~IsCommand(Item) => pc' # "stopping" /\ answer' = answer
<1>1. todo # <<>> /\ todo \in Seq(Items) /\ Item = todo[1] /\ 1 \in DOMAIN todo
  BY HeadOfTodo
<1>2. /\ IsCommand(todo[1]) => (\A i \in DOMAIN todo : i = 1) /\ todo[1] = Mine /\ Len(todo) = 1
      /\ Tail(todo) = <<>> => Len(todo) = 1
      /\ Tail(todo) # <<>> => Tail(todo)[Len(Tail(todo))] = todo[Len(todo)]
      /\ \A i \in DOMAIN Tail(todo) :
           /\ IsCommand(Tail(todo)[i]) => i = Len(Tail(todo)) /\ Tail(todo)[i] = Mine
           /\ \E j \in DOMAIN todo : Tail(todo)[i] = todo[j]
  <2>1. \A i \in DOMAIN todo : IsCommand(todo[i]) => i = Len(todo) /\ todo[i] = Mine
    BY DEF Planned
  <2>2. QED
    BY <1>1, <2>1, PlanTail
<1>3. /\ answer.how = "none" => IsCommand(todo[Len(todo)])
      /\ answer.how # "none" => \A i \in DOMAIN todo : ~IsCommand(todo[i])
  BY DEF Planned
<1>4. CASE IsCommand(Item)
  <2>1. answer.how = "none" /\ Item = Mine
    BY <1>1, <1>2, <1>3, <1>4
  <2>2. CASE result.how = "ok"
    <3>1. answer' = result /\ pc' = "idle" /\ todo' = <<>>
      BY <1>4, <2>2 DEF Done, GivesUp, Returns
    <3>2. Planned'
      BY <2>2, <3>1, EmptyOf DEF Planned
    <3>3. QED
      BY <1>1, <1>4, <2>1, <2>2, <3>1, <3>2
  <2>3. CASE result.how # "ok"
    <3>1. answer' = result /\ pc' = "stopping" /\ todo' = todo
      BY <1>4, <2>3 DEF Done, GivesUp, Returns
    <3>2. Item' = Item
      BY <3>1 DEF Item
    <3>3. answer'.how \in {"not available", "reset"}
      BY <2>3, <3>1 DEF Answers
    <3>4. Planned'
      BY <1>1, <1>4, <3>1, <3>2, <3>3 DEF Planned
    <3>5. QED
      BY <1>1, <1>4, <2>1, <2>3, <3>1, <3>4
  <2>4. QED
    BY <2>2, <2>3
<1>5. CASE ~IsCommand(Item)
  <2>1. CASE Tail(todo) = <<>>
    <3>1. pc' = "idle" /\ todo' = <<>> /\ answer' = answer
      BY <1>5, <2>1 DEF Done, Returns
    <3>2. answer.how # "none"
      BY <1>1, <1>2, <1>3, <1>5, <2>1
    <3>3. Planned'
      BY <3>1, <3>2, EmptyOf DEF Planned
    <3>4. QED
      BY <1>1, <1>5, <3>1, <3>3
  <2>2. CASE Tail(todo) # <<>>
    <3>1. pc' = "sending" /\ todo' = Tail(todo) /\ answer' = answer
      BY <1>5, <2>2 DEF Done
    <3>2. todo' # <<>> /\ todo'[Len(todo')] = todo[Len(todo)]
      BY <1>2, <2>2, <3>1
    <3>3. \A i \in DOMAIN todo' : /\ IsCommand(todo'[i]) => i = Len(todo') /\ todo'[i] = Mine
                                 /\ \E j \in DOMAIN todo : todo'[i] = todo[j]
      BY <1>2, <3>1
    <3>4. Mine' = Mine
      OBVIOUS
    <3>5. Planned'
      BY <1>3, <3>1, <3>2, <3>3, <3>4 DEF Planned
    <3>6. QED
      BY <1>1, <1>5, <3>1, <3>5
  <2>3. QED
    BY <2>1, <2>2
<1>6. QED
  BY <1>4, <1>5

LEMMA CommandIs == \A n : IsCommand(Command(n)) /\ Command(n).n = n
BY DEF Command

(* While bash has no command, what comes out of commands is strays'. *)
LEMMA OnlyStrays ==
  ASSUME Piped, ~Waiting, pc # "stopping"
  PROVE  \A i \in DOMAIN pipe : IsCommand(pipe[i].of) => ~pipe[i].mark /\ pipe[i].of \in strays
BY DEF Piped

LEMMA SendInv ==
  ASSUME TypeOK, IInv, Send
  PROVE  IInv'
<1>1. /\ Planned /\ Untouched /\ Calm /\ Paired /\ Piped /\ Behind /\ AnswerIsItsOwn
      /\ UNCHANGED <<runs, at, status, pipe, behind, past>> /\ pc = "sending" /\ got' = <<>>
  BY DEF IInv, Send
<1>2. /\ todo # <<>> /\ Item \in Items /\ Item = todo[1] /\ 1 \in DOMAIN todo
  BY <1>1, HeadOfTodo
<1>3. /\ ~IsCommand(at) /\ \A i \in DOMAIN input : ~IsCommand(input[i].of)
      /\ \A i \in DOMAIN pipe : IsCommand(pipe[i].of) => ~pipe[i].mark /\ pipe[i].of \in strays
      /\ \A i \in DOMAIN pipe : pipe[i].mark => pipe[i] \in ended
  BY <1>1, OnlyStrays DEF Calm, Piped
<1>4. Piped'
  BY <1>1, <1>3 DEF Piped, past
<1>5. OutputIsOwn'
  BY <1>1, EmptyOf DEF OutputIsOwn
<1>6. CASE alive
  <2>1. /\ pc' = "reading" /\ todo' = todo /\ answer' = answer /\ Item' = Item
        /\ input' = input \o <<Line(Item), Mark(Item, 0)>>
    BY <1>6 DEF Send, Item
  <2>2. Line(Item) \in Lines /\ Mark(Item, 0) \in Lines
    BY <1>2, Kinds
  <2>3. /\ DOMAIN input = 1..Len(input) /\ Len(input) \in Nat
        /\ DOMAIN input' = 1..(Len(input) + 2) /\ Len(input') = Len(input) + 2
        /\ \A i \in 1..Len(input) : input'[i] = input[i]
        /\ input'[Len(input) + 1] = Line(Item) /\ input'[Len(input) + 2] = Mark(Item, 0)
    BY <2>1, <2>2, PairOf, Sized
  <2>4. /\ ~input'[Len(input) + 1].mark /\ input'[Len(input) + 1].of = Item
        /\ input'[Len(input) + 2].mark /\ input'[Len(input) + 2].of = Item
    BY <2>3 DEF Line, Mark
  <2>5. IsCommand(Item) => Item = Mine
    BY <1>1, <1>2 DEF Planned
  <2>6. Planned'
    BY <1>1, <2>1 DEF Planned
  <2>7. Untouched'
    <3>1. CASE answer.how \in {"none", "not available"} /\ ~IsCommand(Item)
      <4>1. Item # Mine
        BY <3>1, CommandIs
      <4>2. ~Waiting
        BY <1>1
      <4>3. /\ Mine \notin began /\ Mine # at /\ Mine \notin behind
            /\ \A i \in DOMAIN input : input[i].of # Mine
            /\ \A i \in DOMAIN pipe : pipe[i].of # Mine
        BY <1>1, <3>1, <4>2 DEF Untouched
      <4>4. \A i \in DOMAIN input' : input'[i].of # Mine
        BY <2>3, <2>4, <4>1, <4>3
      <4>5. QED
        BY <1>1, <4>3, <4>4 DEF Untouched, past
    <3>2. CASE answer.how \notin {"none", "not available"}
      BY <2>1, <3>2 DEF Untouched
    <3>3. CASE IsCommand(Item)
      BY <2>1, <3>3 DEF Untouched
    <3>4. QED
      BY <3>1, <3>2, <3>3
  <2>8. Calm'
    <3>1. CASE IsCommand(Item)
      BY <2>1, <3>1 DEF Calm
    <3>2. CASE ~IsCommand(Item)
      <4>1. \A i \in DOMAIN input' : ~IsCommand(input'[i].of)
        BY <1>3, <2>3, <2>4, <3>2
      <4>2. QED
        BY <1>1, <1>3, <4>1 DEF Calm
    <3>3. QED
      BY <3>1, <3>2
  <2>9. Paired'
    <3>1. \A i \in 1..(Len(input) + 2) :
            /\ (input'[i].mark /\ i > 1) => (~input'[i - 1].mark /\ input'[i - 1].of = input'[i].of)
            /\ ~input'[i].mark => (i < Len(input) + 2 /\ input'[i + 1].mark /\ input'[i + 1].of = input'[i].of)
      <4>1. TAKE i \in 1..(Len(input) + 2)
      <4>2. CASE i \in 1..Len(input)
        <5>1. input'[i] = input[i] /\ (i > 1 => input'[i - 1] = input[i - 1])
              /\ (i < Len(input) => input'[i + 1] = input[i + 1])
          BY <2>3, <4>2
        <5>2. /\ (input[i].mark /\ i > 1) => (~input[i - 1].mark /\ input[i - 1].of = input[i].of)
              /\ ~input[i].mark => (i < Len(input) /\ input[i + 1].mark /\ input[i + 1].of = input[i].of)
          BY <1>1, <2>3, <4>2 DEF Paired
        <5>3. i < Len(input) => i < Len(input) + 2
          BY <2>3, <4>2
        <5>4. QED
          BY <5>1, <5>2, <5>3
      <4>3. CASE i = Len(input) + 1
        BY <2>3, <2>4, <4>3
      <4>4. CASE i = Len(input) + 2
        BY <2>3, <2>4, <4>4
      <4>5. QED
        BY <2>3, <4>2, <4>3, <4>4
    <3>2. \A i \in 1..(Len(input) + 2) :
            IsCommand(input'[i].of) => (input'[i].of = Mine /\ (input'[i].mark => i = Len(input) + 2))
      BY <1>3, <2>3, <2>4, <2>5
    <3>3. input'[1].mark => input # <<>> /\ input[1].mark /\ input'[1] = input[1]
      <4>1. CASE Len(input) = 0
        BY <2>3, <2>4, <4>1
      <4>2. CASE Len(input) > 0
        BY <2>3, <4>2, EmptyOf
      <4>3. QED
        BY <2>3, <4>1, <4>2
    <3>4. QED
      BY <1>1, <1>3, <2>3, <3>1, <3>2, <3>3 DEF Paired, past
  <2>10. Behind' /\ AnswerIsItsOwn'
    BY <1>1, <2>1 DEF Behind, AnswerIsItsOwn, past
  <2>11. QED
    BY <1>4, <1>5, <2>6, <2>7, <2>8, <2>9, <2>10 DEF IInv
<1>7. CASE ~alive
  <2>1. Done(NotAvailable) /\ UNCHANGED input
    BY <1>7 DEF Send
  <2>2. /\ Planned' /\ pc' \in {"idle", "sending", "stopping"}
        /\ IsCommand(Item) => answer.how = "none" /\ answer' = NotAvailable /\ pc' = "stopping"
        /\ ~IsCommand(Item) => pc' # "stopping" /\ answer' = answer
    <3>1. NotAvailable \in Answers /\ NotAvailable.how \notin {"none", "ok"}
      BY DEF NotAvailable, Answers
    <3>2. runs' = runs /\ pc \in {"sending", "reading"}
      BY <1>1
    <3>3. QED
      <4>1. /\ Planned' /\ pc' \in {"idle", "sending", "stopping"} /\ todo # <<>>
            /\ IsCommand(Item) => /\ answer.how = "none" /\ answer' = NotAvailable /\ Item = Mine
                                 /\ (NotAvailable.how = "ok" => pc' = "idle")
                                 /\ (NotAvailable.how # "ok" => pc' = "stopping")
            /\ ~IsCommand(Item) => pc' # "stopping" /\ answer' = answer
        <5>1. TypeOK /\ Planned /\ Done(NotAvailable)
          BY <1>1, <2>1
        <5>2. QED
          BY <3>1, <3>2, <5>1, DoneInv
      <4>2. QED
        BY <3>1, <4>1
  <2>3. answer.how = "none" => Mine \notin began
    BY <1>1 DEF Untouched
  <2>4. Untouched'
    BY <1>1, <2>1, <2>2, Unavailable DEF Untouched, past
  <2>5. Calm' /\ Paired'
    BY <1>1, <1>3, <2>1, <2>2 DEF Calm, Paired, past
  <2>6. Behind'
    BY <1>1, <2>2, Unavailable DEF Behind, past
  <2>7. AnswerIsItsOwn'
    BY <1>1, <2>2, <2>3, Unavailable DEF AnswerIsItsOwn, past
  <2>8. QED
    BY <1>4, <1>5, <2>2, <2>4, <2>5, <2>6, <2>7 DEF IInv
<1>8. QED
  BY <1>6, <1>7

(* A Run that has its answer waits for no command any more. *)
LEMMA Answered ==
  ASSUME TypeOK, Planned, answer.how # "none"
  PROVE  ~Waiting
<1>1. SUFFICES ASSUME pc = "reading", IsCommand(Item) PROVE FALSE
  OBVIOUS
<1>2. Item = todo[1] /\ 1 \in DOMAIN todo
  BY <1>1, HeadOfTodo
<1>3. QED
  BY <1>1, <1>2 DEF Planned

(* What follows the first line of the pipe, and of the input. *)
LEMMA PipeTail ==
  ASSUME TypeOK, pipe # <<>>, pipe' = Tail(pipe)
  PROVE  /\ Head(pipe) = pipe[1] /\ 1 \in DOMAIN pipe /\ pipe[1] \in Lines
         /\ DOMAIN pipe \subseteq Nat /\ DOMAIN pipe' \subseteq Nat
         /\ \A i \in DOMAIN pipe' : i + 1 \in DOMAIN pipe /\ pipe'[i] = pipe[i + 1]
<1>1. pipe \in Seq(Lines)
  BY Sized
<1>2. PICK n \in Nat : /\ n # 0 /\ DOMAIN pipe = 1..n /\ DOMAIN pipe' = 1..(n - 1)
                       /\ \A i \in 1..(n - 1) : pipe'[i] = pipe[i + 1]
                       /\ Head(pipe) = pipe[1] /\ pipe[1] \in Lines
  BY <1>1, TailOf, Zenon
<1>3. QED
  BY <1>2

LEMMA InputTail ==
  ASSUME TypeOK, input # <<>>, input' = Tail(input)
  PROVE  /\ Head(input) = input[1] /\ 1 \in DOMAIN input /\ input[1] \in Lines
         /\ Len(input) \in Nat \ {0} /\ Len(input') = Len(input) - 1
         /\ DOMAIN input = 1..Len(input) /\ DOMAIN input' = 1..(Len(input) - 1)
         /\ \A i \in DOMAIN input' : i + 1 \in DOMAIN input /\ input'[i] = input[i + 1]
<1>1. input \in Seq(Lines)
  BY Sized
<1>2. PICK n \in Nat : /\ n # 0 /\ n = Len(input) /\ Len(input') = n - 1
                       /\ DOMAIN input = 1..n /\ DOMAIN input' = 1..(n - 1)
                       /\ \A i \in 1..(n - 1) : input'[i] = input[i + 1]
                       /\ Head(input) = input[1] /\ input[1] \in Lines
  BY <1>1, TailOf, Zenon
<1>3. QED
  BY <1>2

LEMMA TailPaired ==
  ASSUME TypeOK, Paired, input # <<>>, input' = Tail(input)
  PROVE  \A i \in DOMAIN input' :
          /\ (input'[i].mark /\ i > 1) => (~input'[i - 1].mark /\ input'[i - 1].of = input'[i].of)
          /\ ~input'[i].mark => (i < Len(input') /\ input'[i + 1].mark /\ input'[i + 1].of = input'[i].of)
          /\ IsCommand(input'[i].of) => (input'[i].of = Mine /\ (input'[i].mark => i = Len(input')))
<1>1. TAKE i \in DOMAIN input'
<1>9. /\ Len(input) \in Nat \ {0} /\ Len(input') = Len(input) - 1
      /\ DOMAIN input = 1..Len(input) /\ DOMAIN input' = 1..(Len(input) - 1)
      /\ \A j \in DOMAIN input' : j + 1 \in DOMAIN input /\ input'[j] = input[j + 1]
  BY InputTail
<1>2. i \in Nat /\ i + 1 \in DOMAIN input /\ input'[i] = input[i + 1] /\ i >= 1
  BY <1>9
<1>3. i > 1 => input'[i - 1] = input[i]
  BY <1>9, <1>2
<1>4. i + 1 < Len(input) => i < Len(input') /\ input'[i + 1] = input[(i + 1) + 1]
  BY <1>9, <1>2
<1>5. i + 1 = Len(input) => i = Len(input')
  BY <1>9, <1>2
<1>6. /\ input[i + 1].mark => (~input[(i + 1) - 1].mark /\ input[(i + 1) - 1].of = input[i + 1].of)
      /\ ~input[i + 1].mark => (i + 1 < Len(input) /\ input[(i + 1) + 1].mark
                                /\ input[(i + 1) + 1].of = input[i + 1].of)
      /\ IsCommand(input[i + 1].of) => (input[i + 1].of = Mine /\ (input[i + 1].mark => i + 1 = Len(input)))
  BY <1>2 DEF Paired
<1>7. (i + 1) - 1 = i
  BY <1>2
<1>8. QED
  BY <1>2, <1>3, <1>4, <1>5, <1>6, <1>7

LEMMA ReadLineInv ==
  ASSUME TypeOK, IInv, ReadLine
  PROVE  IInv'
<1>1. /\ Planned /\ Untouched /\ Calm /\ Paired /\ Piped /\ Behind /\ AnswerIsItsOwn /\ OutputIsOwn
      /\ runs' = runs /\ UNCHANGED <<input, at, status, behind, past>>
      /\ pc = "reading" /\ pipe # <<>> /\ pipe' = Tail(pipe)
  BY DEF IInv, ReadLine
<1>2. /\ Head(pipe) = pipe[1] /\ 1 \in DOMAIN pipe /\ pipe[1] \in Lines
      /\ DOMAIN pipe \subseteq Nat /\ DOMAIN pipe' \subseteq Nat
      /\ \A i \in DOMAIN pipe' : i + 1 \in DOMAIN pipe /\ pipe'[i] = pipe[i + 1]
  BY <1>1, PipeTail
<1>3. Paired'
  BY <1>1 DEF Paired, past
<1>4. CASE ~Marks(Head(pipe), Item)
  <2>1. /\ UNCHANGED <<pc, todo, answer>> /\ Item' = Item
        /\ got' = IF Len(got) < MaxOut THEN Append(got, pipe[1].of) ELSE got
    BY <1>2, <1>4 DEF ReadLine, Item
  <2>2. Planned' /\ Behind' /\ AnswerIsItsOwn'
    BY <1>1, <2>1 DEF Planned, Behind, AnswerIsItsOwn, past
  <2>3. Untouched'
    BY <1>1, <1>2, <2>1 DEF Untouched, past
  <2>4. Calm'
    BY <1>1, <2>1 DEF Calm
  <2>5. Piped'
    <3>1. SUFFICES ASSUME NEW i \in DOMAIN pipe'
                   PROVE  /\ pipe'[i].mark => pipe'[i] \in ended
                          /\ IsCommand(pipe'[i].of) =>
                              \/ ~pipe'[i].mark /\ pipe'[i].of \in strays
                              \/ /\ pipe'[i].of = Mine /\ (Waiting \/ pc = "stopping")
                                 /\ \A j \in DOMAIN pipe' : (pipe'[j].mark /\ pipe'[j].of = Mine) => i <= j
                                 /\ pipe'[i].mark => (at # Mine /\ \A j \in DOMAIN input : input[j].of # Mine)
      BY <1>1, <2>1 DEF Piped, past
    <3>2. i + 1 \in DOMAIN pipe /\ pipe'[i] = pipe[i + 1] /\ i \in Nat
      BY <1>2
    <3>3. (\A j \in DOMAIN pipe : (pipe[j].mark /\ pipe[j].of = Mine) => i + 1 <= j)
           => \A j \in DOMAIN pipe' : (pipe'[j].mark /\ pipe'[j].of = Mine) => i <= j
      BY <1>2, <3>2
    <3>4. QED
      BY <1>1, <3>2, <3>3 DEF Piped
  <2>6. OutputIsOwn'
    <3>1. IsCommand(pipe[1].of) => pipe[1].of \in {Mine} \cup strays
      BY <1>1, <1>2 DEF Piped
    <3>2. got \in Seq(Items) /\ pipe[1].of \in Items
      BY <1>2 DEF TypeOK, RunOK, Lines
    <3>3. \A i \in DOMAIN got : IsCommand(got[i]) => got[i] \in {Mine} \cup strays
      BY <1>1 DEF OutputIsOwn
    <3>4. PICK n \in Nat : /\ DOMAIN got = 1..n /\ DOMAIN Append(got, pipe[1].of) = 1..(n + 1)
                           /\ \A i \in 1..n : Append(got, pipe[1].of)[i] = got[i]
                           /\ Append(got, pipe[1].of)[n + 1] = pipe[1].of
      <4>1. /\ Len(got) \in Nat /\ DOMAIN got = 1..Len(got)
            /\ DOMAIN Append(got, pipe[1].of) = 1..(Len(got) + 1)
            /\ \A i \in 1..Len(got) : Append(got, pipe[1].of)[i] = got[i]
            /\ Append(got, pipe[1].of)[Len(got) + 1] = pipe[1].of
        BY <3>2, AppendOf
      <4>2. QED
        BY <4>1, Zenon
    <3>5. \A i \in DOMAIN got' : IsCommand(got'[i]) => got'[i] \in {Mine} \cup strays
      <4>1. CASE got' = got
        BY <3>3, <4>1
      <4>2. CASE got' = Append(got, pipe[1].of)
        <5>1. \A i \in 1..(n + 1) : i \in 1..n \/ i = n + 1
          OBVIOUS
        <5>2. QED
          BY <3>1, <3>3, <3>4, <4>2, <5>1
      <4>3. QED
        BY <2>1, <4>1, <4>2
    <3>6. QED
      BY <1>1, <3>5 DEF OutputIsOwn, past
  <2>7. QED
    BY <1>3, <2>2, <2>3, <2>4, <2>5, <2>6 DEF IInv
<1>5. CASE Marks(Head(pipe), Item)
  <2> DEFINE result == [how |-> "ok", exit |-> pipe[1].exit]
  <2>1. pipe[1].mark /\ pipe[1].of = Item /\ Done(result)
    BY <1>2, <1>5 DEF Marks, ReadLine
  <2>2. result \in Answers /\ result.how = "ok" /\ result.exit = pipe[1].exit
    BY <1>2 DEF Answers, Lines
  <2> HIDE DEF result
  <2>3. /\ Planned' /\ pc' \in {"idle", "sending", "stopping"}
        /\ IsCommand(Item) => /\ answer.how = "none" /\ answer' = result /\ Item = Mine
                             /\ (result.how = "ok" => pc' = "idle")
                             /\ (result.how # "ok" => pc' = "stopping")
        /\ ~IsCommand(Item) => pc' # "stopping" /\ answer' = answer
    <3>1. pc \in {"sending", "reading"} /\ runs' = runs /\ result.how # "none"
      BY <1>1, <2>2
    <3>2. TypeOK /\ Planned
      BY <1>1
    <3>3. QED
      BY <2>1, <2>2, <3>1, <3>2, DoneInv
  <2>4. OutputIsOwn'
    BY <2>3 DEF OutputIsOwn
  <2>5. CASE IsCommand(Item)
    <3>1. pc' = "idle" /\ answer' = result /\ Item = Mine /\ Mine' = Mine
      BY <1>1, <2>2, <2>3, <2>5
    <3>2. at # Mine /\ (\A j \in DOMAIN input : input[j].of # Mine) /\ pipe[1] \in ended
          /\ (\A j \in DOMAIN pipe : (pipe[j].mark /\ pipe[j].of = Mine) => 1 <= j)
      BY <1>1, <1>2, <2>1, <2>5, <3>1 DEF Piped
    <3>3. Calm'
      BY <1>1, <3>1, <3>2 DEF Calm, Paired
    <3>4. Untouched' /\ Behind'
      BY <1>1, <2>2, <3>1 DEF Untouched, Behind, past
    <3>5. AnswerIsItsOwn'
      <4>1. pipe[1] = [mark |-> TRUE, of |-> Mine, exit |-> pipe[1].exit]
        BY <1>2, <2>1, <3>1 DEF Lines
      <4>2. Mark(Mine, answer'.exit) = pipe[1]
        BY <2>2, <3>1, <4>1 DEF Mark
      <4>3. QED
        BY <1>1, <2>2, <3>1, <3>2, <4>2 DEF AnswerIsItsOwn, past
    <3>6. Piped'
      <4>1. SUFFICES ASSUME NEW i \in DOMAIN pipe'
                     PROVE  /\ pipe'[i].mark => pipe'[i] \in ended
                            /\ IsCommand(pipe'[i].of) => ~pipe'[i].mark /\ pipe'[i].of \in strays
        BY <1>1 DEF Piped, past
      <4>2. i + 1 \in DOMAIN pipe /\ pipe'[i] = pipe[i + 1] /\ i \in Nat /\ i # 0
        <5>1. pipe' \in Seq(Lines)
          BY <1>1, Sized, TailOf
        <5>2. DOMAIN pipe' = 1..Len(pipe') /\ Len(pipe') \in Nat
          BY <5>1, Indexed
        <5>3. QED
          BY <1>2, <5>2
      <4>3. ~(i + 1 <= 1)
        BY <4>2
      <4>4. QED
        BY <1>1, <1>2, <2>1, <3>1, <4>2, <4>3 DEF Piped
    <3>7. QED
      BY <1>3, <2>3, <2>4, <3>3, <3>4, <3>5, <3>6 DEF IInv
  <2>6. CASE ~IsCommand(Item)
    <3>1. answer' = answer /\ pc' \in {"idle", "sending"} /\ ~Waiting /\ Mine' = Mine
      BY <1>1, <2>3, <2>6
    <3>2. Untouched'
      BY <1>1, <1>2, <3>1 DEF Untouched, past
    <3>3. Calm'
      BY <1>1, <3>1 DEF Calm
    <3>4. Piped'
      <4>1. \A i \in DOMAIN pipe : /\ pipe[i].mark => pipe[i] \in ended
                                   /\ IsCommand(pipe[i].of) => ~pipe[i].mark /\ pipe[i].of \in strays
        BY <1>1, <3>1 DEF Piped
      <4>2. QED
        BY <1>1, <1>2, <4>1 DEF Piped, past
    <3>5. Behind' /\ AnswerIsItsOwn'
      BY <1>1, <3>1 DEF Behind, AnswerIsItsOwn, past
    <3>6. QED
      BY <1>3, <2>3, <2>4, <3>2, <3>3, <3>4, <3>5 DEF IInv
  <2>7. QED
    BY <2>5, <2>6
<1>6. QED
  BY <1>4, <1>5

LEMMA ReadFailsInv ==
  ASSUME TypeOK, IInv, ReadFails
  PROVE  IInv'
<1> DEFINE result == [how |-> "reset", exit |-> 124]
<1>1. /\ Planned /\ Untouched /\ Calm /\ Paired /\ Piped /\ Behind /\ AnswerIsItsOwn
      /\ runs' = runs /\ UNCHANGED <<bash, past>>
      /\ pc = "reading" /\ pipe = <<>> /\ Done(result)
  BY DEF IInv, ReadFails
<1>2. result \in Answers /\ result.how = "reset"
  BY DEF Answers
<1> HIDE DEF result
<1>3. /\ Planned' /\ pc' \in {"idle", "sending", "stopping"}
      /\ IsCommand(Item) => /\ answer.how = "none" /\ answer' = result /\ Item = Mine
                           /\ (result.how = "ok" => pc' = "idle")
                           /\ (result.how # "ok" => pc' = "stopping")
      /\ ~IsCommand(Item) => pc' # "stopping" /\ answer' = answer
  <2>1. pc \in {"sending", "reading"} /\ runs' = runs /\ result.how # "none"
    BY <1>1, <1>2
  <2>2. TypeOK /\ Planned
    BY <1>1
  <2>3. QED
    BY <1>1, <1>2, <2>1, <2>2, DoneInv
<1>4. Paired' /\ Piped' /\ OutputIsOwn'
  BY <1>1, <1>3, EmptyOf DEF Paired, Piped, OutputIsOwn, bash, past
<1>5. CASE IsCommand(Item)
  <2>1. pc' = "stopping" /\ answer' = result
    BY <1>2, <1>3, <1>5
  <2>2. Untouched' /\ Calm' /\ Behind' /\ AnswerIsItsOwn'
    BY <1>1, <1>2, <2>1 DEF Untouched, Calm, Behind, AnswerIsItsOwn, bash, past
  <2>3. QED
    BY <1>3, <1>4, <2>2 DEF IInv
<1>6. CASE ~IsCommand(Item)
  <2>1. answer' = answer /\ pc' \in {"idle", "sending"} /\ ~Waiting
    BY <1>1, <1>3, <1>6
  <2>2. Untouched' /\ Calm' /\ Behind' /\ AnswerIsItsOwn'
    BY <1>1, <2>1 DEF Untouched, Calm, Behind, AnswerIsItsOwn, bash, past
  <2>3. QED
    BY <1>3, <1>4, <2>2 DEF IInv
<1>7. QED
  BY <1>5, <1>6

LEMMA StopInv ==
  ASSUME TypeOK, IInv, Reset \/ Stop
  PROVE  IInv'
<1>1. /\ Planned /\ Untouched /\ Behind /\ AnswerIsItsOwn
      /\ UNCHANGED <<runs, answer, began, ended, strays>> /\ pc \in {"stopping", "idle"}
      /\ left' = left \cup (behind \ Killed) /\ input' = <<>> /\ at' = Nothing /\ pipe' = <<>>
      /\ behind' = {} /\ pc' \in {"starting", "idle"}
  BY DEF IInv, Reset, Stop, Stopped, run
<1>2. left' = {}
  BY <1>1 DEF Behind, Killed
<1>3. Planned'
  <2>1. CASE Reset
    <3>1. /\ todo' = Priming(gen + 1) /\ pc' = "starting"
          /\ answer.how \in {"not available", "reset"}
      BY <1>1, <2>1 DEF Reset, Planned
    <3>2. QED
      BY <1>1, <3>1, PrimingIs DEF Planned
  <2>2. CASE Stop
    <3>1. UNCHANGED <<pc, todo>> /\ Item' = Item
      BY <2>2 DEF Stop, run, Item
    <3>2. QED
      BY <1>1, <3>1 DEF Planned
  <2>3. QED
    BY <2>1, <2>2
<1>4. Mine # Nothing
  BY DEF Command, Nothing
<1>5. Untouched'
  BY <1>1, <1>4, EmptyOf DEF Untouched
<1>6. Calm' /\ Paired' /\ Piped'
  BY <1>1, EmptyOf DEF Calm, Paired, Piped, Nothing
<1>7. Behind' /\ AnswerIsItsOwn' /\ OutputIsOwn'
  BY <1>1, <1>2 DEF Behind, AnswerIsItsOwn, OutputIsOwn
<1>8. QED
  BY <1>3, <1>5, <1>6, <1>7 DEF IInv

(* bash and what it runs: Run stays where it is. *)
LEMMA BashStill ==
  ASSUME IInv, Bash
  PROVE  /\ UNCHANGED <<pc, todo, got, answer, runs>> /\ Item' = Item
         /\ Planned' /\ (strays \subseteq strays' => OutputIsOwn')
<1>1. UNCHANGED <<pc, todo, got, answer, runs>> /\ Item' = Item /\ Planned /\ OutputIsOwn
  BY DEF Bash, run, Item, IInv
<1>2. Planned'
  BY <1>1 DEF Planned
<1>3. strays \subseteq strays' => OutputIsOwn'
  BY <1>1 DEF OutputIsOwn
<1>4. QED
  BY <1>1, <1>2, <1>3

(* What bash executes of commands is Run's, which waits for it or stops it. *)
LEMMA WhatRuns ==
  ASSUME TypeOK, IInv
  PROVE  /\ \A i \in DOMAIN input : IsCommand(input[i].of) => input[i].of = Mine /\ (Waiting \/ pc = "stopping")
         /\ IsCommand(at) => at = Mine /\ (Waiting \/ pc = "stopping") /\ Len(input) <= 1
         /\ answer.how = "not available" => Mine \notin began /\ Mine # at /\ \A i \in DOMAIN input : input[i].of # Mine
<1>1. Planned /\ Untouched /\ Calm /\ Paired
  BY DEF IInv
<1>2. answer.how = "not available" => ~Waiting
  BY <1>1, Answered
<1>3. QED
  BY <1>1, <1>2 DEF Untouched, Calm, Paired

LEMMA BeginMark ==
  ASSUME TypeOK, IInv, Begin, Head(input).mark
  PROVE  IInv'
<1>1. /\ Untouched /\ Calm /\ Paired /\ Piped /\ Behind /\ AnswerIsItsOwn
      /\ UNCHANGED <<pc, todo, got, answer, runs>> /\ Item' = Item /\ Planned' /\ OutputIsOwn'
      /\ at = Nothing /\ at' = Nothing /\ UNCHANGED <<status, behind, past>>
      /\ input # <<>> /\ input' = Tail(input)
      /\ pipe' = Append(pipe, Mark(Head(input).of, status))
  BY BashStill DEF Begin, Bash, Writes, past, IInv
<1>2. /\ Head(input) = input[1] /\ 1 \in DOMAIN input /\ input[1] \in Lines
      /\ Len(input) \in Nat \ {0} /\ Len(input') = Len(input) - 1
      /\ DOMAIN input = 1..Len(input) /\ DOMAIN input' = 1..(Len(input) - 1)
      /\ \A i \in DOMAIN input' : i + 1 \in DOMAIN input /\ input'[i] = input[i + 1]
  BY <1>1, InputTail
<1> DEFINE out == Mark(input[1].of, status)
<1>3. out.mark /\ out.of = input[1].of
  BY DEF Mark
<1>4. out \in ended
  BY <1>1, <1>2 DEF Paired
<1>5. PICK n \in Nat : /\ DOMAIN pipe = 1..n /\ DOMAIN pipe' = 1..(n + 1)
                       /\ (\A i \in 1..n : pipe'[i] = pipe[i]) /\ pipe'[n + 1] = out
  <2>1. out \in Lines /\ pipe \in Seq(Lines)
    BY <1>2, Kinds, Sized DEF Lines, TypeOK, CountsOK
  <2>2. /\ Len(pipe) \in Nat /\ DOMAIN pipe = 1..Len(pipe)
        /\ DOMAIN Append(pipe, out) = 1..(Len(pipe) + 1)
        /\ \A i \in 1..Len(pipe) : Append(pipe, out)[i] = pipe[i]
        /\ Append(pipe, out)[Len(pipe) + 1] = out
    BY <2>1, AppendOf
  <2>3. pipe' = Append(pipe, out)
    BY <1>1, <1>2
  <2>4. QED
    BY <2>2, <2>3, Zenon
<1> HIDE DEF out
<1>6. IsCommand(input[1].of) => /\ input[1].of = Mine /\ (Waiting \/ pc = "stopping")
                                /\ DOMAIN input' = {}
  <2>1. IsCommand(input[1].of) => 1 = Len(input)
    BY <1>2 DEF Paired, IInv
  <2>2. IsCommand(input[1].of) => DOMAIN input' = {}
    <3>1. DOMAIN input' = 1..(Len(input) - 1)
      BY <1>2
    <3>2. 1..(1 - 1) = {}
      OBVIOUS
    <3>3. QED
      BY <2>1, <3>1, <3>2
  <2>3. IsCommand(input[1].of) => input[1].of = Mine /\ (Waiting \/ pc = "stopping")
    BY <1>2, WhatRuns
  <2>4. QED
    BY <2>2, <2>3
<1>7. Untouched'
  <2>1. SUFFICES ASSUME answer.how \in {"none", "not available"}, ~Waiting PROVE Untouched'
    BY <1>1 DEF Untouched
  <2>2. /\ Mine \notin began /\ Mine # at /\ Mine \notin behind
        /\ \A i \in DOMAIN input : input[i].of # Mine
        /\ \A i \in DOMAIN pipe : pipe[i].of # Mine
    BY <1>1, <2>1 DEF Untouched
  <2>3. \A i \in DOMAIN input' : input'[i].of # Mine
    BY <1>2, <2>2
  <2>4. \A i \in 1..(n + 1) : i \in 1..n \/ i = n + 1
    OBVIOUS
  <2>5. \A i \in DOMAIN pipe' : pipe'[i].of # Mine
    BY <1>2, <1>3, <1>5, <2>2, <2>4
  <2>6. QED
    BY <1>1, <2>2, <2>3, <2>5 DEF Untouched, past
<1>8. Calm'
  BY <1>1, <1>2 DEF Calm
<1>9. Paired'
  <2>1. \A i \in DOMAIN input' :
          /\ (input'[i].mark /\ i > 1) => (~input'[i - 1].mark /\ input'[i - 1].of = input'[i].of)
          /\ ~input'[i].mark => (i < Len(input') /\ input'[i + 1].mark /\ input'[i + 1].of = input'[i].of)
          /\ IsCommand(input'[i].of) => (input'[i].of = Mine /\ (input'[i].mark => i = Len(input')))
    BY <1>1, TailPaired
  <2>2. ~(input' # <<>> /\ input'[1].mark)
    <3>1. SUFFICES ASSUME input' # <<>>, input'[1].mark PROVE FALSE
      OBVIOUS
    <3>2. input' \in Seq(Lines)
      BY <1>1, Sized, TailOf
    <3>3. 1 \in DOMAIN input'
      BY <3>1, <3>2, TailOf
    <3>4. 2 \in DOMAIN input /\ input[2].mark
      BY <1>2, <3>1, <3>3
    <3>5. ~input[2 - 1].mark
      BY <1>1, <3>4 DEF Paired
    <3>6. QED
      BY <1>2, <3>5
  <2>3. ~IsCommand(at')
    BY <1>1 DEF Nothing
  <2>4. QED
    BY <1>1, <2>1, <2>2, <2>3 DEF Paired
<1>10. Piped'
  <2>1. SUFFICES ASSUME NEW i \in DOMAIN pipe'
                 PROVE  /\ pipe'[i].mark => pipe'[i] \in ended
                        /\ IsCommand(pipe'[i].of) =>
                            \/ ~pipe'[i].mark /\ pipe'[i].of \in strays
                            \/ /\ pipe'[i].of = Mine /\ (Waiting \/ pc = "stopping")
                               /\ \A j \in DOMAIN pipe' : (pipe'[j].mark /\ pipe'[j].of = Mine) => i <= j
                               /\ pipe'[i].mark => (at' # Mine /\ \A j \in DOMAIN input' : input'[j].of # Mine)
    BY <1>1 DEF Piped, past
  <2>2. \A j \in 1..(n + 1) : j \in 1..n \/ j = n + 1
    OBVIOUS
  <2>3. CASE i = n + 1
    <3>1. IsCommand(out.of) => \A j \in 1..n : ~(pipe[j].mark /\ pipe[j].of = Mine)
      BY <1>1, <1>2, <1>3, <1>5, <1>6 DEF Piped
    <3>2. IsCommand(out.of) => \A j \in DOMAIN pipe' : (pipe'[j].mark /\ pipe'[j].of = Mine) => i <= j
      BY <1>5, <2>2, <2>3, <3>1
    <3>3. at' # Mine
      BY <1>1, CommandIs DEF Nothing
    <3>4. QED
      BY <1>3, <1>4, <1>5, <1>6, <2>3, <3>2, <3>3
  <2>4. CASE i \in 1..n
    <3>1. /\ pipe[i].mark => pipe[i] \in ended
          /\ IsCommand(pipe[i].of) =>
              \/ ~pipe[i].mark /\ pipe[i].of \in strays
              \/ /\ pipe[i].of = Mine /\ (Waiting \/ pc = "stopping")
                 /\ \A j \in 1..n : (pipe[j].mark /\ pipe[j].of = Mine) => i <= j
                 /\ pipe[i].mark => (at # Mine /\ \A j \in DOMAIN input : input[j].of # Mine)
      BY <1>1, <1>5, <2>4 DEF Piped
    <3>2. (\A j \in 1..n : (pipe[j].mark /\ pipe[j].of = Mine) => i <= j)
            => \A j \in DOMAIN pipe' : (pipe'[j].mark /\ pipe'[j].of = Mine) => i <= j
      BY <1>5, <2>2, <2>4
    <3>3. (\A j \in DOMAIN input : input[j].of # Mine) => \A j \in DOMAIN input' : input'[j].of # Mine
      BY <1>2
    <3>4. QED
      BY <1>1, <1>5, <2>4, <3>1, <3>2, <3>3
  <2>5. QED
    BY <1>5, <2>2, <2>3, <2>4
<1>11. Behind' /\ AnswerIsItsOwn'
  BY <1>1 DEF Behind, AnswerIsItsOwn, past
<1>12. QED
  BY <1>1, <1>7, <1>8, <1>9, <1>10, <1>11 DEF IInv

LEMMA BeginLine ==
  ASSUME TypeOK, IInv, Begin, ~Head(input).mark
  PROVE  IInv'
<1>1. /\ Untouched /\ Calm /\ Paired /\ Piped /\ Behind /\ AnswerIsItsOwn
      /\ UNCHANGED <<pc, todo, got, answer, runs>> /\ Item' = Item /\ Planned' /\ OutputIsOwn'
      /\ at = Nothing /\ UNCHANGED <<status, pipe, behind, ended, strays, left>>
      /\ input # <<>> /\ input' = Tail(input)
      /\ at' = Head(input).of /\ began' = began \cup {Head(input).of}
  BY BashStill DEF Begin, Bash, IInv
<1>2. /\ Head(input) = input[1] /\ 1 \in DOMAIN input /\ input[1] \in Lines
      /\ Len(input) \in Nat \ {0} /\ Len(input') = Len(input) - 1
      /\ DOMAIN input = 1..Len(input) /\ DOMAIN input' = 1..(Len(input) - 1)
      /\ \A i \in DOMAIN input' : i + 1 \in DOMAIN input /\ input'[i] = input[i + 1]
  BY <1>1, InputTail
<1>3. /\ 2 \in DOMAIN input /\ input[2].mark /\ input[2].of = at' /\ input[1].of = at'
      /\ input'[1] = input[2] /\ 1 \in DOMAIN input'
  <2>1. 1 < Len(input) /\ input[1 + 1].mark /\ input[1 + 1].of = input[1].of
    BY <1>1, <1>2 DEF Paired
  <2>2. 1 \in DOMAIN input' /\ 2 \in DOMAIN input /\ 1 + 1 = 2
    BY <1>2, <2>1
  <2>3. QED
    BY <1>1, <1>2, <2>1, <2>2
<1>4. IsCommand(at') => at' = Mine /\ (Waiting \/ pc = "stopping") /\ Len(input) = 2
  <2>1. IsCommand(at') => at' = Mine /\ (Waiting \/ pc = "stopping")
    BY <1>2, <1>3, WhatRuns
  <2>2. IsCommand(at') => 2 = Len(input)
    <3>1. SUFFICES ASSUME IsCommand(input[2].of) PROVE 2 = Len(input)
      BY <1>3
    <3>2. \A i \in DOMAIN input : IsCommand(input[i].of) => (input[i].mark => i = Len(input))
      BY <1>1 DEF Paired
    <3>3. QED
      BY <1>3, <3>1, <3>2
  <2>3. QED
    BY <2>1, <2>2
<1>5. at' \in Items /\ at' # Nothing
  BY <1>2, <1>3, Kinds DEF Lines
<1>6. Untouched'
  <2>1. SUFFICES ASSUME answer.how \in {"none", "not available"}, ~Waiting PROVE Untouched'
    BY <1>1 DEF Untouched
  <2>2. /\ Mine \notin began /\ Mine \notin behind
        /\ \A i \in DOMAIN input : input[i].of # Mine
        /\ \A i \in DOMAIN pipe : pipe[i].of # Mine
    BY <1>1, <2>1 DEF Untouched
  <2>3. \A i \in DOMAIN input' : input'[i].of # Mine
    BY <1>2, <2>2
  <2>4. Mine # at' /\ Mine \notin began'
    BY <1>1, <1>2, <1>3, <2>2
  <2>5. QED
    BY <1>1, <2>2, <2>3, <2>4 DEF Untouched
<1>7. Calm'
  BY <1>1, <1>2, <1>3 DEF Calm
<1>8. Paired'
  <2>1. \A i \in DOMAIN input' :
          /\ (input'[i].mark /\ i > 1) => (~input'[i - 1].mark /\ input'[i - 1].of = input'[i].of)
          /\ ~input'[i].mark => (i < Len(input') /\ input'[i + 1].mark /\ input'[i + 1].of = input'[i].of)
          /\ IsCommand(input'[i].of) => (input'[i].of = Mine /\ (input'[i].mark => i = Len(input')))
    BY <1>1, TailPaired
  <2>2. input'[1].of = at'
    BY <1>3
  <2>3. IsCommand(at') => at' = Mine /\ Len(input') <= 1
    <3>1. SUFFICES ASSUME IsCommand(at') PROVE at' = Mine /\ Len(input') <= 1
      OBVIOUS
    <3>2. at' = Mine /\ Len(input) = 2
      BY <1>4, <3>1
    <3>3. Len(input') = 2 - 1
      BY <1>2, <3>2
    <3>4. Len(input') <= 1
      BY <3>3
    <3>5. QED
      BY <3>2, <3>4
  <2>4. QED
    BY <1>1, <1>5, <2>1, <2>2, <2>3 DEF Paired
<1>9. Piped'
  <2>1. (\A j \in DOMAIN input : input[j].of # Mine) =>
          at' # Mine /\ \A j \in DOMAIN input' : input'[j].of # Mine
    BY <1>2, <1>3
  <2>2. QED
    BY <1>1, <2>1 DEF Piped
<1>10. Behind'
  <2>1. \A item \in behind \cup strays \cup began' : IsCommand(item) => item.n <= runs
    BY <1>1, <1>3, <1>4, CommandIs, Sized DEF Behind
  <2>2. QED
    BY <1>1, <2>1 DEF Behind
<1>11. AnswerIsItsOwn'
  <2>1. answer.how = "not available" => Mine \notin began /\ at' # Mine
    BY <1>2, <1>3, WhatRuns
  <2>2. QED
    BY <1>1, <1>3, <2>1 DEF AnswerIsItsOwn
<1>12. QED
  BY <1>1, <1>6, <1>7, <1>8, <1>9, <1>10, <1>11 DEF IInv

(* A line more in the pipe that is no mark. *)
LEMMA LineOut ==
  ASSUME TypeOK, NEW item \in Items, pipe' = Append(pipe, Line(item))
  PROVE  \E n \in Nat :
           /\ DOMAIN pipe = 1..n /\ DOMAIN pipe' = 1..(n + 1)
           /\ \A i \in DOMAIN pipe' : i \in DOMAIN pipe \/ i = n + 1
           /\ \A i \in DOMAIN pipe : i \in DOMAIN pipe' /\ pipe'[i] = pipe[i]
           /\ pipe'[n + 1].of = item /\ ~pipe'[n + 1].mark
<1> DEFINE line == Line(item)
<1>1. line.of = item /\ ~line.mark /\ line \in Lines /\ pipe \in Seq(Lines)
  BY Kinds, Sized DEF Line
<1> HIDE DEF line
<1>2. pipe' = Append(pipe, line)
  BY DEF line
<1>3. /\ Len(pipe) \in Nat /\ DOMAIN pipe = 1..Len(pipe)
      /\ DOMAIN Append(pipe, line) = 1..(Len(pipe) + 1)
      /\ \A i \in 1..Len(pipe) : Append(pipe, line)[i] = pipe[i]
      /\ Append(pipe, line)[Len(pipe) + 1] = line
  BY <1>1, AppendOf
<1>4. PICK n \in Nat : /\ DOMAIN pipe = 1..n /\ DOMAIN pipe' = 1..(n + 1)
                       /\ (\A i \in 1..n : pipe'[i] = pipe[i]) /\ pipe'[n + 1] = line
  BY <1>2, <1>3, Zenon
<1>5. /\ \A i \in 1..(n + 1) : i \in 1..n \/ i = n + 1
      /\ \A i \in 1..n : i \in 1..(n + 1)
  OBVIOUS
<1>6. QED
  BY <1>1, <1>4, <1>5

LEMMA FinishInv ==
  ASSUME TypeOK, IInv, NEW exit \in {0, 1}, Finish(exit)
  PROVE  IInv'
<1>1. /\ Untouched /\ Calm /\ Paired /\ Piped /\ Behind /\ AnswerIsItsOwn
      /\ UNCHANGED <<pc, todo, got, answer, runs>> /\ Item' = Item /\ Planned' /\ OutputIsOwn'
      /\ at # Nothing /\ at' = Nothing /\ status' = exit /\ ended' = ended \cup {Mark(at, exit)}
      /\ UNCHANGED <<input, behind, began, strays, left>>
      /\ pipe' = pipe \/ (at.what = "prime" /\ pipe' = Append(pipe, Line(at)))
  BY BashStill DEF Finish, Writes, Bash, IInv
<1>2. Mine # Nothing /\ ~IsCommand(Nothing)
  BY DEF Command, Nothing
<1>3. Calm'
  BY <1>1, <1>2 DEF Calm
<1>4. Paired'
  BY <1>1, <1>2 DEF Paired
<1>5. Behind' /\ AnswerIsItsOwn'
  BY <1>1 DEF Behind, AnswerIsItsOwn
<1>6. CASE pipe' = pipe
  <2>1. Untouched' /\ Piped'
    BY <1>1, <1>2, <1>6 DEF Untouched, Piped
  <2>2. QED
    BY <1>1, <1>3, <1>4, <1>5, <2>1 DEF IInv
<1>7. CASE at.what = "prime" /\ pipe' = Append(pipe, Line(at))
  <2>1. at \in Items /\ ~IsCommand(at)
    BY <1>1, <1>7 DEF TypeOK, BashOK
  <2>2. PICK n \in Nat : /\ DOMAIN pipe = 1..n /\ DOMAIN pipe' = 1..(n + 1)
                         /\ \A i \in DOMAIN pipe' : i \in DOMAIN pipe \/ i = n + 1
                         /\ \A i \in DOMAIN pipe : i \in DOMAIN pipe' /\ pipe'[i] = pipe[i]
                         /\ pipe'[n + 1].of = at /\ ~pipe'[n + 1].mark
    BY <1>7, <2>1, LineOut
  <2>3. Untouched'
    <3>1. at # Mine
      BY <2>1, CommandIs
    <3>2. QED
      BY <1>1, <1>2, <2>2, <3>1 DEF Untouched
  <2>4. Piped'
    BY <1>1, <1>2, <2>1, <2>2 DEF Piped
  <2>5. QED
    BY <1>1, <1>3, <1>4, <1>5, <2>3, <2>4 DEF IInv
<1>8. QED
  BY <1>1, <1>6, <1>7

LEMMA TalkInv ==
  ASSUME TypeOK, IInv, Talk
  PROVE  IInv'
<1>1. /\ Untouched /\ Calm /\ Paired /\ Piped /\ Behind /\ AnswerIsItsOwn
      /\ UNCHANGED <<pc, todo, got, answer, runs>> /\ Item' = Item /\ Planned' /\ OutputIsOwn'
      /\ UNCHANGED <<input, at, status, behind, began, ended, strays, left>>
  BY BashStill DEF Talk, Bash, IInv
<1>2. PICK item \in behind \cup {at} : IsCommand(item) /\ pipe' = Append(pipe, Line(item))
  BY DEF Talk, Writes
<1>3. item \in Items
  BY <1>2 DEF TypeOK, BashOK, Nothing
<1>4. PICK n \in Nat : /\ DOMAIN pipe = 1..n /\ DOMAIN pipe' = 1..(n + 1)
                       /\ \A i \in DOMAIN pipe' : i \in DOMAIN pipe \/ i = n + 1
                       /\ \A i \in DOMAIN pipe : i \in DOMAIN pipe' /\ pipe'[i] = pipe[i]
                       /\ pipe'[n + 1].of = item /\ ~pipe'[n + 1].mark
  BY <1>2, <1>3, LineOut
<1>5. Untouched'
  BY <1>1, <1>2, <1>4 DEF Untouched
<1>6. Calm' /\ Paired' /\ Behind' /\ AnswerIsItsOwn'
  BY <1>1 DEF Calm, Paired, Behind, AnswerIsItsOwn
<1>7. \/ item \in strays
      \/ /\ item = Mine /\ (Waiting \/ pc = "stopping")
         /\ \A j \in DOMAIN pipe : ~(pipe[j].mark /\ pipe[j].of = Mine)
  <2>1. CASE item \in behind
    BY <1>1, <2>1 DEF Behind
  <2>2. CASE item = at
    <3>1. at = Mine /\ (Waiting \/ pc = "stopping")
      BY <1>2, <2>2, WhatRuns
    <3>2. \A j \in DOMAIN pipe : ~(pipe[j].mark /\ pipe[j].of = Mine)
      BY <1>1, <3>1, CommandIs DEF Piped
    <3>3. QED
      BY <2>2, <3>1, <3>2
  <2>3. QED
    BY <1>2, <2>1, <2>2
<1>8. Piped'
  <2>1. SUFFICES ASSUME NEW i \in DOMAIN pipe'
                 PROVE  /\ pipe'[i].mark => pipe'[i] \in ended
                        /\ IsCommand(pipe'[i].of) =>
                            \/ ~pipe'[i].mark /\ pipe'[i].of \in strays
                            \/ /\ pipe'[i].of = Mine /\ (Waiting \/ pc = "stopping")
                               /\ \A j \in DOMAIN pipe' : (pipe'[j].mark /\ pipe'[j].of = Mine) => i <= j
                               /\ pipe'[i].mark => (at # Mine /\ \A j \in DOMAIN input : input[j].of # Mine)
    BY <1>1 DEF Piped
  <2>2. CASE i \in DOMAIN pipe
    BY <1>1, <1>4, <2>2 DEF Piped
  <2>3. CASE i = n + 1
    <3>1. (\A j \in DOMAIN pipe : ~(pipe[j].mark /\ pipe[j].of = Mine))
            => \A j \in DOMAIN pipe' : ~(pipe'[j].mark /\ pipe'[j].of = Mine)
      BY <1>4
    <3>2. QED
      BY <1>4, <1>7, <2>3, <3>1
  <2>4. QED
    BY <1>4, <2>2, <2>3
<1>9. QED
  BY <1>1, <1>5, <1>6, <1>8 DEF IInv

LEMMA LeaveBehindInv ==
  ASSUME TypeOK, IInv, LeaveBehind
  PROVE  IInv'
<1>1. /\ Planned /\ Untouched /\ Calm /\ Paired /\ Piped /\ Behind /\ AnswerIsItsOwn
      /\ UNCHANGED <<pc, todo, got, answer, runs>> /\ Item' = Item /\ Planned' /\ OutputIsOwn'
      /\ UNCHANGED <<input, at, status, pipe, began, ended, left>>
      /\ behind' = behind \cup {at} /\ strays' = strays \cup {at}
  BY BashStill DEF LeaveBehind, Bash, IInv
<1>2. at = Mine /\ (Waiting \/ pc = "stopping")
  BY WhatRuns DEF LeaveBehind
<1>3. Untouched'
  BY <1>1 DEF Untouched
<1>4. Calm' /\ Paired' /\ AnswerIsItsOwn'
  BY <1>1 DEF Calm, Paired, AnswerIsItsOwn
<1>5. Piped'
  BY <1>1 DEF Piped
<1>6. Behind'
  <2>1. answer.how # "none" => pc = "stopping"
    BY <1>1, <1>2, Answered
  <2>2. Mine.n <= runs
    BY CommandIs, Sized
  <2>3. QED
    BY <1>1, <1>2, <2>1, <2>2 DEF Behind
<1>7. QED
  BY <1>1, <1>3, <1>4, <1>5, <1>6 DEF IInv

LEMMA ReadInputInv ==
  ASSUME TypeOK, IInv, ReadInput
  PROVE  IInv'
<1>1. /\ Untouched /\ Calm /\ Paired /\ Piped /\ Behind /\ AnswerIsItsOwn
      /\ UNCHANGED <<pc, todo, got, answer, runs>> /\ Item' = Item /\ Planned' /\ OutputIsOwn'
      /\ UNCHANGED <<at, status, pipe, behind, began, ended, strays, left>>
      /\ input # <<>> /\ input' = Tail(input) /\ IsCommand(at)
  BY BashStill DEF ReadInput, Bash, IInv
<1>2. at = Mine /\ Len(input) <= 1
  BY <1>1, WhatRuns
<1>3. input' = <<>>
  <2>1. input \in Seq(Lines)
    BY Sized
  <2>2. PICK n \in Nat : n = Len(input) /\ n # 0 /\ Tail(input) \in Seq(Lines) /\ Len(Tail(input)) = n - 1
    <3>1. /\ Len(input) \in Nat \ {0} /\ Tail(input) \in Seq(Lines)
          /\ Len(Tail(input)) = Len(input) - 1
      BY <1>1, <2>1, TailOf
    <3>2. Len(input) \in Nat /\ Len(input) # 0
      BY <3>1
    <3>3. QED
      BY <3>1, <3>2, Zenon
  <2>3. n - 1 = 0
    BY <1>2, <2>2
  <2>4. QED
    BY <1>1, <2>2, <2>3, EmptySeq
<1>4. Untouched' /\ Calm' /\ Piped'
  BY <1>1, <1>3, EmptyOf DEF Untouched, Calm, Piped
<1>5. Paired'
  BY <1>1, <1>2, <1>3, EmptyOf DEF Paired
<1>6. Behind' /\ AnswerIsItsOwn'
  BY <1>1 DEF Behind, AnswerIsItsOwn
<1>7. QED
  BY <1>1, <1>4, <1>5, <1>6 DEF IInv

(* bash is gone, by itself or by the signal. *)
LEMMA Gone ==
  ASSUME IInv, Planned', OutputIsOwn',
         UNCHANGED <<pc, todo, answer, runs, pipe, began, ended, strays, left>>,
         input' = <<>>, at' = Nothing, behind' \subseteq behind
  PROVE  IInv'
<1>1. Untouched /\ Calm /\ Paired /\ Piped /\ Behind /\ AnswerIsItsOwn /\ Item' = Item
  BY DEF IInv, Item
<1>2. Mine # Nothing /\ ~IsCommand(Nothing)
  BY DEF Command, Nothing
<1>3. Untouched' /\ Calm' /\ Paired' /\ Piped'
  BY <1>1, <1>2, EmptyOf DEF Untouched, Calm, Paired, Piped
<1>4. Behind' /\ AnswerIsItsOwn'
  BY <1>1 DEF Behind, AnswerIsItsOwn
<1>5. QED
  BY <1>3, <1>4 DEF IInv

LEMMA ExitInv ==
  ASSUME IInv, Exit
  PROVE  IInv'
<1>1. /\ UNCHANGED <<pc, todo, answer, runs>> /\ Planned' /\ OutputIsOwn'
      /\ input' = <<>> /\ at' = Nothing /\ UNCHANGED <<behind, pipe, began, ended, strays, left>>
  BY BashStill DEF Exit, Bash
<1>2. QED
  BY <1>1, Gone

LEMMA Unmoved ==
  ASSUME IInv, UNCHANGED <<pc, run, bash, past>>
  PROVE  IInv'
<1>1. Planned /\ Untouched /\ Calm /\ Paired /\ Piped /\ Behind /\ AnswerIsItsOwn /\ OutputIsOwn /\ Item' = Item
  BY DEF IInv, run, Item
<1>2. Planned' /\ Untouched' /\ Calm'
  BY <1>1 DEF Planned, Untouched, Calm, run, bash, past
<1>3. Paired' /\ Piped'
  BY <1>1 DEF Paired, Piped, run, bash, past
<1>4. Behind' /\ AnswerIsItsOwn' /\ OutputIsOwn'
  BY <1>1 DEF Behind, AnswerIsItsOwn, OutputIsOwn, run, bash, past
<1>5. QED
  BY <1>2, <1>3, <1>4 DEF IInv

LEMMA KillInv ==
  ASSUME IInv, KillLoad \/ KillSignal
  PROVE  IInv'
<1>1. CASE KillLoad
  BY <1>1, Unmoved DEF KillLoad
<1>2. CASE KillSignal
  <2>1. UNCHANGED <<pc, run, pipe, status, past>>
    BY <1>2 DEF KillSignal
  <2>2. CASE aim > reaped
    <3>1. input' = <<>> /\ at' = Nothing /\ behind' = {}
      BY <1>2, <2>2 DEF KillSignal
    <3>2. Planned' /\ OutputIsOwn'
      <4>1. Planned /\ OutputIsOwn /\ Item' = Item
        BY <2>1 DEF IInv, run, Item
      <4>2. QED
        BY <2>1, <4>1 DEF Planned, OutputIsOwn, run, past
    <3>3. QED
      BY <2>1, <3>1, <3>2, Gone DEF run, past
  <2>3. CASE ~(aim > reaped)
    <3>1. UNCHANGED <<alive, at, input, behind>>
      BY <1>2, <2>3 DEF KillSignal
    <3>2. QED
      BY <2>1, <3>1, Unmoved DEF bash
  <2>4. QED
    BY <2>2, <2>3
<1>3. QED
  BY <1>1, <1>2

-----------------------------------------------------------------------------
(* What the run checks, for every value of the constants. *)

LEMMA StepKeeps == TypeOK /\ IInv /\ [Next]_vars => TypeOK' /\ IInv'
<1> SUFFICES ASSUME TypeOK, IInv, [Next]_vars PROVE TypeOK' /\ IInv'
  OBVIOUS
<1>1. Planned
  BY DEF IInv
<1>2. CASE Run
  BY <1>2, RunType, RunInv
<1>3. CASE Start \/ StartFails \/ Store
  BY <1>3, StartType, StartInv
<1>4. CASE Send
  BY <1>1, <1>4, SendType, SendInv
<1>5. CASE ReadLine
  BY <1>1, <1>5, ReadType, ReadLineInv
<1>6. CASE ReadFails
  BY <1>1, <1>6, ReadType, ReadFailsInv
<1>7. CASE Reset \/ Stop
  BY <1>7, StopType, StopInv
<1>8. CASE Begin
  BY <1>8, BashType, BeginMark, BeginLine
<1>9. CASE \E exit \in {0, 1} : Finish(exit)
  BY <1>9, BashType, FinishInv
<1>10. CASE Talk
  BY <1>10, BashType, TalkInv
<1>11. CASE LeaveBehind
  BY <1>11, BashType, LeaveBehindInv
<1>12. CASE ReadInput
  BY <1>12, BashType, ReadInputInv
<1>13. CASE Exit
  BY <1>13, BashType, ExitInv
<1>14. CASE KillLoad \/ KillSignal
  BY <1>14, KillType, KillInv
<1>15. CASE UNCHANGED vars
  <2>1. IInv'
    BY <1>15, Unmoved DEF vars
  <2>2. CountsOK' /\ FlagsOK' /\ RunOK' /\ BashOK'
    <3>1. UNCHANGED <<runs, gen, reaped, killPgid, status, aim, kills, up, alive, cancelled, stranger>>
      BY <1>15 DEF vars, run, shell, bash, signal
    <3>2. UNCHANGED <<pc, todo, got, answer>>
      BY <1>15 DEF vars, run
    <3>3. UNCHANGED <<input, pipe, at, behind, left, strays, began, ended>>
      BY <1>15 DEF vars, bash, past
    <3>4. CountsOK' /\ FlagsOK'
      BY <3>1 DEF TypeOK, CountsOK, FlagsOK
    <3>5. RunOK'
      BY <3>2 DEF TypeOK, RunOK
    <3>6. BashOK'
      BY <3>3 DEF TypeOK, BashOK
    <3>7. QED
      BY <3>4, <3>5, <3>6
  <2>3. QED
    BY <2>1, <2>2 DEF TypeOK
<1>16. QED
  BY <1>2, <1>3, <1>4, <1>5, <1>6, <1>7, <1>8, <1>9, <1>10, <1>11, <1>12, <1>13, <1>14, <1>15
     DEF Next, RunStep

LEMMA Invariant == Spec => [](TypeOK /\ IInv)
<1>1. Init => TypeOK /\ IInv
  BY InitType, InitInv
<1>2. QED
  BY <1>1, StepKeeps, PTL DEF Spec

(* Everything the shell, Run and Kill keep stays within its type: the group
   Kill is told of is a shell that was started, or none.                    *)
THEOREM TypeCorrect == Spec => []TypeOK
BY Invariant, PTL

(* The exit code Run returns is its own command's, and a command reported as
   not available did not run (shell.go, Run and runLocked).                 *)
THEOREM AnswersAreOwn == Spec => []AnswerIsItsOwn
<1>1. IInv => AnswerIsItsOwn
  BY DEF IInv
<1>2. QED
  BY <1>1, Invariant, PTL

(* What Run returns is of its command or of processes left behind in the same
   shell, and a command given up is over, it and all it started in the group
   (shell.go, reset and stop).                                              *)
THEOREM CommandsStayApart == Spec => []OneAtATime
<1>1. IInv => OneAtATime
  <2>1. SUFFICES ASSUME IInv PROVE OneAtATime
    OBVIOUS
  <2>2. GivenUpIsOver
    <3>1. Calm /\ Behind
      BY <2>1 DEF IInv
    <3>2. QED
      BY <3>1 DEF Calm, Behind, GivenUpIsOver
  <2>3. QED
    BY <2>1, <2>2 DEF IInv, OneAtATime
<1>2. QED
  BY <1>1, Invariant, PTL

-----------------------------------------------------------------------------
(* The input line (Line). *)

(* A set of naturals that holds 0 and, with each, the next. *)
LEMMA AllNaturals ==
  ASSUME NEW G \in SUBSET Nat, 0 \in G, \A n \in G : n + 1 \in G
  PROVE  G = Nat
<1>. DEFINE D == Nat \ G
<1>1. SUFFICES ASSUME D # {} PROVE FALSE
  OBVIOUS
<1>2. PICK d \in D : \A n \in D : <<n, d>> \notin OpToRel(<, Nat)
  BY <1>1, NatLessThanWellFounded, WFMin, Zenon
<1>3. d \in Nat /\ d # 0 /\ d - 1 \in Nat  BY SMT
<1>4. <<d - 1, d>> \in OpToRel(<, Nat)
  <2>1. d - 1 < d  BY <1>3
  <2>. QED  BY <2>1, <1>3, Zenon DEF OpToRel
<1>5. d - 1 \in G  BY <1>2, <1>3, <1>4, Zenon
<1>6. d - 1 + 1 \in G  BY <1>5, Zenon
<1>. QED  BY <1>3, <1>6, SMT

LEMMA Least ==
  ASSUME NEW S \in SUBSET Nat, S # {}
  PROVE  \E i \in S : \A j \in S : i <= j
<1>1. PICK d \in S : \A n \in S : <<n, d>> \notin OpToRel(<, Nat)
  BY NatLessThanWellFounded, WFMin, Zenon
<1>2. ASSUME NEW j \in S PROVE d <= j
  <2>1. j \in Nat /\ d \in Nat  OBVIOUS
  <2>2. ~(j < d)
    <3>1. SUFFICES ASSUME j < d PROVE FALSE  OBVIOUS
    <3>2. <<j, d>> \in OpToRel(<, Nat)  BY <2>1, <3>1, Zenon DEF OpToRel
    <3>. QED  BY <1>1, <1>2, <3>2, Zenon
  <2>. QED  BY <2>1, <2>2, SMT
<1>. QED  BY <1>2

(* More bytes behind those of p. *)
Onward(p, r) ==
  /\ Len(p) \in Nat /\ Len(r) \in Nat /\ Len(p) <= Len(r)
  /\ \A i \in 1..Len(p) : r[i] = p[i]

Csis(p) == {i \in 3..Len(p) : Final(p[i])}

LEMMA CsiAt ==
  ASSUME NEW p, Len(p) \in Nat, Csis(p) # {}
  PROVE  \E i \in Csis(p) : /\ \A j \in Csis(p) : i <= j
                           /\ Csi(p) = Esc(i, CsiKey(IF i = 4 THEN p[3] ELSE "", p[i]))
<1>. DEFINE S == Csis(p)
            i == CHOOSE i \in S : \A j \in S : i <= j
<1>1. S \in SUBSET Nat  BY SMT DEF Csis
<1>. HIDE DEF S
<1>2. \E k \in S : \A j \in S : k <= j  BY <1>1, Least DEF S
<1>3. i \in S /\ \A j \in S : i <= j  BY <1>2, Zenon
<1>4. Csi(p) = Esc(i, CsiKey(IF i = 4 THEN p[3] ELSE "", p[i]))  BY Zenon DEF Csi, Csis, S
<1>. QED  BY <1>3, <1>4, Zenon DEF S

LEMMA CsiStands ==
  ASSUME NEW p, NEW r, Onward(p, r), Csis(p) # {}
  PROVE  Csi(r) = Csi(p)
<1>1. PICK i \in Csis(p) : /\ \A j \in Csis(p) : i <= j
                          /\ Csi(p) = Esc(i, CsiKey(IF i = 4 THEN p[3] ELSE "", p[i]))
  BY CsiAt, Zenon DEF Onward
<1>2. Len(p) \in Nat /\ Len(r) \in Nat /\ Len(p) <= Len(r) /\ i \in 3..Len(p)
  BY <1>1, Zenon DEF Onward, Csis
<1>3. i \in Nat /\ 3 <= i /\ i <= Len(p) /\ i \in 1..Len(p) /\ 3 \in 1..Len(p) /\ i \in 3..Len(r)  BY <1>2, SMT
<1>4. r[i] = p[i] /\ r[3] = p[3]  BY <1>3, Zenon DEF Onward
<1>5. i \in Csis(r)  BY <1>1, <1>3, <1>4, Zenon DEF Csis
<1>6. PICK k \in Csis(r) : /\ \A j \in Csis(r) : k <= j
                          /\ Csi(r) = Esc(k, CsiKey(IF k = 4 THEN r[3] ELSE "", r[k]))
  BY <1>2, <1>5, CsiAt, Zenon
<1>7. k \in 3..Len(r) /\ k <= i  BY <1>5, <1>6, Zenon DEF Csis
<1>8. k \in Nat /\ k \in 1..Len(p) /\ k \in 3..Len(p)  BY <1>2, <1>3, <1>7, SMT
<1>9. k \in Csis(p)
  <2>1. r[k] = p[k]  BY <1>8, Zenon DEF Onward
  <2>. QED  BY <1>6, <1>8, <2>1, Zenon DEF Csis
<1>10. i <= k  BY <1>1, <1>9, Zenon
<1>11. i = k  BY <1>3, <1>7, <1>8, <1>10, SMT
<1>. QED  BY <1>1, <1>4, <1>6, <1>11, Zenon

(* A key that is complete stays what it is, whatever comes behind it. *)
LEMMA EscStands ==
  ASSUME NEW p, NEW r, Onward(p, r), EscKey(p).n # 0
  PROVE  EscKey(r) = EscKey(p)
<1>1. Len(p) \in Nat /\ Len(r) \in Nat /\ Len(p) <= Len(r)  BY Zenon DEF Onward
<1>2. ~(Len(p) < 2)
  <2>1. Esc(0, "none").n = 0  BY DEF Esc
  <2>. QED  BY <2>1, Zenon DEF EscKey
<1>3. ~(Len(r) < 2) /\ 2 \in 1..Len(p)  BY <1>1, <1>2, SMT
<1>4. r[2] = p[2]  BY <1>3, Zenon DEF Onward
<1>5. CASE p[2] = "["
  <2>1. EscKey(p) = Csi(p) /\ EscKey(r) = Csi(r)  BY <1>2, <1>3, <1>4, <1>5 DEF EscKey
  <2>2. Csis(p) # {}
    <3>1. SUFFICES ASSUME Csis(p) = {} PROVE FALSE  OBVIOUS
    <3>2. Csi(p) = Esc(0, "none")  BY <3>1, Zenon DEF Csi, Csis
    <3>3. Esc(0, "none").n = 0  BY DEF Esc
    <3>. QED  BY <2>1, <3>2, <3>3
  <2>. QED  BY <2>1, <2>2, CsiStands
<1>6. CASE p[2] = "O"
  <2>1. /\ EscKey(p) = IF Len(p) < 3 THEN Esc(0, "none") ELSE Esc(3, CsiKey("", p[3]))
        /\ EscKey(r) = IF Len(r) < 3 THEN Esc(0, "none") ELSE Esc(3, CsiKey("", r[3]))
    BY <1>2, <1>3, <1>4, <1>6 DEF EscKey
  <2>2. Esc(0, "none").n = 0  BY DEF Esc
  <2>3. ~(Len(p) < 3)  BY <2>1, <2>2, Zenon
  <2>4. ~(Len(r) < 3) /\ 3 \in 1..Len(p)  BY <1>1, <2>3, SMT
  <2>5. r[3] = p[3]  BY <2>4, Zenon DEF Onward
  <2>. QED  BY <2>1, <2>3, <2>4, <2>5, Zenon
<1>7. CASE p[2] # "[" /\ p[2] # "O"
  BY <1>2, <1>3, <1>4, <1>7 DEF EscKey
<1>. QED  BY <1>5, <1>6, <1>7

LEMMA EscTakes ==
  ASSUME NEW p, Len(p) \in Nat
  PROVE  EscKey(p).n \in Nat /\ EscKey(p).n <= Len(p)
<1>0. \A n, k : Esc(n, k).n = n  BY DEF Esc
<1>1. CASE Len(p) < 2
  <2>1. EscKey(p) = Esc(0, "none")  BY <1>1 DEF EscKey
  <2>2. EscKey(p).n = 0  BY <1>0, <2>1, Zenon
  <2>. QED  BY <2>2, SMT
<1>2. CASE ~(Len(p) < 2) /\ p[2] = "["
  <2>1. EscKey(p) = Csi(p)  BY <1>2 DEF EscKey
  <2>2. CASE Csis(p) = {}
    <3>1. Csi(p) = Esc(0, "none")  BY <2>2, Zenon DEF Csi, Csis
    <3>2. EscKey(p).n = 0  BY <1>0, <2>1, <3>1, Zenon
    <3>. QED  BY <3>2, SMT
  <2>3. CASE Csis(p) # {}
    <3>1. PICK i \in Csis(p) : Csi(p) = Esc(i, CsiKey(IF i = 4 THEN p[3] ELSE "", p[i]))
      BY <2>3, CsiAt, Zenon
    <3>2. EscKey(p).n = i /\ i \in 3..Len(p)  BY <1>0, <2>1, <3>1, Zenon DEF Csis
    <3>. QED  BY <3>2, SMT
  <2>. QED  BY <2>2, <2>3
<1>3. CASE ~(Len(p) < 2) /\ p[2] = "O"
  <2>1. EscKey(p) = IF Len(p) < 3 THEN Esc(0, "none") ELSE Esc(3, CsiKey("", p[3]))
    BY <1>3 DEF EscKey
  <2>2. EscKey(p).n = IF Len(p) < 3 THEN 0 ELSE 3  BY <1>0, <2>1, Zenon
  <2>. QED  BY <2>2, SMT
<1>4. CASE ~(Len(p) < 2) /\ p[2] # "[" /\ p[2] # "O"
  <2>1. \E k : EscKey(p) = Esc(1, k) \/ EscKey(p) = Esc(2, k)  BY <1>4 DEF EscKey
  <2>2. EscKey(p).n = 1 \/ EscKey(p).n = 2  BY <1>0, <2>1, Zenon
  <2>. QED  BY <1>4, <2>2, SMT
<1>. QED  BY <1>1, <1>2, <1>3, <1>4

LEMMA RuneTakes ==
  ASSUME NEW p, Len(p) \in Nat \ {0}
  PROVE  /\ Rune(p).n \in Nat /\ Rune(p).n <= Len(p)
         /\ Rune(p).n = 0 => p[1] = "u1" /\ Len(p) = 1
<1>1. CASE p[1] = "u1" /\ Len(p) = 1
  <2>1. Rune(p).n = 0  BY <1>1 DEF Rune
  <2>. QED  BY <1>1, <2>1, SMT
<1>2. CASE p[1] = "u1" /\ Len(p) > 1 /\ p[2] = "u2"
  <2>1. Len(p) # 1 /\ 2 <= Len(p)  BY <1>2, SMT
  <2>2. Rune(p).n = 2  BY <1>2, <2>1 DEF Rune
  <2>. QED  BY <2>1, <2>2, SMT
<1>3. CASE ~(p[1] = "u1" /\ Len(p) = 1) /\ ~(p[1] = "u1" /\ Len(p) > 1 /\ p[2] = "u2")
  <2>1. Rune(p).n = 1  BY <1>3, Zenon DEF Rune
  <2>2. 1 <= Len(p)  BY SMT
  <2>. QED  BY <2>1, <2>2, SMT
<1>. QED  BY <1>1, <1>2, <1>3

LEMMA RuneStands ==
  ASSUME NEW p, NEW r, Onward(p, r), Len(p) # 0, Rune(p).n # 0
  PROVE  Rune(r) = Rune(p)
<1>1. Len(p) \in Nat /\ Len(r) \in Nat /\ Len(p) <= Len(r) /\ 1 \in 1..Len(p) /\ Len(r) # 0
  <2>1. Len(p) \in Nat /\ Len(r) \in Nat /\ Len(p) <= Len(r)  BY Zenon DEF Onward
  <2>. QED  BY <2>1, SMT
<1>2. r[1] = p[1]  BY <1>1, Zenon DEF Onward
<1>3. ~(p[1] = "u1" /\ Len(p) = 1)
  <2>1. SUFFICES ASSUME p[1] = "u1" /\ Len(p) = 1 PROVE FALSE  OBVIOUS
  <2>2. Rune(p).n = 0  BY <2>1 DEF Rune
  <2>. QED  BY <2>2
<1>4. CASE p[1] = "u1"
  <2>1. Len(p) > 1 /\ Len(r) > 1 /\ Len(p) # 1 /\ Len(r) # 1 /\ 2 \in 1..Len(p)  BY <1>1, <1>3, <1>4, SMT
  <2>2. r[2] = p[2]  BY <2>1, Zenon DEF Onward
  <2>3. CASE p[2] = "u2"
    BY <1>2, <1>4, <2>1, <2>2, <2>3 DEF Rune
  <2>4. CASE p[2] # "u2"
    BY <1>2, <1>4, <2>1, <2>2, <2>4 DEF Rune
  <2>. QED  BY <2>3, <2>4
<1>5. CASE p[1] # "u1"
  BY <1>2, <1>5, Zenon DEF Rune
<1>. QED  BY <1>4, <1>5

(* What the first byte says of the key it begins. *)
Pasted(b, p)  == b.pasting /\ p[1] \in {"\r", "\n"}
Tabbed(b, p)  == b.pasting /\ p[1] = "\t"
Steered(b, p) == p[1] \in Controls /\ ~(b.pasting /\ p[1] \in {"\r", "\n", "\t"})

LEMMA FirstIs ==
  ASSUME NEW b, NEW p
  PROVE  /\ p[1] = "esc" => First(b, p) = [n |-> EscKey(p).n, box |-> Key(b, EscKey(p).key)]
         /\ Pasted(b, p) =>
              First(b, p) = [n |-> IF p[1] = "\r" /\ Len(p) > 1 /\ p[2] = "\n" THEN 2 ELSE 1, box |-> Type(b, "\n")]
         /\ Tabbed(b, p) => First(b, p) = [n |-> 1, box |-> Type(b, "\t")]
         /\ Steered(b, p) => First(b, p) = [n |-> 1, box |-> IF b.pasting THEN b ELSE Control(b, p[1])]
         /\ p[1] # "esc" /\ ~Pasted(b, p) /\ ~Tabbed(b, p) /\ ~Steered(b, p) =>
              First(b, p) = [n |-> Rune(p).n, box |-> Type(b, Rune(p).c)]
<1>1. "esc" \notin Controls /\ "esc" \notin {"\r", "\n", "\t"}  BY DEF Controls
<1>2. "\t" \notin {"\r", "\n"} /\ {"\r", "\n"} \subseteq {"\r", "\n", "\t"}  OBVIOUS
<1>3. CASE p[1] = "esc"
  <2>1. ~Pasted(b, p) /\ ~Tabbed(b, p) /\ ~Steered(b, p)
    BY <1>1, <1>3, Zenon DEF Pasted, Tabbed, Steered
  <2>. QED  BY <1>3, <2>1, Zenon DEF First, Pasted, Tabbed, Steered
<1>4. CASE Pasted(b, p)
  <2>1. p[1] # "esc" /\ ~Tabbed(b, p) /\ ~Steered(b, p)
    BY <1>1, <1>2, <1>4 DEF Pasted, Tabbed, Steered
  <2>. QED  BY <1>4, <2>1, Zenon DEF First, Pasted, Tabbed, Steered
<1>5. CASE Tabbed(b, p)
  <2>1. p[1] # "esc" /\ ~Pasted(b, p) /\ ~Steered(b, p)
    BY <1>1, <1>2, <1>5 DEF Pasted, Tabbed, Steered
  <2>. QED  BY <1>5, <2>1, Zenon DEF First, Pasted, Tabbed, Steered
<1>6. CASE Steered(b, p)
  <2>1. p[1] # "esc" /\ ~Pasted(b, p) /\ ~Tabbed(b, p)
    BY <1>1, <1>2, <1>6 DEF Pasted, Tabbed, Steered
  <2>. QED  BY <1>6, <2>1, Zenon DEF First, Pasted, Tabbed, Steered
<1>7. CASE p[1] # "esc" /\ ~Pasted(b, p) /\ ~Tabbed(b, p) /\ ~Steered(b, p)
  BY <1>7, Zenon DEF First, Pasted, Tabbed, Steered
<1>. QED  BY <1>3, <1>4, <1>5, <1>6, <1>7, Zenon

LEMMA FirstTakes ==
  ASSUME NEW b, NEW p, Len(p) \in Nat \ {0}
  PROVE  First(b, p).n \in Nat /\ First(b, p).n <= Len(p)
<1>0. Len(p) \in Nat /\ 1 <= Len(p)  BY SMT
<1>1. CASE p[1] = "esc"
  <2>1. First(b, p).n = EscKey(p).n  BY <1>1, FirstIs
  <2>. QED  BY <1>0, <2>1, EscTakes
<1>2. CASE Pasted(b, p)
  <2>1. First(b, p).n = IF p[1] = "\r" /\ Len(p) > 1 /\ p[2] = "\n" THEN 2 ELSE 1  BY <1>2, FirstIs
  <2>2. First(b, p).n = 1 \/ (Len(p) > 1 /\ First(b, p).n = 2)  BY <2>1, Zenon
  <2>. QED  BY <1>0, <2>2, SMT
<1>3. CASE Tabbed(b, p) \/ Steered(b, p)
  <2>1. First(b, p).n = 1  BY <1>3, FirstIs
  <2>. QED  BY <1>0, <2>1, SMT
<1>4. CASE p[1] # "esc" /\ ~Pasted(b, p) /\ ~Tabbed(b, p) /\ ~Steered(b, p)
  <2>1. First(b, p).n = Rune(p).n  BY <1>4, FirstIs
  <2>. QED  BY <2>1, RuneTakes
<1>. QED  BY <1>1, <1>2, <1>3, <1>4

(* A CR that is pasted, with nothing behind it yet, and a LF to come. *)
Parted(b, p, r) == b.pasting /\ Len(p) = 1 /\ p[1] = "\r" /\ Len(r) > 1 /\ r[2] = "\n"

LEMMA FirstStands ==
  ASSUME NEW b, NEW p, NEW r, Onward(p, r), Len(p) # 0, First(b, p).n # 0, ~Parted(b, p, r)
  PROVE  First(b, r) = First(b, p)
<1>1. Len(p) \in Nat /\ Len(r) \in Nat /\ Len(p) <= Len(r) /\ 1 \in 1..Len(p)
  <2>1. Len(p) \in Nat /\ Len(r) \in Nat /\ Len(p) <= Len(r)  BY Zenon DEF Onward
  <2>. QED  BY <2>1, SMT
<1>2. r[1] = p[1]  BY <1>1, Zenon DEF Onward
<1>3. /\ Pasted(b, r) <=> Pasted(b, p)
      /\ Tabbed(b, r) <=> Tabbed(b, p)
      /\ Steered(b, r) <=> Steered(b, p)
  BY <1>2, Zenon DEF Pasted, Tabbed, Steered
<1>4. CASE p[1] = "esc"
  <2>1. First(b, p) = [n |-> EscKey(p).n, box |-> Key(b, EscKey(p).key)]
        /\ First(b, r) = [n |-> EscKey(r).n, box |-> Key(b, EscKey(r).key)]
    BY <1>2, <1>4, FirstIs
  <2>2. EscKey(p).n # 0  BY <2>1
  <2>3. EscKey(r) = EscKey(p)  BY <2>2, EscStands
  <2>. QED  BY <2>1, <2>3, Zenon
<1>5. CASE Pasted(b, p)
  <2>. DEFINE N(s) == s[1] = "\r" /\ Len(s) > 1 /\ s[2] = "\n"
  <2>1. First(b, p) = [n |-> IF N(p) THEN 2 ELSE 1, box |-> Type(b, "\n")]
        /\ First(b, r) = [n |-> IF N(r) THEN 2 ELSE 1, box |-> Type(b, "\n")]
    BY <1>3, <1>5, FirstIs
  <2>2. N(r) <=> N(p)
    <3>1. CASE Len(p) > 1
      <4>1. 2 \in 1..Len(p) /\ Len(r) > 1  BY <1>1, <3>1, SMT
      <4>2. r[2] = p[2]  BY <4>1, Zenon DEF Onward
      <4>. QED  BY <1>2, <3>1, <4>1, <4>2
    <3>2. CASE ~(Len(p) > 1)
      <4>1. Len(p) = 1  BY <1>1, <3>2, SMT
      <4>. QED  BY <1>2, <1>5, <3>2, <4>1, Zenon DEF Parted, Pasted
    <3>. QED  BY <3>1, <3>2
  <2>. HIDE DEF N
  <2>3. CASE N(p)   BY <2>1, <2>2, <2>3
  <2>4. CASE ~N(p)  BY <2>1, <2>2, <2>4
  <2>. QED  BY <2>3, <2>4
<1>6. CASE Tabbed(b, p)
  BY <1>3, <1>6, FirstIs, Zenon
<1>7. CASE Steered(b, p)
  BY <1>2, <1>3, <1>7, FirstIs, Zenon
<1>8. CASE p[1] # "esc" /\ ~Pasted(b, p) /\ ~Tabbed(b, p) /\ ~Steered(b, p)
  <2>1. First(b, p) = [n |-> Rune(p).n, box |-> Type(b, Rune(p).c)]
        /\ First(b, r) = [n |-> Rune(r).n, box |-> Type(b, Rune(r).c)]
    BY <1>2, <1>3, <1>8, FirstIs
  <2>2. Rune(p).n # 0  BY <2>1
  <2>3. Rune(r) = Rune(p)  BY <2>2, RuneStands
  <2>. QED  BY <2>1, <2>3, Zenon
<1>. QED  BY <1>4, <1>5, <1>6, <1>7, <1>8

-----------------------------------------------------------------------------
(* The key loop: f[i] is the box, and what is left, after i keys. *)
Fed(f, s, n) == f = [i \in 0..n |-> IF i = 0 THEN s ELSE Taken(f[i - 1])]

Feeding(f, s, n) ==
  /\ f[0] = s
  /\ \A i \in 0..n : i + 1 \in 0..n => f[i + 1] = Taken(f[i])

LEMMA FedExists ==
  ASSUME NEW s, NEW n \in Nat
  PROVE  \E f : Fed(f, s, n)
<1>. DEFINE G == {k \in Nat : \E f : Fed(f, s, k)}
<1>1. 0 \in G
  <2>. DEFINE h == [i \in 0..0 |-> s]
  <2>1. \A i \in 0..0 : h[i] = IF i = 0 THEN s ELSE Taken(h[i - 1])  BY SMT
  <2>2. h = [i \in 0..0 |-> h[i]]  OBVIOUS
  <2>. HIDE DEF h
  <2>3. Fed(h, s, 0)  BY <2>1, <2>2, Zenon DEF Fed
  <2>. QED  BY <2>3
<1>2. ASSUME NEW k \in G PROVE k + 1 \in G
  <2>1. PICK f : Fed(f, s, k)  OBVIOUS
  <2>2. k \in Nat /\ k + 1 \in Nat  BY SMT
  <2>. DEFINE g == [i \in 0..k |-> IF i = 0 THEN s ELSE Taken(f[i - 1])]
              h == [i \in 0..(k + 1) |-> IF i \in 0..k THEN f[i] ELSE Taken(f[k])]
  <2>3. f = g  BY <2>1 DEF Fed
  <2>4. \A i \in 0..k : g[i] = IF i = 0 THEN s ELSE Taken(f[i - 1])  OBVIOUS
  <2>. HIDE DEF g
  <2>5. \A i \in 0..k : f[i] = IF i = 0 THEN s ELSE Taken(f[i - 1])  BY <2>3, <2>4, Zenon
  <2>6. \A i \in 0..(k + 1) : h[i] = IF i \in 0..k THEN f[i] ELSE Taken(f[k])  OBVIOUS
  <2>7. h = [i \in 0..(k + 1) |-> h[i]]  OBVIOUS
  <2>. HIDE DEF h
  <2>8. ASSUME NEW i \in 0..(k + 1) PROVE h[i] = IF i = 0 THEN s ELSE Taken(h[i - 1])
    <3>1. CASE i = 0
      <4>1. 0 \in 0..k  BY <2>2, SMT
      <4>. QED  BY <2>5, <2>6, <3>1, <4>1, Zenon
    <3>2. CASE i # 0 /\ i \in 0..k
      <4>1. i - 1 \in 0..k /\ i - 1 \in 0..(k + 1)  BY <2>2, <3>2, SMT
      <4>2. h[i - 1] = f[i - 1]  BY <2>6, <4>1, Zenon
      <4>3. h[i] = f[i]  BY <2>6, <3>2, Zenon
      <4>. QED  BY <2>5, <3>2, <4>2, <4>3, Zenon
    <3>3. CASE i \notin 0..k
      <4>1. i # 0 /\ i - 1 = k /\ k \in 0..k /\ k \in 0..(k + 1)  BY <2>2, <2>8, <3>3, SMT
      <4>2. h[k] = f[k] /\ h[i] = Taken(f[k])  BY <2>6, <3>3, <4>1, Zenon
      <4>. QED  BY <4>1, <4>2, Zenon
    <3>. QED  BY <3>1, <3>2, <3>3
  <2>9. Fed(h, s, k + 1)  BY <2>7, <2>8, Zenon DEF Fed
  <2>. QED  BY <2>2, <2>9
<1>3. G = Nat
  <2>. HIDE DEF G
  <2>1. G \in SUBSET Nat  BY DEF G
  <2>. QED  BY <1>1, <1>2, <2>1, AllNaturals
<1>. QED  BY <1>3, Zenon

LEMMA FeedIs ==
  ASSUME NEW b, NEW p, Len(p) \in Nat
  PROVE  \E f : Feeding(f, [box |-> b, rest |-> p], Len(p)) /\ Feed(b, p) = f[Len(p)]
<1>. DEFINE n == Len(p)
            s == [box |-> b, rest |-> p]
            F == CHOOSE f : Fed(f, s, n)
<1>1. Fed(F, s, n)  BY FedExists, Zenon
<1>2. Feed(b, p) = F[n]  BY Zenon DEF Feed, Fed
<1>. HIDE DEF F, s
<1>3. Feeding(F, s, n)
  <2>. HIDE DEF n
  <2>0. n \in Nat  BY DEF n
  <2>. DEFINE h == [i \in 0..n |-> IF i = 0 THEN s ELSE Taken(F[i - 1])]
  <2>1. F = h  BY <1>1 DEF Fed
  <2>2. \A i \in 0..n : h[i] = IF i = 0 THEN s ELSE Taken(F[i - 1])  OBVIOUS
  <2>. HIDE DEF h
  <2>3. 0 \in 0..n  BY <2>0, SMT
  <2>4. \A i \in 0..n : i + 1 # 0 /\ i + 1 - 1 = i  BY <2>0, SMT
  <2>5. F[0] = s  BY <2>1, <2>2, <2>3, Zenon
  <2>6. ASSUME NEW i \in 0..n, i + 1 \in 0..n PROVE F[i + 1] = Taken(F[i])
    <3>1. h[i + 1] = IF i + 1 = 0 THEN s ELSE Taken(F[i + 1 - 1])  BY <2>2, <2>6
    <3>2. i + 1 # 0 /\ i + 1 - 1 = i  BY <2>4, Zenon
    <3>. QED  BY <2>1, <3>1, <3>2, Zenon
  <2>. QED  BY <2>5, <2>6, Zenon DEF Feeding
<1>. QED  BY <1>2, <1>3, Zenon DEF s

(* Where no key is complete, none is taken. *)
LEMMA StaysPut ==
  ASSUME NEW f, NEW s, NEW n \in Nat, Feeding(f, s, n), NEW m \in 0..n, Taken(f[m]) = f[m]
  PROVE  f[n] = f[m]
<1>. DEFINE G == {k \in Nat : m + k \in 0..n => f[m + k] = f[m]}
<1>0. m \in Nat /\ m + 0 = m  BY SMT
<1>1. 0 \in G  BY <1>0
<1>2. ASSUME NEW k \in G PROVE k + 1 \in G
  <2>1. k \in Nat /\ k + 1 \in Nat /\ m + (k + 1) = (m + k) + 1  BY <1>0, SMT
  <2>2. ASSUME (m + k) + 1 \in 0..n PROVE f[(m + k) + 1] = f[m]
    <3>1. m + k \in 0..n  BY <1>0, <2>1, <2>2, SMT
    <3>2. f[m + k] = f[m]  BY <3>1
    <3>. HIDE DEF G
    <3>3. f[(m + k) + 1] = Taken(f[m + k])  BY <2>2, <3>1, Zenon DEF Feeding
    <3>. QED  BY <3>2, <3>3
  <2>. QED  BY <2>1, <2>2
<1>3. G = Nat
  <2>. HIDE DEF G
  <2>1. G \in SUBSET Nat  BY DEF G
  <2>. QED  BY <1>1, <1>2, <2>1, AllNaturals
<1>4. n - m \in Nat /\ m + (n - m) = n /\ n \in 0..n  BY <1>0, SMT
<1>5. n - m \in G  BY <1>3, <1>4
<1>. QED  BY <1>4, <1>5, Zenon

(* Each key takes a byte at least. *)
Whole(t) == t.rest = <<>> \/ First(t.box, t.rest).n = 0

LEMMA NoneTaken == \A t : Whole(t) => Taken(t) = t
BY Zenon DEF Whole, Taken

LEMMA TakenIs ==
  ASSUME NEW T, NEW t, t.rest \in Seq(T), ~Whole(t)
  PROVE  /\ First(t.box, t.rest).n \in 1..Len(t.rest)
         /\ Taken(t).rest \in Seq(T) /\ Len(Taken(t).rest) = Len(t.rest) - First(t.box, t.rest).n
         /\ Taken(t).rest = SubSeq(t.rest, First(t.box, t.rest).n + 1, Len(t.rest))
         /\ Taken(t) = [box |-> First(t.box, t.rest).box, rest |-> Taken(t).rest]
<1>. DEFINE p == t.rest
            m == First(t.box, p).n
            l == Len(p)
            q == SubSeq(p, m + 1, l)
<1>1. p # <<>> /\ m # 0  BY Zenon DEF Whole
<1>2. Taken(t) = [box |-> First(t.box, p).box, rest |-> q]  BY <1>1, Zenon DEF Taken
<1>3. l \in Nat \ {0}
  <2>1. l \in Nat  BY LenProperties
  <2>. QED  BY <1>1, <2>1, EmptySeq
<1>4. m \in Nat /\ m <= l  BY <1>3, FirstTakes
<1>5. Taken(t).rest = q
  <2>. DEFINE u == Taken(t)
  <2>. HIDE DEF u, q
  <2>1. u = [box |-> First(t.box, p).box, rest |-> q]  BY <1>2 DEF u
  <2>2. u.rest = q  BY <2>1
  <2>. QED  BY <2>2 DEF u
<1>. HIDE DEF m, l
<1>6. m \in 1..l /\ m + 1 \in 1..(l + 1) /\ l - (m + 1) + 1 = l - m  BY <1>1, <1>3, <1>4, SMT
<1>7. q \in Seq(T) /\ Len(q) = IF m + 1 <= l THEN l - (m + 1) + 1 ELSE 0
  BY <1>3, <1>6, SubSeqProperties DEF l
<1>8. Len(q) = l - m  BY <1>3, <1>4, <1>6, <1>7, SMT
<1>. QED  BY <1>2, <1>5, <1>6, <1>7, <1>8 DEF m, l

(* In i keys all is read that is complete, or i bytes are. *)
LEMMA FeedWhole ==
  ASSUME NEW T, NEW b, NEW p \in Seq(T)
  PROVE  Whole(Feed(b, p)) /\ Feed(b, p).rest \in Seq(T)
         /\ Feed(b, p) = [box |-> Feed(b, p).box, rest |-> Feed(b, p).rest]
<1>. DEFINE n == Len(p)
            s == [box |-> b, rest |-> p]
<1>0. n \in Nat  BY LenProperties
<1>1. PICK f : Feeding(f, s, n) /\ Feed(b, p) = f[n]  BY <1>0, FeedIs
<1>. DEFINE Good(t) == t.rest \in Seq(T) /\ t = [box |-> t.box, rest |-> t.rest]
            G == {k \in Nat : k \in 0..n => Good(f[k]) /\ (Whole(f[k]) \/ Len(f[k].rest) <= n - k)}
<1>2. 0 \in G
  <2>1. f[0] = s  BY <1>1, Zenon DEF Feeding
  <2>2. s.rest = p /\ Good(s)  OBVIOUS
  <2>3. Len(s.rest) <= n - 0  BY <1>0, <2>2, SMT
  <2>. HIDE DEF s, Good
  <2>. QED  BY <2>1, <2>2, <2>3
<1>3. ASSUME NEW k \in G PROVE k + 1 \in G
  <2>1. k \in Nat /\ k + 1 \in Nat  BY SMT
  <2>2. ASSUME k + 1 \in 0..n
        PROVE  Good(f[k + 1]) /\ (Whole(f[k + 1]) \/ Len(f[k + 1].rest) <= n - (k + 1))
    <3>1. k \in 0..n  BY <1>0, <2>1, <2>2, SMT
    <3>2. Good(f[k]) /\ (Whole(f[k]) \/ Len(f[k].rest) <= n - k)  BY <3>1
    <3>. HIDE DEF G
    <3>3. f[k + 1] = Taken(f[k])  BY <1>1, <2>2, <3>1, Zenon DEF Feeding
    <3>5. CASE Whole(f[k])
      <4>1. Taken(f[k]) = f[k]  BY <3>5, NoneTaken
      <4>. HIDE DEF Good
      <4>. QED  BY <3>2, <3>3, <3>5, <4>1, Zenon
    <3>6. CASE ~Whole(f[k])
      <4>. DEFINE t == f[k]
                  u == Taken(t)
                  l == Len(t.rest)
                  m == First(t.box, t.rest).n
      <4>. HIDE DEF t
      <4>1. t.rest \in Seq(T) /\ ~Whole(t) /\ l <= n - k  BY <3>2, <3>6 DEF t
      <4>2. m \in 1..l /\ u.rest \in Seq(T) /\ Len(u.rest) = l - m
            /\ u = [box |-> First(t.box, t.rest).box, rest |-> u.rest]
        BY <4>1, TakenIs
      <4>3. Good(u)
        <5>1. u.box = First(t.box, t.rest).box  BY <4>2
        <5>. QED  BY <4>2, <5>1
      <4>4. l \in Nat  BY <4>1, LenProperties
      <4>. HIDE DEF Good, u, l, m
      <4>5. Len(u.rest) <= n - (k + 1)  BY <1>0, <2>1, <4>1, <4>2, <4>4, SMT
      <4>6. f[k + 1] = u  BY <3>3 DEF u, t
      <4>. QED  BY <4>3, <4>5, <4>6
    <3>. QED  BY <3>5, <3>6
  <2>. QED  BY <2>1, <2>2
<1>4. G = Nat
  <2>. HIDE DEF G
  <2>1. G \in SUBSET Nat  BY DEF G
  <2>. QED  BY <1>2, <1>3, <2>1, AllNaturals
<1>5. n \in G /\ n \in 0..n  BY <1>0, <1>4
<1>6. Good(f[n]) /\ (Whole(f[n]) \/ Len(f[n].rest) <= n - n)  BY <1>5
<1>7. Whole(f[n])
  <2>1. CASE Len(f[n].rest) <= n - n
    <3>1. Len(f[n].rest) \in Nat  BY <1>6, LenProperties
    <3>2. Len(f[n].rest) = 0  BY <1>0, <2>1, <3>1, SMT
    <3>3. f[n].rest = <<>>  BY <1>6, <3>2, EmptySeq
    <3>. QED  BY <3>3, Zenon DEF Whole
  <2>. QED  BY <1>6, <2>1
<1>. QED  BY <1>1, <1>6, <1>7

(* Nothing is complete yet. *)
LEMMA FeedWaits ==
  ASSUME NEW T, NEW b, NEW p \in Seq(T), p = <<>> \/ First(b, p).n = 0
  PROVE  Feed(b, p) = [box |-> b, rest |-> p]
<1>. DEFINE n == Len(p)
            s == [box |-> b, rest |-> p]
<1>0. n \in Nat /\ 0 \in 0..n
  <2>1. n \in Nat  BY LenProperties
  <2>. QED  BY <2>1, SMT
<1>1. PICK f : Feeding(f, s, n) /\ Feed(b, p) = f[n]  BY <1>0, FeedIs
<1>2. Whole(s)
  <2>1. s.box = b /\ s.rest = p  OBVIOUS
  <2>. QED  BY <2>1, Zenon DEF Whole
<1>3. Taken(s) = s  BY <1>2, NoneTaken
<1>. HIDE DEF s, n
<1>4. f[0] = s  BY <1>1, Zenon DEF Feeding
<1>5. Taken(f[0]) = f[0]  BY <1>3, <1>4
<1>6. f[n] = f[0]  BY <1>0, <1>1, <1>5, StaysPut
<1>. QED  BY <1>1, <1>4, <1>6 DEF s

(* One key is, and the others follow. *)
LEMMA FeedOn ==
  ASSUME NEW T, NEW b, NEW p \in Seq(T), p # <<>>, First(b, p).n # 0
  PROVE  LET m == First(b, p).n q == SubSeq(p, m + 1, Len(p)) IN
         /\ m \in 1..Len(p) /\ q \in Seq(T) /\ Len(q) = Len(p) - m
         /\ Feed(b, p) = Feed(First(b, p).box, q)
<1>. DEFINE n == Len(p)
            s == [box |-> b, rest |-> p]
            m == First(b, p).n
            q == SubSeq(p, m + 1, n)
            d == First(b, p).box
            t == [box |-> d, rest |-> q]
            l == Len(q)
<1>0. n \in Nat  BY LenProperties
<1>1. ~Whole(s)
  <2>1. s.box = b /\ s.rest = p  OBVIOUS
  <2>. QED  BY <2>1, Zenon DEF Whole
<1>2. m \in 1..n /\ q \in Seq(T) /\ l = n - m /\ Taken(s) = t
  <2>1. s.box = b /\ s.rest = p  OBVIOUS
  <2>. HIDE DEF s
  <2>2. /\ m \in 1..n /\ Taken(s).rest \in Seq(T) /\ Len(Taken(s).rest) = n - m
        /\ Taken(s).rest = q /\ Taken(s) = [box |-> d, rest |-> Taken(s).rest]
    BY <1>1, <2>1, TakenIs
  <2>. QED  BY <2>2, Zenon
<1>3. PICK f : Feeding(f, s, n) /\ Feed(b, p) = f[n]  BY <1>0, FeedIs
<1>4. l \in Nat /\ l + 1 <= n /\ l + 1 \in 0..n  BY <1>0, <1>2, SMT
<1>5. PICK g : Feeding(g, t, l) /\ Feed(d, q) = g[l]  BY <1>4, FeedIs
<1>6. Whole(g[l]) /\ Taken(g[l]) = g[l]
  <2>1. Whole(Feed(d, q)) /\ Feed(d, q).rest \in Seq(T)
        /\ Feed(d, q) = [box |-> Feed(d, q).box, rest |-> Feed(d, q).rest]
    BY <1>2, FeedWhole
  <2>. DEFINE e == Feed(d, q)
  <2>. HIDE DEF e
  <2>2. Whole(e) /\ e.rest \in Seq(T) /\ e = [box |-> e.box, rest |-> e.rest]  BY <2>1 DEF e
  <2>3. Taken(e) = e  BY <2>2, NoneTaken
  <2>. QED  BY <1>5, <2>2, <2>3 DEF e
<1>. HIDE DEF n, s, m, q, d, t, l
<1>. DEFINE G == {k \in Nat : k \in 0..l => f[k + 1] = g[k]}
<1>7. 0 \in G
  <2>1. 0 + 1 \in 0..n /\ 0 \in 0..n  BY <1>0, <1>4, SMT
  <2>2. f[0] = s /\ f[0 + 1] = Taken(f[0]) /\ g[0] = t  BY <1>3, <1>5, <2>1, Zenon DEF Feeding
  <2>. QED  BY <1>2, <2>2
<1>8. ASSUME NEW k \in G PROVE k + 1 \in G
  <2>1. k \in Nat /\ k + 1 \in Nat  BY SMT
  <2>2. ASSUME k + 1 \in 0..l PROVE f[(k + 1) + 1] = g[k + 1]
    <3>1. k \in 0..l /\ k + 1 \in 0..n /\ (k + 1) + 1 \in 0..n  BY <1>0, <1>4, <2>1, <2>2, SMT
    <3>2. f[k + 1] = g[k]  BY <3>1
    <3>. HIDE DEF G
    <3>3. f[(k + 1) + 1] = Taken(f[k + 1]) /\ g[k + 1] = Taken(g[k])
      BY <1>3, <1>5, <2>2, <3>1, Zenon DEF Feeding
    <3>. QED  BY <3>2, <3>3
  <2>. QED  BY <2>1, <2>2
<1>9. G = Nat
  <2>. HIDE DEF G
  <2>1. G \in SUBSET Nat  BY DEF G
  <2>. QED  BY <1>7, <1>8, <2>1, AllNaturals
<1>10. l \in G /\ l \in 0..l  BY <1>4, <1>9
<1>11. f[l + 1] = g[l]  BY <1>10
<1>. HIDE DEF G
<1>12. Taken(f[l + 1]) = f[l + 1]  BY <1>6, <1>11
<1>13. f[n] = f[l + 1]  BY <1>0, <1>3, <1>4, <1>12, StaysPut
<1>14. Feed(b, p) = Feed(d, q)  BY <1>3, <1>5, <1>11, <1>13
<1>. QED  BY <1>2, <1>14 DEF n, m, q, d, l

(* Bytes behind others: a prefix, and what is left once m of them are taken. *)
Past(T, p, q, m) ==
  /\ Onward(p, p \o q) /\ p \o q \in Seq(T) /\ Len(p \o q) = Len(p) + Len(q)
  /\ SubSeq(p \o q, m + 1, Len(p \o q)) = SubSeq(p, m + 1, Len(p)) \o q
  /\ SubSeq(p, m + 1, Len(p)) \in Seq(T) /\ Len(SubSeq(p, m + 1, Len(p))) = Len(p) - m
  /\ \A i \in 1..(Len(p) - m) : SubSeq(p, m + 1, Len(p))[i] = p[m + i]

LEMMA BytesBehind ==
  ASSUME NEW T, NEW p \in Seq(T), NEW q \in Seq(T), NEW m \in 0..Len(p)
  PROVE  Past(T, p, q, m)
<1>. DEFINE l == Len(p)
            k == Len(q)
            r == p \o q
            n == Len(r)
            a == SubSeq(p, m + 1, l)
            c == SubSeq(r, m + 1, n)
            d == a \o q
<1>1. l \in Nat /\ k \in Nat  BY LenProperties
<1>2. r \in Seq(T) /\ n = l + k /\ (\A i \in 1..l : r[i] = p[i]) /\ (\A i \in 1..k : r[l + i] = q[i])
  BY ConcatProperties
<1>. HIDE DEF r, n, l, k
<1>3. m \in Nat /\ m <= l /\ m + 1 \in Int /\ l - (m + 1) + 1 = l - m /\ n - (m + 1) + 1 = n - m /\ n \in Nat
  BY <1>1, <1>2, SMT DEF l
<1>4. (\A i \in (m + 1)..l : p[i] \in T) /\ (\A i \in (m + 1)..n : r[i] \in T)
  <2>1. (\A i \in (m + 1)..l : i \in 1..l) /\ (\A i \in (m + 1)..n : i \in 1..n)  BY <1>1, <1>3, SMT
  <2>2. (\A i \in 1..l : p[i] \in T) /\ (\A i \in 1..n : r[i] \in T)  BY <1>2, ElementOfSeq DEF l, n
  <2>. QED  BY <2>1, <2>2, Zenon
<1>5. /\ a \in Seq(T) /\ Len(a) = IF m + 1 <= l THEN l - (m + 1) + 1 ELSE 0
      /\ \A i \in 1..l - (m + 1) + 1 : a[i] = p[m + 1 + i - 1]
  BY <1>1, <1>3, <1>4, SubSeqProperties
<1>6. /\ c \in Seq(T) /\ Len(c) = IF m + 1 <= n THEN n - (m + 1) + 1 ELSE 0
      /\ \A i \in 1..n - (m + 1) + 1 : c[i] = r[m + 1 + i - 1]
  BY <1>3, <1>4, SubSeqProperties
<1>. HIDE DEF a, c
<1>7. Len(a) = l - m /\ Len(c) = n - m  BY <1>1, <1>2, <1>3, <1>5, <1>6, SMT
<1>8. \A i \in Nat : m + 1 + i - 1 = m + i  BY <1>3, SMT
<1>9. \A i \in 1..(l - m) : i \in Nat /\ m + i \in 1..l  BY <1>1, <1>3, SMT
<1>10. \A i \in 1..(l - m) : a[i] = p[m + i]  BY <1>3, <1>5, <1>8, <1>9, Zenon
<1>11. /\ d \in Seq(T) /\ Len(d) = (l - m) + k /\ (\A i \in 1..(l - m) : d[i] = a[i])
       /\ \A i \in 1..k : d[(l - m) + i] = q[i]
  <2>1. /\ a \o q \in Seq(T) /\ Len(a \o q) = Len(a) + Len(q)
        /\ (\A i \in 1..Len(a) : (a \o q)[i] = a[i])
        /\ \A i \in 1..Len(q) : (a \o q)[Len(a) + i] = q[i]
    <3>1. a \in Seq(T)  BY <1>5
    <3>. QED  BY <3>1, ConcatProperties
  <2>. QED  BY <1>7, <2>1, Zenon DEF k, d
<1>. HIDE DEF d
<1>12. Len(c) = Len(d)  BY <1>1, <1>2, <1>3, <1>7, <1>11, SMT
<1>13. ASSUME NEW i \in 1..Len(c) PROVE c[i] = d[i]
  <2>1. i \in 1..(n - m) /\ i \in Nat  BY <1>7, SMT
  <2>2. c[i] = r[m + i]  BY <1>3, <1>6, <1>8, <2>1, Zenon
  <2>3. CASE i <= l - m
    <3>1. i \in 1..(l - m)  BY <1>1, <1>3, <2>1, <2>3, SMT
    <3>2. d[i] = p[m + i] /\ r[m + i] = p[m + i]  BY <1>2, <1>9, <1>10, <1>11, <3>1, Zenon
    <3>. QED  BY <2>2, <3>2
  <2>4. CASE ~(i <= l - m)
    <3>. DEFINE j == i - (l - m)
    <3>1. j \in 1..k /\ (l - m) + j = i /\ l + j = m + i  BY <1>1, <1>2, <1>3, <2>1, <2>4, SMT
    <3>. HIDE DEF j
    <3>2. d[(l - m) + j] = q[j] /\ r[l + j] = q[j]  BY <1>2, <1>11, <3>1, Zenon
    <3>. QED  BY <2>2, <3>1, <3>2
  <2>. QED  BY <2>3, <2>4
<1>14. c = d  BY <1>6, <1>11, <1>12, <1>13, SeqEqual, Zenon
<1>15. Onward(p, r)
  <2>1. l <= n  BY <1>1, <1>2, SMT
  <2>. QED  BY <1>1, <1>2, <1>3, <2>1, Zenon DEF Onward, l, n
<1>. QED  BY <1>2, <1>5, <1>7, <1>10, <1>14, <1>15 DEF Past, l, k, r, n, a, c, d

(* A read cut in two between p and q: the two do what the one would. *)
Alike(b, p, q) == Feed(b, p \o q) = Reading(Feed(b, p), q)

(* Where p's bytes are no key yet, or none, they wait. *)
LEMMA WaitsAlike ==
  ASSUME NEW T, NEW p \in Seq(T), NEW q \in Seq(T), NEW b, p = <<>> \/ First(b, p).n = 0
  PROVE  Alike(b, p, q)
<1>1. Feed(b, p) = [box |-> b, rest |-> p]  BY FeedWaits
<1>2. Feed(b, p).box = b /\ Feed(b, p).rest = p  BY <1>1
<1>. QED  BY <1>2, Zenon DEF Alike, Reading

(* Where p starts with a key, q can be cut off if it can behind that key. *)
LEMMA KeyAlike ==
  ASSUME NEW T, NEW p \in Seq(T), NEW q \in Seq(T), NEW b, p # <<>>, First(b, p).n # 0,
         ~Parted(b, p, p \o q),
         Alike(First(b, p).box, SubSeq(p, First(b, p).n + 1, Len(p)), q)
  PROVE  Alike(b, p, q)
<1>. DEFINE r == p \o q
            m == First(b, p).n
            e == First(b, p).box
            u == SubSeq(p, m + 1, Len(p))
<1>1. m \in 1..Len(p) /\ Feed(b, p) = Feed(e, u)  BY FeedOn
<1>2. Len(p) \in Nat \ {0} /\ Len(q) \in Nat
  <2>1. Len(p) \in Nat /\ Len(q) \in Nat  BY LenProperties
  <2>. QED  BY <2>1, EmptySeq
<1>. HIDE DEF m, r
<1>3. m \in 0..Len(p)  BY <1>1, <1>2, SMT
<1>4. /\ Onward(p, r) /\ r \in Seq(T) /\ Len(r) = Len(p) + Len(q)
      /\ SubSeq(r, m + 1, Len(r)) = u \o q
  <2>1. Past(T, p, q, m)  BY <1>3, BytesBehind
  <2>. QED  BY <2>1, Zenon DEF Past, r, u
<1>5. First(b, r) = First(b, p)
  <2>1. Len(p) # 0 /\ ~Parted(b, p, r)  BY <1>2 DEF r
  <2>. QED  BY <1>4, <2>1, FirstStands, Zenon
<1>6. r # <<>>
  <2>1. Len(<<>>) = 0  OBVIOUS
  <2>2. Len(r) # 0  BY <1>2, <1>4, SMT
  <2>. QED  BY <2>1, <2>2
<1>7. Feed(b, r) = Feed(e, u \o q)
  <2>1. First(b, r).n = m /\ First(b, r).box = e /\ First(b, r).n # 0  BY <1>5 DEF m
  <2>. HIDE DEF e
  <2>2. r \in Seq(T)  BY <1>4
  <2>3. Feed(b, r) = Feed(First(b, r).box, SubSeq(r, First(b, r).n + 1, Len(r)))
    BY <1>6, <2>1, <2>2, FeedOn
  <2>. QED  BY <1>4, <2>1, <2>3, Zenon
<1>8. Alike(e, u, q)  BY DEF m
<1>. HIDE DEF e, u
<1>. QED  BY <1>1, <1>7, <1>8, Zenon DEF Alike, Reading, r

(* A CR and, behind it, a LF. *)
Sundered(p, q) == p # <<>> /\ p[Len(p)] = "\r" /\ q # <<>> /\ q[1] = "\n"

(* However the bytes of a terminal are cut into reads, but between a CR and a LF,
   the box and the bytes that wait are the same as if they had come at once:
   what a read leaves over, and what the next one brings, are keys, pastes and
   runes as they would have been (keys.go, feed).                            *)
THEOREM CutsDoNotMatter ==
  ASSUME NEW T, NEW p \in Seq(T), NEW q \in Seq(T), NEW b, ~Sundered(p, q)
  PROVE  Alike(b, p, q)
<1>. DEFINE G == {k \in Nat : \A s \in Seq(T) : Len(s) <= k /\ ~Sundered(s, q) => \A c : Alike(c, s, q)}
<1>1. 0 \in G
  <2>1. ASSUME NEW s \in Seq(T), Len(s) <= 0 PROVE s = <<>>
    <3>1. Len(s) \in Nat  BY LenProperties
    <3>2. Len(s) = 0  BY <2>1, <3>1, SMT
    <3>. QED  BY <3>2, EmptySeq
  <2>. QED  BY <2>1, WaitsAlike
<1>2. ASSUME NEW k \in G PROVE k + 1 \in G
  <2>1. k \in Nat /\ k + 1 \in Nat  BY SMT
  <2>2. ASSUME NEW s \in Seq(T), Len(s) <= k + 1, ~Sundered(s, q), NEW c, s # <<>>, First(c, s).n # 0
        PROVE  Alike(c, s, q)
    <3>. DEFINE m == First(c, s).n
                e == First(c, s).box
                u == SubSeq(s, m + 1, Len(s))
    <3>1. m \in 1..Len(s) /\ u \in Seq(T) /\ Len(u) = Len(s) - m  BY <2>2, FeedOn
    <3>2. Len(s) \in Nat \ {0} /\ Len(q) \in Nat
      <4>1. Len(s) \in Nat /\ Len(q) \in Nat  BY LenProperties
      <4>. QED  BY <2>2, <4>1, EmptySeq
    <3>3. ~Parted(c, s, s \o q)
      <4>1. SUFFICES ASSUME Len(s) = 1, s[1] = "\r", Len(s \o q) > 1, (s \o q)[2] = "\n" PROVE FALSE
        BY Zenon DEF Parted
      <4>2. Len(s \o q) = Len(s) + Len(q)  BY ConcatProperties
      <4>3. Len(q) # 0 /\ 1 \in 1..Len(q) /\ Len(s) + 1 = 2  BY <3>2, <4>1, <4>2, SMT
      <4>4. (s \o q)[Len(s) + 1] = q[1]  BY <4>3, ConcatProperties
      <4>5. q # <<>>
        <5>1. Len(<<>>) = 0  OBVIOUS
        <5>. QED  BY <4>3, <5>1
      <4>6. q[1] = "\n"  BY <4>1, <4>3, <4>4
      <4>. QED  BY <2>2, <4>1, <4>5, <4>6, Zenon DEF Sundered
    <3>. HIDE DEF m
    <3>4. m \in 0..Len(s)  BY <3>1, <3>2, SMT
    <3>5. \A i \in 1..(Len(s) - m) : u[i] = s[m + i]
      <4>1. Past(T, s, q, m)  BY <3>4, BytesBehind
      <4>. QED  BY <4>1, Zenon DEF Past, u
    <3>6. ~Sundered(u, q)
      <4>1. SUFFICES ASSUME u # <<>>, u[Len(u)] = "\r" PROVE s[Len(s)] = "\r"
        BY <2>2, Zenon DEF Sundered
      <4>2. Len(u) \in Nat /\ Len(u) # 0  BY <3>1, <4>1, LenProperties, EmptySeq
      <4>. DEFINE v == Len(u)
      <4>3. v \in 1..(Len(s) - m) /\ m + v = Len(s)  BY <3>1, <3>2, <3>4, <4>2, SMT
      <4>4. u[v] = s[m + v]  BY <3>5, <4>3, Zenon
      <4>. QED  BY <4>1, <4>3, <4>4
    <3>7. Len(u) <= k  BY <2>1, <2>2, <3>1, <3>2, <3>4, SMT
    <3>8. Alike(e, u, q)  BY <3>1, <3>6, <3>7, Zenon
    <3>. QED  BY <2>2, <3>3, <3>8, KeyAlike DEF m
  <2>3. ASSUME NEW s \in Seq(T), Len(s) <= k + 1, ~Sundered(s, q), NEW c PROVE Alike(c, s, q)
    BY <2>2, <2>3, WaitsAlike
  <2>. QED  BY <2>1, <2>3, Zenon
<1>3. G = Nat
  <2>. HIDE DEF G
  <2>1. G \in SUBSET Nat  BY DEF G
  <2>. QED  BY <1>1, <1>2, <2>1, AllNaturals
<1>4. Len(p) \in Nat /\ Len(p) <= Len(p)
  <2>1. Len(p) \in Nat  BY LenProperties
  <2>. QED  BY <2>1, SMT
<1>5. Len(p) \in G  BY <1>3, <1>4
<1>. QED  BY <1>4, <1>5, Zenon

Keys == {"paste", "pasted", "up", "down", "left", "right", "home", "end", "delete", "word left",
         "word right", "kill word", "newline", "none"}

LEMMA HistoryKeeps == \A b, step : DOMAIN History(b, step) = DOMAIN b
BY Zenon DEF History

(* Whatever a key does to the box, it stays a box. *)
LEMMA KeyKeeps ==
  ASSUME NEW b, NEW key \in Keys
  PROVE  DOMAIN Key(b, key) = DOMAIN b
<1>. DEFINE Same(d) == DOMAIN d = DOMAIN b
<1>1. Same(History(b, -1)) /\ Same(History(b, 1))  BY HistoryKeeps
<1>2. \A x : Same([b EXCEPT !.pasting = x]) /\ Same([b EXCEPT !.draft = x])  OBVIOUS
<1>. HIDE DEF Same
<1>3. Same(b)  BY DEF Same
<1>4. Same(Key(b, key))  BY <1>1, <1>2, <1>3 DEF Key, Keys
<1>. QED  BY <1>4 DEF Same

LEMMA EnterKeeps == \A b : DOMAIN Enter(b) = DOMAIN b
BY Zenon DEF Enter

LEMMA ControlKeeps ==
  ASSUME NEW b, NEW c \in Controls
  PROVE  DOMAIN Control(b, c) = DOMAIN b
<1>. DEFINE Same(d) == DOMAIN d = DOMAIN b
<1>1. \A k \in Keys : Same(Key(b, k))  BY KeyKeeps
<1>2. /\ Same(Key(b, "home")) /\ Same(Key(b, "end")) /\ Same(Key(b, "left")) /\ Same(Key(b, "delete")) /\ Same(Key(b, "right"))
      /\ Same(Key(b, "newline")) /\ Same(Key(b, "down")) /\ Same(Key(b, "up")) /\ Same(Key(b, "kill word"))
  BY <1>1 DEF Keys
<1>3. /\ Same([b EXCEPT !.draft = Backspace(@)]) /\ Same([b EXCEPT !.draft = Cut(@, 0, b.draft.at)])
      /\ Same([b EXCEPT !.draft.r = SubSeq(@, 1, b.draft.at)])
  BY Zenon
<1>4. Same(Clear(b))  BY Zenon DEF Clear
<1>5. Same(Tab(b))  BY Zenon DEF Tab
<1>6. Same(Enter(b))  BY EnterKeeps
<1>. HIDE DEF Same
<1>7. Same(Control(b, c))  BY <1>2, <1>3, <1>4, <1>5, <1>6 DEF Control, Controls
<1>. QED  BY <1>7 DEF Same

LEMMA EscIsKey == \A p : EscKey(p).key \in Keys
<1>1. \A n : \A k \in Keys : Esc(n, k).key \in Keys  BY DEF Esc
<1>2. \A x, y : CsiKey(x, y) \in Keys  BY DEF CsiKey, Keys
<1>3. /\ "none" \in Keys /\ "kill word" \in Keys /\ "newline" \in Keys /\ "word left" \in Keys
      /\ "word right" \in Keys
  BY DEF Keys
<1>4. \A p : Csi(p).key \in Keys  BY <1>1, <1>2, <1>3, Zenon DEF Csi
<1>. TAKE p
<1>5. CASE Len(p) < 2  BY <1>1, <1>3, <1>5 DEF EscKey
<1>6. CASE ~(Len(p) < 2) /\ p[2] = "["  BY <1>4, <1>6 DEF EscKey
<1>7. CASE ~(Len(p) < 2) /\ p[2] = "O"
  <2>1. EscKey(p) = IF Len(p) < 3 THEN Esc(0, "none") ELSE Esc(3, CsiKey("", p[3]))
    BY <1>7 DEF EscKey
  <2>. QED  BY <1>1, <1>2, <1>3, <2>1, Zenon
<1>8. CASE ~(Len(p) < 2) /\ p[2] # "[" /\ p[2] # "O"
  <2>1. \E n : \E k \in Keys : EscKey(p) = Esc(n, k)  BY <1>3, <1>8 DEF EscKey
  <2>. QED  BY <1>1, <2>1, Zenon
<1>. QED  BY <1>5, <1>6, <1>7, <1>8

LEMMA FirstKeeps ==
  ASSUME NEW b, NEW p
  PROVE  DOMAIN First(b, p).box = DOMAIN b
<1>. DEFINE f == First(b, p).box
<1>1. p[1] = "esc" => f = Key(b, EscKey(p).key)  BY FirstIs
<1>2. \A c : DOMAIN Type(b, c) = DOMAIN b  BY DEF Type
<1>3. Pasted(b, p) => f = Type(b, "\n")  BY FirstIs
<1>4. Tabbed(b, p) => f = Type(b, "\t")  BY FirstIs
<1>5. Steered(b, p) => f = IF b.pasting THEN b ELSE Control(b, p[1])  BY FirstIs
<1>6. p[1] # "esc" /\ ~Pasted(b, p) /\ ~Tabbed(b, p) /\ ~Steered(b, p) => f = Type(b, Rune(p).c)
  BY FirstIs
<1>7. Steered(b, p) => p[1] \in Controls  BY DEF Steered
<1>. HIDE DEF f
<1>8. CASE p[1] = "esc"  BY <1>1, <1>8, KeyKeeps, EscIsKey DEF f
<1>9. CASE Steered(b, p)
  <2>1. CASE b.pasting  BY <1>5, <1>9, <2>1 DEF f
  <2>2. CASE ~b.pasting  BY <1>5, <1>7, <1>9, <2>2, ControlKeeps DEF f
  <2>. QED  BY <2>1, <2>2
<1>. QED  BY <1>2, <1>3, <1>4, <1>6, <1>8, <1>9, Zenon DEF f

LEMMA TakenKeeps == \A t : DOMAIN Taken(t).box = DOMAIN t.box
<1>. TAKE t
<1>. DEFINE e == First(t.box, t.rest).box
            q == SubSeq(t.rest, First(t.box, t.rest).n + 1, Len(t.rest))
<1>1. DOMAIN e = DOMAIN t.box  BY FirstKeeps
<1>. HIDE DEF e, q
<1>2. Taken(t) = t \/ Taken(t) = [box |-> e, rest |-> q]  BY Zenon DEF Taken, e, q
<1>3. [box |-> e, rest |-> q].box = e  OBVIOUS
<1>. QED  BY <1>1, <1>2, <1>3, Zenon

LEMMA FeedKeeps ==
  ASSUME NEW T, NEW b, NEW p \in Seq(T)
  PROVE  DOMAIN Feed(b, p).box = DOMAIN b
<1>. DEFINE n == Len(p)
            s == [box |-> b, rest |-> p]
<1>0. n \in Nat /\ n \in 0..n
  <2>1. n \in Nat  BY LenProperties
  <2>. QED  BY <2>1, SMT
<1>1. PICK f : Feeding(f, s, n) /\ Feed(b, p) = f[n]  BY <1>0, FeedIs
<1>2. s.box = b  OBVIOUS
<1>. HIDE DEF s, n
<1>. DEFINE G == {k \in Nat : k \in 0..n => DOMAIN f[k].box = DOMAIN b}
<1>3. 0 \in G
  <2>1. f[0] = s  BY <1>1, Zenon DEF Feeding
  <2>. QED  BY <1>2, <2>1
<1>4. ASSUME NEW k \in G PROVE k + 1 \in G
  <2>1. k \in Nat /\ k + 1 \in Nat  BY SMT
  <2>2. ASSUME k + 1 \in 0..n PROVE DOMAIN f[k + 1].box = DOMAIN b
    <3>1. k \in 0..n  BY <1>0, <2>1, <2>2, SMT
    <3>2. DOMAIN f[k].box = DOMAIN b  BY <3>1
    <3>. HIDE DEF G
    <3>3. f[k + 1] = Taken(f[k])  BY <1>1, <2>2, <3>1, Zenon DEF Feeding
    <3>. QED  BY <3>2, <3>3, TakenKeeps, Zenon
  <2>. QED  BY <2>1, <2>2
<1>5. G = Nat
  <2>. HIDE DEF G
  <2>1. G \in SUBSET Nat  BY DEF G
  <2>. QED  BY <1>3, <1>4, <2>1, AllNaturals
<1>6. n \in G  BY <1>0, <1>5
<1>. QED  BY <1>0, <1>1, <1>6

(* What waits: nothing, the start of an escape sequence, or that of a rune. *)
Incomplete(r) ==
  \/ r = <<>>
  \/ r # <<>> /\ r[1] = "esc" /\ EscKey(r).n = 0
  \/ r # <<>> /\ r[1] = "u1" /\ Len(r) = 1

LEMMA WholeWaits ==
  ASSUME NEW T, NEW b, NEW r \in Seq(T), r # <<>>, First(b, r).n = 0
  PROVE  Incomplete(r)
<1>0. Len(r) \in Nat \ {0}  BY EmptySeq
<1>1. CASE r[1] = "esc"
  <2>1. First(b, r).n = EscKey(r).n  BY <1>1, FirstIs
  <2>. QED  BY <1>1, <2>1, Zenon DEF Incomplete
<1>2. ~Pasted(b, r)
  <2>1. SUFFICES ASSUME Pasted(b, r) PROVE FALSE  OBVIOUS
  <2>2. First(b, r).n = IF r[1] = "\r" /\ Len(r) > 1 /\ r[2] = "\n" THEN 2 ELSE 1  BY <2>1, FirstIs
  <2>. QED  BY <2>2
<1>3. ~(Tabbed(b, r) \/ Steered(b, r))
  <2>1. SUFFICES ASSUME Tabbed(b, r) \/ Steered(b, r) PROVE FALSE  OBVIOUS
  <2>2. First(b, r).n = 1  BY <2>1, FirstIs
  <2>. QED  BY <2>2
<1>4. CASE r[1] # "esc"
  <2>1. First(b, r).n = Rune(r).n  BY <1>2, <1>3, <1>4, FirstIs
  <2>2. r[1] = "u1" /\ Len(r) = 1  BY <1>0, <2>1, RuneTakes
  <2>. QED  BY <2>2, Zenon DEF Incomplete
<1>. QED  BY <1>1, <1>4

(* Where p is one key, nothing of it is left for what follows. *)
LEMMA AllAlike ==
  ASSUME NEW T, NEW p \in Seq(T), NEW q \in Seq(T), NEW b, p # <<>>, First(b, p).n = Len(p),
         ~Parted(b, p, p \o q)
  PROVE  Alike(b, p, q)
<1>. DEFINE m == First(b, p).n
            u == SubSeq(p, m + 1, Len(p))
<1>1. Len(p) \in Nat \ {0}  BY EmptySeq
<1>2. m # 0  BY <1>1
<1>3. u \in Seq(T) /\ Len(u) = Len(p) - m  BY <1>2, FeedOn
<1>. HIDE DEF u
<1>4. Len(u) = 0  BY <1>1, <1>3, SMT
<1>5. u = <<>>  BY <1>3, <1>4, EmptySeq
<1>6. Alike(First(b, p).box, u, q)  BY <1>3, <1>5, WaitsAlike
<1>. QED  BY <1>2, <1>6, KeyAlike DEF u

(* A CR that is not pasted: it is Enter, whatever follows. *)
LEMMA EnterAlike ==
  ASSUME NEW T, NEW p \in Seq(T), NEW q \in Seq(T), NEW b, ~b.pasting, Len(p) = 1, p[1] = "\r"
  PROVE  Alike(b, p, q)
<1>1. "\r" \in Controls  BY DEF Controls
<1>2. Steered(b, p)  BY <1>1, Zenon DEF Steered
<1>3. First(b, p).n = 1  BY <1>2, FirstIs
<1>4. ~Parted(b, p, p \o q)  BY Zenon DEF Parted
<1>5. p # <<>>
  <2>1. Len(<<>>) = 0  OBVIOUS
  <2>2. Len(p) # 0  BY SMT
  <2>. QED  BY <2>1, <2>2
<1>. QED  BY <1>3, <1>4, <1>5, AllAlike

(* Behind the start of an escape sequence it is the end of one, or waits too. *)
LEMMA EscBreak ==
  ASSUME NEW r, NEW p, Onward(r, p), Len(p) = Len(r) + 1, Len(r) # 0, p[Len(p)] = "\r",
         EscKey(r).n = 0
  PROVE  EscKey(p).n \in {0, Len(p)}
<1>0. \A n, k : Esc(n, k).n = n  BY DEF Esc
<1>1. Len(r) \in Nat \ {0} /\ Len(p) \in Nat /\ \A i \in 1..Len(r) : p[i] = r[i]  BY Zenon DEF Onward
<1>2. CASE Len(r) < 2
  <2>1. Len(p) = 2 /\ ~(Len(p) < 2)  BY <1>1, <1>2, SMT
  <2>2. p[2] = "\r"  BY <2>1
  <2>3. EscKey(p) = Esc(2, "newline")  BY <2>1, <2>2 DEF EscKey
  <2>. QED  BY <1>0, <2>1, <2>3, Zenon
<1>3. CASE ~(Len(r) < 2)
  <2>1. 2 \in 1..Len(r) /\ ~(Len(p) < 2) /\ ~(Len(p) < 3)  BY <1>1, <1>3, SMT
  <2>2. p[2] = r[2]  BY <1>1, <2>1, Zenon
  <2>3. CASE r[2] = "["
    <3>1. EscKey(r) = Csi(r) /\ EscKey(p) = Csi(p)  BY <1>3, <2>1, <2>2, <2>3 DEF EscKey
    <3>2. Csis(r) = {}
      <4>1. SUFFICES ASSUME Csis(r) # {} PROVE FALSE  OBVIOUS
      <4>2. PICK i \in Csis(r) : Csi(r) = Esc(i, CsiKey(IF i = 4 THEN r[3] ELSE "", r[i]))
        BY <1>1, <4>1, CsiAt, Zenon
      <4>. DEFINE k == CsiKey(IF i = 4 THEN r[3] ELSE "", r[i])
      <4>. HIDE DEF k
      <4>3. EscKey(r) = Esc(i, k)  BY <3>1, <4>2 DEF k
      <4>4. Esc(i, k).n = i /\ i \in 3..Len(r)  BY <1>0, <4>2, Zenon DEF Csis
      <4>5. i = 0  BY <4>3, <4>4
      <4>. QED  BY <1>1, <4>4, <4>5, SMT
    <3>3. Csis(p) = {}
      <4>1. SUFFICES ASSUME NEW i \in 3..Len(p), Final(p[i]) PROVE FALSE  BY Zenon DEF Csis
      <4>2. ~Final("\r")  BY DEF Final, Controls
      <4>3. i # Len(p)  BY <1>1, <4>1, <4>2
      <4>4. i \in 3..Len(r) /\ i \in 1..Len(r)  BY <1>1, <4>3, SMT
      <4>5. i \in Csis(r)  BY <1>1, <4>1, <4>4, Zenon DEF Csis
      <4>. QED  BY <3>2, <4>5
    <3>4. Csi(p) = Esc(0, "none")  BY <3>3, Zenon DEF Csi, Csis
    <3>5. EscKey(p).n = 0  BY <1>0, <3>1, <3>4, Zenon
    <3>. QED  BY <3>5
  <2>4. CASE r[2] = "O"
    <3>1. EscKey(r) = IF Len(r) < 3 THEN Esc(0, "none") ELSE Esc(3, CsiKey("", r[3]))
      BY <1>3, <2>4 DEF EscKey
    <3>2. EscKey(p) = Esc(3, CsiKey("", p[3]))  BY <2>1, <2>2, <2>4 DEF EscKey
    <3>3. Len(r) < 3
      <4>1. SUFFICES ASSUME ~(Len(r) < 3) PROVE FALSE  OBVIOUS
      <4>2. 0 = 3  BY <1>0, <3>1, <4>1, Zenon
      <4>. QED  BY <4>2, SMT
    <3>4. Len(p) = 3  BY <1>1, <1>3, <3>3, SMT
    <3>5. EscKey(p).n = 3  BY <1>0, <3>2, Zenon
    <3>. QED  BY <3>4, <3>5
  <2>5. CASE r[2] # "[" /\ r[2] # "O"
    <3>1. \E k : EscKey(r) = Esc(1, k) \/ EscKey(r) = Esc(2, k)  BY <1>3, <2>5 DEF EscKey
    <3>2. 0 = 1 \/ 0 = 2  BY <1>0, <3>1, Zenon
    <3>. QED  BY <3>2, SMT
  <2>. QED  BY <2>3, <2>4, <2>5
<1>. QED  BY <1>2, <1>3

(* A CR that is not pasted and a LF, whatever waits: the one case that is left. *)
LEMMA BreakAlike ==
  ASSUME NEW T, NEW r \in Seq(T), Incomplete(r), "\r" \in T, "\n" \in T,
         NEW b, "pasting" \in DOMAIN b, ~b.pasting
  PROVE  Alike(b, r \o <<"\r">>, <<"\n">>)
<1>. DEFINE c == <<"\r">>
            q == <<"\n">>
            p == r \o c
<1>0. c \in Seq(T) /\ q \in Seq(T) /\ Len(c) = 1 /\ c[1] = "\r"  OBVIOUS
<1>1. Len(r) \in Nat  BY LenProperties
<1>. HIDE DEF c, q
<1>2. /\ p \in Seq(T) /\ Len(p) = Len(r) + 1 /\ (\A i \in 1..Len(r) : p[i] = r[i])
      /\ p[Len(r) + 1] = "\r"
  <2>1. c \in Seq(T) /\ 1 \in 1..Len(c)  BY <1>0
  <2>2. /\ r \o c \in Seq(T) /\ Len(r \o c) = Len(r) + Len(c)
        /\ (\A i \in 1..Len(r) : (r \o c)[i] = r[i])
        /\ \A i \in 1..Len(c) : (r \o c)[Len(r) + i] = c[i]
    BY <2>1, ConcatProperties
  <2>. QED  BY <1>0, <2>1, <2>2, Zenon
<1>. HIDE DEF p
<1>3. p # <<>>
  <2>1. Len(<<>>) = 0  OBVIOUS
  <2>2. Len(p) # 0  BY <1>1, <1>2, SMT
  <2>. QED  BY <2>1, <2>2
<1>4. Onward(r, p)
  <2>1. Len(p) \in Nat /\ Len(r) <= Len(p)  BY <1>1, <1>2, SMT
  <2>. QED  BY <1>1, <1>2, <2>1, Zenon DEF Onward
<1>5. ~Parted(b, p, p \o q)  BY Zenon DEF Parted
<1>6. CASE r = <<>>
  <2>1. Len(r) = 0  BY <1>6
  <2>2. Len(p) = 1 /\ Len(r) + 1 = 1  BY <1>2, <2>1, SMT
  <2>. QED  BY <1>0, <1>2, <2>2, EnterAlike DEF p, c, q
<1>7. CASE r # <<>> /\ r[1] = "esc" /\ EscKey(r).n = 0
  <2>1. Len(r) # 0 /\ 1 \in 1..Len(r)
    <3>1. Len(r) \in Nat \ {0}  BY <1>7, EmptySeq
    <3>. QED  BY <3>1, SMT
  <2>2. p[1] = "esc"  BY <1>2, <1>7, <2>1, Zenon
  <2>3. First(b, p).n = EscKey(p).n  BY <2>2, FirstIs
  <2>4. EscKey(p).n \in {0, Len(p)}  BY <1>2, <1>4, <1>7, <2>1, EscBreak
  <2>5. CASE First(b, p).n = 0  BY <1>0, <1>2, <2>5, WaitsAlike DEF p, c, q
  <2>6. CASE First(b, p).n = Len(p)  BY <1>0, <1>2, <1>3, <1>5, <2>6, AllAlike DEF p, c, q
  <2>. QED  BY <2>3, <2>4, <2>5, <2>6
<1>8. CASE r # <<>> /\ r[1] = "u1" /\ Len(r) = 1
  <2>1. Len(p) = 2 /\ Len(r) + 1 = 2 /\ 1 \in 1..Len(r) /\ Len(p) # 1  BY <1>2, <1>8, SMT
  <2>2. p[1] = "u1" /\ p[2] = "\r"  BY <1>2, <1>8, <2>1
  <2>3. "u1" # "esc" /\ "u1" \notin {"\r", "\n"} /\ "u1" # "\t" /\ "u1" \notin Controls  BY DEF Controls
  <2>4. ~Pasted(b, p) /\ ~Tabbed(b, p) /\ ~Steered(b, p)
    BY <2>2, <2>3, Zenon DEF Pasted, Tabbed, Steered
  <2>5. Rune(p) = [n |-> 1, c |-> "?"]
    <3>1. "\r" # "u2"  OBVIOUS
    <3>. QED  BY <2>1, <2>2, <3>1, Zenon DEF Rune
  <2>6. Rune(p).n = 1 /\ Rune(p).c = "?"
    <3>. DEFINE v == Rune(p)
    <3>. HIDE DEF v
    <3>1. v = [n |-> 1, c |-> "?"]  BY <2>5 DEF v
    <3>2. v.n = 1 /\ v.c = "?"  BY <3>1
    <3>. QED  BY <3>2 DEF v
  <2>7. First(b, p) = [n |-> 1, box |-> Type(b, "?")]  BY <2>2, <2>3, <2>4, <2>6, FirstIs
  <2>. DEFINE f == First(b, p)
              e == Type(b, "?")
              u == SubSeq(p, 1 + 1, Len(p))
  <2>8. f.n = 1 /\ f.box = e
    <3>. HIDE DEF f, e
    <3>1. f = [n |-> 1, box |-> e]  BY <2>7 DEF f, e
    <3>. QED  BY <3>1
  <2>9. ~e.pasting
    <3>1. e.pasting = b.pasting  BY DEF Type
    <3>. QED  BY <3>1
  <2>10. u \in Seq(T) /\ Len(u) = 1 /\ u[1] = "\r"
    <3>1. u \in Seq(T) /\ Len(u) = Len(p) - 1
      <4>. HIDE DEF e
      <4>1. f.n # 0  BY <2>8
      <4>. QED  BY <1>2, <1>3, <2>8, <4>1, FeedOn
    <3>2. \A i \in 2..Len(p) : p[i] \in T
      <4>1. \A i \in 2..Len(p) : i \in 1..Len(p)  BY <2>1, SMT
      <4>. QED  BY <1>2, <4>1, ElementOfSeq
    <3>3. \A i \in 1..2 - 2 + 1 : SubSeq(p, 2, 2)[i] = p[2 + i - 1]  BY <2>1, <3>2, SubSeqProperties
    <3>4. u = SubSeq(p, 2, 2) /\ 1 \in 1..2 - 2 + 1 /\ 2 + 1 - 1 = 2  BY <2>1
    <3>5. u[1] = "\r"  BY <2>2, <3>3, <3>4
    <3>6. Len(p) - 1 = 1  BY <2>1, SMT
    <3>. QED  BY <3>1, <3>5, <3>6
  <2>. HIDE DEF e, u
  <2>11. Alike(e, u, q)  BY <1>0, <2>9, <2>10, EnterAlike
  <2>12. Alike(First(b, p).box, SubSeq(p, First(b, p).n + 1, Len(p)), q)  BY <2>8, <2>11 DEF u
  <2>13. First(b, p).n # 0  BY <2>8
  <2>14. Alike(b, p, q)  BY <1>0, <1>2, <1>3, <1>5, <2>12, <2>13, KeyAlike
  <2>. QED  BY <2>14 DEF p, c, q
<1>. QED  BY <1>6, <1>7, <1>8, Zenon DEF Incomplete

LineInv == rest \in Seq(Bytes) /\ Incomplete(rest) /\ "pasting" \in DOMAIN box

(* In every state what waits are bytes of a key that is not complete (keys.go,
   feed), and the box is one.                                               *)
LEMMA LineInvHolds == LSpec => []LineInv
<1>1. LInit => LineInv
  <2>. SUFFICES ASSUME LInit PROVE LineInv  OBVIOUS
  <2>1. rest = <<>> /\ box = NewBox  BY DEF LInit
  <2>2. "pasting" \in DOMAIN box  BY <2>1 DEF NewBox
  <2>3. <<>> \in Seq(Bytes)  OBVIOUS
  <2>. QED  BY <2>1, <2>2, <2>3, Zenon DEF LineInv, Incomplete
<1>2. LineInv /\ [LNext]_lvars => LineInv'
  <2>. SUFFICES ASSUME LineInv, [LNext]_lvars PROVE LineInv'  OBVIOUS
  <2>1. CASE Read
    <3>1. PICK c \in Bytes : /\ box' = [Reading(Box, <<c>>).box EXCEPT !.sent = <<>>]
                             /\ rest' = Reading(Box, <<c>>).rest
      BY <2>1, Zenon DEF Read
    <3>. DEFINE p == rest \o <<c>>
                s == Feed(box, p)
    <3>2. Box.box = box /\ Box.rest = rest  BY DEF Box
    <3>3. Reading(Box, <<c>>) = s  BY <3>2, Zenon DEF Reading
    <3>4. p \in Seq(Bytes)  BY ConcatProperties DEF LineInv
    <3>. HIDE DEF p
    <3>5. Whole(s) /\ s.rest \in Seq(Bytes)  BY <3>4, FeedWhole
    <3>6. DOMAIN s.box = DOMAIN box  BY <3>4, FeedKeeps
    <3>. HIDE DEF s
    <3>7. "pasting" \in DOMAIN box'
      <4>1. DOMAIN box' = DOMAIN s.box  BY <3>1, <3>3
      <4>. QED  BY <3>6, <4>1, Zenon DEF LineInv
    <3>8. Incomplete(s.rest)
      <4>1. CASE s.rest = <<>>  BY <4>1, Zenon DEF Incomplete
      <4>2. CASE s.rest # <<>> /\ First(s.box, s.rest).n = 0  BY <3>5, <4>2, WholeWaits
      <4>. QED  BY <3>5, <4>1, <4>2, Zenon DEF Whole
    <3>9. rest' = s.rest  BY <3>1, <3>3
    <3>. QED  BY <3>5, <3>7, <3>8, <3>9, Zenon DEF LineInv, Incomplete
  <2>2. CASE DropEsc
    <3>1. rest' = <<>> /\ box' = box  BY <2>2 DEF DropEsc
    <3>2. <<>> \in Seq(Bytes)  OBVIOUS
    <3>. QED  BY <3>1, <3>2, Zenon DEF LineInv, Incomplete
  <2>3. CASE UNCHANGED lvars
    <3>1. rest' = rest /\ box' = box  BY <2>3 DEF lvars
    <3>. QED  BY <3>1, Zenon DEF LineInv, Incomplete
  <2>. QED  BY <2>1, <2>2, <2>3 DEF LNext
<1>. QED  BY <1>1, <1>2, PTL DEF LSpec

LEMMA AnyCut == LineInv => ReadsDoNotMatter
<1>. SUFFICES ASSUME LineInv PROVE ReadsDoNotMatter  OBVIOUS
<1>1. SUFFICES ASSUME NEW c \in Bytes, NEW d \in Bytes, ~(box.pasting /\ c = "\r" /\ d = "\n")
               PROVE  Reading(Box, <<c, d>>) = Reading(Reading(Box, <<c>>), <<d>>)
  BY Zenon DEF ReadsDoNotMatter
<1>. DEFINE p == rest \o <<c>>
            q == <<d>>
<1>2. Box.box = box /\ Box.rest = rest  BY DEF Box
<1>3. q \in Seq(Bytes) /\ q[1] = d  OBVIOUS
<1>4. /\ p \in Seq(Bytes) /\ Len(p) = Len(rest) + 1 /\ p[Len(rest) + 1] = c
  <2>. DEFINE k == <<c>>
  <2>1. k \in Seq(Bytes) /\ Len(k) = 1 /\ k[1] = c  OBVIOUS
  <2>. HIDE DEF k
  <2>2. rest \in Seq(Bytes)  BY DEF LineInv
  <2>3. /\ rest \o k \in Seq(Bytes) /\ Len(rest \o k) = Len(rest) + Len(k)
        /\ \A i \in 1..Len(k) : (rest \o k)[Len(rest) + i] = k[i]
    BY <2>1, <2>2, ConcatProperties
  <2>4. 1 \in 1..Len(k)  BY <2>1
  <2>. QED  BY <2>1, <2>3, <2>4 DEF k
<1>5. rest \o <<c, d>> = p \o q
  <2>1. rest \in Seq(Bytes) /\ <<c>> \in Seq(Bytes)  BY DEF LineInv
  <2>2. <<c>> \o <<d>> = <<c, d>>
    <3>. DEFINE a == <<c>>
                b == <<c, d>>
                e == a \o q
    <3>1. /\ a \in Seq(Bytes) /\ Len(a) = 1 /\ a[1] = c /\ q \in Seq(Bytes) /\ Len(q) = 1 /\ q[1] = d
          /\ b \in Seq(Bytes) /\ Len(b) = 2 /\ b[1] = c /\ b[2] = d
      OBVIOUS
    <3>. HIDE DEF a, b, q
    <3>2. /\ e \in Seq(Bytes) /\ Len(e) = Len(a) + Len(q) /\ (\A i \in 1..Len(a) : e[i] = a[i])
          /\ \A i \in 1..Len(q) : e[Len(a) + i] = q[i]
      <4>1. a \in Seq(Bytes) /\ q \in Seq(Bytes)  BY <3>1
      <4>. QED  BY <4>1, ConcatProperties
    <3>. HIDE DEF e
    <3>3. Len(e) = 2 /\ 1 \in 1..Len(a) /\ 1 \in 1..Len(q) /\ Len(a) + 1 = 2  BY <3>1, <3>2
    <3>4. e[1] = c /\ e[2] = d  BY <3>1, <3>2, <3>3
    <3>5. ASSUME NEW i \in 1..Len(e) PROVE e[i] = b[i]
      <4>1. i = 1 \/ i = 2  BY <3>3, SMT
      <4>. QED  BY <3>1, <3>4, <4>1
    <3>6. e = b  BY <3>1, <3>2, <3>3, <3>5, SeqEqual, Zenon
    <3>. QED  BY <3>6 DEF a, b, e, q
  <2>3. rest \o (<<c>> \o <<d>>) = (rest \o <<c>>) \o <<d>>  BY <1>3, <2>1, ConcatAssociative
  <2>. QED  BY <2>2, <2>3
<1>6. Alike(box, p, q)
  <2>1. CASE c = "\r" /\ d = "\n"
    <3>1. ~box.pasting /\ "\r" \in Bytes /\ "\n" \in Bytes  BY <1>1, <2>1
    <3>2. Alike(box, rest \o <<"\r">>, <<"\n">>)  BY <3>1, BreakAlike DEF LineInv
    <3>. QED  BY <2>1, <3>2
  <2>2. CASE ~(c = "\r" /\ d = "\n")
    <3>1. ~Sundered(p, q)  BY <1>3, <1>4, <2>2, Zenon DEF Sundered
    <3>. HIDE DEF p, q
    <3>. QED  BY <1>3, <1>4, <3>1, CutsDoNotMatter
  <2>. QED  BY <2>1, <2>2
<1>. QED  BY <1>2, <1>5, <1>6, Zenon DEF Alike, Reading

(* How the terminal's bytes are cut into reads does not matter (keys.go, feed):
   for every byte the terminal may send and every line it can have led to, two
   reads do what one would - but for a pasted CR LF cut in two.              *)
THEOREM ReadsNeverMatter == LSpec => []ReadsDoNotMatter
BY LineInvHolds, AnyCut, PTL
=============================================================================
