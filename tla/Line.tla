--------------------------------- MODULE Line ---------------------------------
(***************************************************************************)
(* The input line the box edits (internal/repl: keys.go, edit.go): what a  *)
(* read brings is taken apart into runes, control keys and escape          *)
(* sequences, an incomplete one waits for the next read, and each key      *)
(* edits the line, walks through what was sent before, or completes a      *)
(* /command.  Questions, and the other goroutines, are Repl's.             *)
(*                                                                         *)
(* A byte is a symbol; "5", "3", "200" and "201" stand for a parameter's   *)
(* bytes, "u1" "u2" for the two of a longer rune.                          *)
(***************************************************************************)
EXTENDS Integers, Sequences, SequencesExt, FiniteSets

CONSTANTS Bytes,    \* those the terminal sends
          Names,    \* the /commands a Tab can complete to
          Runes,    \* bound: those that get into the line
          MaxLine,  \* bound: runes in the line
          MaxHist   \* bound: lines kept

VARIABLES
  box,   \* the line, the history, what was sent
  rest,  \* the reader's: the bytes of a key not complete yet
  aside  \* history variable: the line left when the operator went up

lvars == <<box, rest, aside>>

Empty == [r |-> <<>>, at |-> 0]

NewBox == [draft |-> Empty, hist |-> <<>>, histAt |-> 0, keep |-> <<>>,
           pasting |-> FALSE, sent |-> <<>>]

LInit == box = NewBox /\ rest = <<>> /\ aside = <<>>

-----------------------------------------------------------------------------
(* editLine: a line and the cursor in it. *)
At(l, at) == [l EXCEPT !.at = at]
Set(r)    == [r |-> r, at |-> Len(r)]

Insert(l, c) == [r |-> InsertAt(l.r, l.at + 1, c), at |-> l.at + 1]

\* what lies between two places is deleted
Cut(l, from, to) == [r |-> SubSeq(l.r, 1, from) \o SubSeq(l.r, to + 1, Len(l.r)), at |-> from]

Backspace(l) == IF l.at > 0 THEN Cut(l, l.at - 1, l.at) ELSE l
Del(l)       == IF l.at < Len(l.r) THEN Cut(l, l.at, l.at + 1) ELSE l
Left(l)      == At(l, IF l.at > 0 THEN l.at - 1 ELSE 0)
Right(l)     == At(l, IF l.at < Len(l.r) THEN l.at + 1 ELSE l.at)

Spaces == {" ", "\n", "\t"}

\* a word starts at i: its first rune, no space, is the next one
WordAt(r, i) == i < Len(r) /\ r[i + 1] \notin Spaces /\ (i = 0 \/ r[i] \in Spaces)

\* a word ends at i
WordTo(r, i) == i > 0 /\ r[i] \notin Spaces /\ (i = Len(r) \/ r[i + 1] \in Spaces)

WordLeft(l) ==
  LET starts == {i \in 0..(l.at - 1) : WordAt(l.r, i)}
  IN At(l, IF starts = {} THEN 0 ELSE CHOOSE i \in starts : \A j \in starts : j <= i)

WordRight(l) ==
  LET ends == {i \in (l.at + 1)..Len(l.r) : WordTo(l.r, i)}
  IN At(l, IF ends = {} THEN Len(l.r) ELSE CHOOSE i \in ends : \A j \in ends : i <= j)

KillWord(l) == Cut(l, WordLeft(l).at, l.at)

-----------------------------------------------------------------------------
(* escKey: how long the escape sequence p starts with is - 0: not complete
   yet - and its key. *)
Esc(n, key) == [n |-> n, key |-> key]

Controls == {"^A", "^B", "^C", "^D", "^E", "^F", "^H", "\t", "\n", "^K", "\r", "^N", "^P", "^U", "^W"}

(* The bytes 0x40 to 0x7e: a letter, a bracket, a backslash, a tilde. *)
Final(c) == c \notin Controls \cup {"esc", " ", "/", "3", "5", "200", "201", "u1", "u2"}

CsiKey(param, final) ==
  CASE final = "A" -> "up"
    [] final = "B" -> "down"
    [] final = "C" -> IF param \in {"5", "3"} THEN "word right" ELSE "right"
    [] final = "D" -> IF param \in {"5", "3"} THEN "word left" ELSE "left"
    [] final = "H" -> "home"
    [] final = "F" -> "end"
    [] final = "~" /\ param = "3" -> "delete"
    [] final = "~" /\ param = "200" -> "paste"
    [] final = "~" /\ param = "201" -> "pasted"
    [] OTHER -> "none"

Csi(p) ==
  LET finals == {i \in 3..Len(p) : Final(p[i])} IN
  IF finals = {} THEN Esc(0, "none")
  ELSE LET i == CHOOSE i \in finals : \A j \in finals : i <= j
       IN Esc(i, CsiKey(IF i = 4 THEN p[3] ELSE "", p[i]))

\* mutant of EscKey: a sequence not complete yet is given up
EscKey_Now(p) ==
  IF Len(p) < 2 THEN Esc(1, "none") ELSE IF p[2] = "[" THEN Csi(p) ELSE Esc(2, "none")

EscKey(p) ==
  IF Len(p) < 2 THEN Esc(0, "none") ELSE
  CASE p[2] = "["    -> Csi(p)
    [] p[2] = "O"    -> IF Len(p) < 3 THEN Esc(0, "none") ELSE Esc(3, CsiKey("", p[3]))
    [] p[2] = "^H"   -> Esc(2, "kill word")
    [] p[2] = "\r"   -> Esc(2, "newline")
    [] p[2] = "b"    -> Esc(2, "word left")
    [] p[2] = "f"    -> Esc(2, "word right")
    [] p[2] = "esc"  -> Esc(1, "none")
    [] OTHER         -> Esc(2, "none")

-----------------------------------------------------------------------------
\* mutant of Kept: whatever line is shown is what comes back
Kept_Each(b) == b.draft.r

\* mutant of Kept: the line left is not kept
Kept_Never(b) == IF b.histAt = Len(b.hist) THEN <<>> ELSE b.keep

(* The draft is kept when the operator leaves it for an older line. *)
Kept(b) == IF b.histAt = Len(b.hist) THEN b.draft.r ELSE b.keep

History(b, step) ==
  LET at == b.histAt + step IN
  IF at \notin 0..Len(b.hist) THEN b
  ELSE [b EXCEPT !.keep = IF at = Len(b.hist) THEN <<>> ELSE Kept(b), !.histAt = at,
                 !.draft = Set(IF at = Len(b.hist) THEN Kept(b) ELSE b.hist[at + 1])]

Blank(r) == \A i \in DOMAIN r : r[i] \in Spaces

Enter(b) ==
  IF b.draft.at = Len(b.draft.r) /\ b.draft.at > 0 /\ b.draft.r[b.draft.at] = "\\"
  THEN [b EXCEPT !.draft.r[b.draft.at] = "\n"]
  ELSE LET text == b.draft.r
           hist == IF Blank(text) \/ (b.hist # <<>> /\ b.hist[Len(b.hist)] = text)
                   THEN b.hist ELSE Append(b.hist, text)
       IN [b EXCEPT !.draft = Empty, !.keep = <<>>, !.hist = hist, !.histAt = Len(hist),
                    !.sent = IF Blank(text) THEN @ ELSE Append(@, text)]

(* Ctrl-C, no turn running and no question up. *)
Clear(b) == IF b.draft.r = <<>> THEN b ELSE [b EXCEPT !.draft = Empty, !.histAt = Len(b.hist)]

Completions(r) == {name \in Names : IsPrefix(r, name)}

Shared(names) ==
  LET one == CHOOSE name \in names : TRUE
      common == {i \in 0..Len(one) : \A name \in names : IsPrefix(SubSeq(one, 1, i), name)}
  IN SubSeq(one, 1, CHOOSE i \in common : \A j \in common : j <= i)

(* The one it can become - or all that they share. *)
Completed(names) ==
  IF Cardinality(names) = 1 THEN Append(CHOOSE name \in names : TRUE, " ") ELSE Shared(names)

Tab(b) ==
  LET r == b.draft.r  names == Completions(r) IN
  IF r = <<>> \/ r[1] # "/" \/ (\E i \in DOMAIN r : r[i] \in {" ", "\n"}) \/ b.draft.at # Len(r)
     \/ names = {}
  THEN b ELSE [b EXCEPT !.draft = Set(Completed(names))]

(* key: of an escape sequence. *)
Key(b, key) ==
  CASE key = "paste"      -> [b EXCEPT !.pasting = TRUE]
    [] key = "pasted"     -> [b EXCEPT !.pasting = FALSE]
    [] key = "up"         -> History(b, -1)
    [] key = "down"       -> History(b, 1)
    [] key = "left"       -> [b EXCEPT !.draft = Left(@)]
    [] key = "right"      -> [b EXCEPT !.draft = Right(@)]
    [] key = "home"       -> [b EXCEPT !.draft = At(@, 0)]
    [] key = "end"        -> [b EXCEPT !.draft = At(@, Len(@.r))]
    [] key = "delete"     -> [b EXCEPT !.draft = Del(@)]
    [] key = "word left"  -> [b EXCEPT !.draft = WordLeft(@)]
    [] key = "word right" -> [b EXCEPT !.draft = WordRight(@)]
    [] key = "kill word"  -> [b EXCEPT !.draft = KillWord(@)]
    [] key = "newline"    -> [b EXCEPT !.draft = Insert(@, "\n")]
    [] key = "none"       -> b

(* control: ^D on an empty line is Repl's. *)
Control(b, c) ==
  CASE c = "^A" -> Key(b, "home")
    [] c = "^B" -> Key(b, "left")
    [] c = "^C" -> Clear(b)
    [] c = "^D" -> Key(b, "delete")
    [] c = "^E" -> Key(b, "end")
    [] c = "^F" -> Key(b, "right")
    [] c = "^H" -> [b EXCEPT !.draft = Backspace(@)]
    [] c = "\t" -> Tab(b)
    [] c = "\n" -> Key(b, "newline")
    [] c = "^K" -> [b EXCEPT !.draft.r = SubSeq(@, 1, b.draft.at)]
    [] c = "\r" -> Enter(b)
    [] c = "^N" -> Key(b, "down")
    [] c = "^P" -> Key(b, "up")
    [] c = "^U" -> [b EXCEPT !.draft = Cut(@, 0, b.draft.at)]
    [] c = "^W" -> Key(b, "kill word")

(* What p starts with: how many bytes, and what they do.  Bytes that are no
   rune are typed as the replacement character. *)
Rune(p) ==
  CASE p[1] = "u1" /\ Len(p) = 1 -> [n |-> 0, c |-> "?"]
    [] p[1] = "u1" /\ Len(p) > 1 /\ p[2] = "u2" -> [n |-> 2, c |-> "u"]
    [] p[1] \in {"u1", "u2"} /\ ~(p[1] = "u1" /\ (Len(p) = 1 \/ p[2] = "u2")) -> [n |-> 1, c |-> "?"]
    [] OTHER -> [n |-> 1, c |-> p[1]]

Type(b, c) == [b EXCEPT !.draft = Insert(@, c)]

(* What p starts with: how many bytes the key has - 0: not complete yet - and
   the box after it. *)
First(b, p) ==
  CASE p[1] = "esc" -> [n |-> EscKey(p).n, box |-> Key(b, EscKey(p).key)]
    [] b.pasting /\ p[1] \in {"\r", "\n"} ->
         [n |-> IF p[1] = "\r" /\ Len(p) > 1 /\ p[2] = "\n" THEN 2 ELSE 1, box |-> Type(b, "\n")]
    [] b.pasting /\ p[1] = "\t" -> [n |-> 1, box |-> Type(b, "\t")]
    [] p[1] \in Controls /\ ~(b.pasting /\ p[1] \in {"\r", "\n", "\t"}) ->
         [n |-> 1, box |-> IF b.pasting THEN b ELSE Control(b, p[1])]
    [] OTHER -> [n |-> Rune(p).n, box |-> Type(b, Rune(p).c)]

Taken(s) ==
  LET key == First(s.box, s.rest) IN
  IF s.rest = <<>> \/ key.n = 0 THEN s
  ELSE [box |-> key.box, rest |-> SubSeq(s.rest, key.n + 1, Len(s.rest))]

(* feed: the complete keys in p, one after the other, a byte at least each; the
   rest waits. *)
Feed(b, p) ==
  LET after[i \in 0..Len(p)] == IF i = 0 THEN [box |-> b, rest |-> p] ELSE Taken(after[i - 1])
  IN  after[Len(p)]

Reading(s, p) == Feed(s.box, s.rest \o p)

Box == [box |-> box, rest |-> rest]

Fits(s) == /\ Len(s.box.draft.r) <= MaxLine /\ Range(s.box.draft.r) \subseteq Runes
           /\ Len(s.box.hist) <= MaxHist /\ Len(s.rest) <= 3

(* What the operator had when they went up, while they are there; half a rune
   that the key follows is typed before it.                                 *)
Aside(b) ==
  CASE b.histAt = Len(b.hist) -> <<>>
    [] b.histAt < Len(b.hist) /\ box.histAt = Len(box.hist) ->
         (IF rest = <<"u1">> THEN Type(box, "?") ELSE box).draft.r
    [] OTHER -> aside

Read ==
  \E c \in Bytes :
    LET s == Reading(Box, <<c>>) IN
    /\ Fits(s)
    /\ box' = [s.box EXCEPT !.sent = <<>>] /\ rest' = s.rest /\ aside' = Aside(s.box)

(* No byte followed within a poll: a lone Esc was only that. *)
DropEsc ==
  /\ rest = <<"esc">> /\ rest' = <<>>
  /\ UNCHANGED <<box, aside>>

LNext == Read \/ DropEsc

LSpec == LInit /\ [][LNext]_lvars

-----------------------------------------------------------------------------
(* How the terminal's bytes are cut into reads does not matter: two reads do
   what one would, in every state - but for a pasted CR LF cut in two. *)
ReadsDoNotMatter ==
  \A c \in Bytes :
    LET first == Reading(Box, <<c>>) IN
    \A d \in Bytes :
      \/ box.pasting /\ c = "\r" /\ d = "\n"
      \/ Reading(Box, <<c, d>>) = Reading(first, <<d>>)

(* history: past the newest line sent is the draft from before.  Whichever key
   takes the operator back down there, and whatever they did to the older lines
   meanwhile, it is the line they left - empty only if that was.  Enter and
   Ctrl-C lead there too, but send or clear the line, and drop the other.    *)
DraftComesBack ==
  \A c \in Bytes \ {"\r", "^C"} :
    LET b == Reading(Box, <<c>>).box IN
    box.histAt < Len(box.hist) /\ b.histAt = Len(b.hist) => b.draft = Set(aside)
=============================================================================
