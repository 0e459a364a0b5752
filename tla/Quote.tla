------------------------------- MODULE Quote -------------------------------
(***************************************************************************)
(* A value in a shell file: how setup writes it (shellQuoteQ) and how the  *)
(* narrowed parser reads it back (parseValue).  A value is a sequence of   *)
(* characters, a character a string; "^A" and "^?" stand for the control   *)
(* characters without a letter of their own, REPLACE for a placeholder's   *)
(* marker.                                                                 *)
(***************************************************************************)
EXTENDS Integers, Sequences, SequencesExt

CONSTANT Failed  \* an unterminated quote: the assignment is ignored

Blanks   == {" ", "\t"}
Letters  == [n |-> "\n", t |-> "\t", r |-> "\r"]     \* after a backslash, in $'...'
Controls == {"\n", "\t", "\r", "^A", "^?"}
LetterOf(c) == CHOOSE l \in DOMAIN Letters : Letters[l] = c
Special  == {" ", "\"", "#", "$", "'", "<", ">", "\\", "~"}  \* and the shell's others, alike
HexOf(c) == IF c = "^A" THEN <<"0", "1">> ELSE <<"7", "f">>

-----------------------------------------------------------------------------
(* Writing.  A value of safe characters only comes out as it is. *)
AnsiChar(c) ==
  CASE c \in {"\\", "'"}       -> <<"\\", c>>
    [] c \in {"^A", "^?"}      -> <<"\\", "x">> \o HexOf(c)
    [] c \in {"\n", "\t", "\r"} -> <<"\\", LetterOf(c)>>
    [] OTHER                  -> <<c>>

BareChar(c) == IF c \in Special THEN <<"\\", c>> ELSE <<c>>

Quoted(v) ==
  CASE v = <<>> -> <<"'", "'">>
    [] \E i \in DOMAIN v : v[i] \in Controls ->
         <<"$", "'">> \o FlattenSeq([i \in DOMAIN v |-> AnsiChar(v[i])]) \o <<"'">>
    [] OTHER -> FlattenSeq([i \in DOMAIN v |-> BareChar(v[i])])

-----------------------------------------------------------------------------
(* Reading: each form is scanned to its end, a character at a time. *)
Began == [out |-> <<>>, mode |-> "in", hex |-> <<>>]

Put(q, cs) == [q EXCEPT !.out = @ \o cs, !.mode = "in"]
Into(q, m) == [q EXCEPT !.mode = m]

(* The first blank not escaped ends a bare value; what follows is a note. *)
BareStep(q, c) ==
  CASE q.mode = "end"                                 -> q
    [] q.mode = "escape"                              -> Put(q, <<c>>)
    [] q.mode = "in" /\ c = "\\"                     -> Into(q, "escape")
    [] q.mode = "in" /\ c \in Blanks                  -> Into(q, "end")
    [] q.mode = "in" /\ c \notin Blanks \cup {"\\"}   -> Put(q, <<c>>)

DoubleStep(q, c) ==
  CASE q.mode = "end"                           -> q
    [] q.mode = "escape"                        ->
         Put(q, IF c \in {"\"", "\\", "$"} THEN <<c>> ELSE <<"\\", c>>)
    [] q.mode = "in" /\ c = "\\"               -> Into(q, "escape")
    [] q.mode = "in" /\ c = "\""               -> Into(q, "end")
    [] q.mode = "in" /\ c \notin {"\\", "\""}   -> Put(q, <<c>>)

(* \x takes two digits here; octal and the other letters are never written. *)
AnsiStep(q, c) ==
  CASE q.mode = "end"                           -> q
    [] q.mode = "escape" /\ c = "x"             -> [q EXCEPT !.mode = "hex", !.hex = <<>>]
    [] q.mode = "escape" /\ c # "x"             ->
         Put(q, CASE c \in DOMAIN Letters        -> <<Letters[c]>>
                  [] c \in {"\\", "'", "\"", "?"} -> <<c>>
                  [] OTHER                       -> <<"\\", c>>)
    [] q.mode = "hex" /\ q.hex = <<>>           -> [q EXCEPT !.hex = <<c>>]
    [] q.mode = "hex" /\ q.hex # <<>>           ->
         Put(q, <<CHOOSE x \in {"^A", "^?"} : HexOf(x) = Append(q.hex, c)>>)
    [] q.mode = "in" /\ c = "\\"               -> Into(q, "escape")
    [] q.mode = "in" /\ c = "'"                -> Into(q, "end")
    [] q.mode = "in" /\ c \notin {"\\", "'"}    -> Put(q, <<c>>)

Scan(form, text) ==
  LET at[i \in 0..Len(text)] ==
        IF i = 0 THEN Began
        ELSE CASE form = "bare"   -> BareStep(at[i - 1], text[i])
               [] form = "double" -> DoubleStep(at[i - 1], text[i])
               [] form = "ansi"   -> AnsiStep(at[i - 1], text[i])
  IN  at[Len(text)]

Closed(q) == IF q.mode = "end" THEN q.out ELSE Failed

(* A backslash at the very end of a bare value stands for itself. *)
ParseValue(text) ==
  LET n    == Len(text)
      bare == Scan("bare", text)
      end  == {i \in 2..n : text[i] = "'"}
  IN CASE n >= 2 /\ text[1] = "$" /\ text[2] = "'" -> Closed(Scan("ansi", SubSeq(text, 3, n)))
       [] n >= 1 /\ text[1] = "'" ->
            IF end = {} THEN Failed
            ELSE SubSeq(text, 2, (CHOOSE i \in end : \A j \in end : i <= j) - 1)
       [] n >= 1 /\ text[1] = "\"" -> Closed(Scan("double", SubSeq(text, 2, n)))
       [] OTHER -> IF bare.mode = "escape" THEN Append(bare.out, "\\") ELSE bare.out
=============================================================================
