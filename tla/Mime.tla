---------------------------------- MODULE Mime ----------------------------------
(* The transfer encodings of LuaSocket (mime.c). Each filter is called chunk  *)
(* by chunk with the context its last call returned: the bytes it could not   *)
(* yet encode, what is left of a line, or the last byte seen; a call without  *)
(* a chunk ends the text. Bytes are integers.                                 *)
EXTENDS Integers, Sequences, SequencesExt

CONSTANTS
  Texts,       \* the texts sent
  LineLength   \* the length wrp and qpwrp are given

Byte == [cr |-> 13, lf |-> 10, tab |-> 9, space |-> 32, dot |-> 46, eq |-> 61]
CRLF == <<Byte.cr, Byte.lf>>
EQCRLF == <<Byte.eq>> \o CRLF

VARIABLES
  mime    \* [filter, plain, text, pos, ctx, out, ended]

MimeFilters == {"b64", "unb64", "qp", "unqp", "wrp", "qpwrp", "eol", "dot"}

-----------------------------------------------------------------------------
(* Base64 *)

b64base(v) == CASE v < 26       -> 65 + v
                [] v \in 26 .. 51 -> 71 + v
                [] v \in 52 .. 61 -> v - 4
                [] v = 62 -> 43
                [] v = 63 -> 47
b64unbase(c) == CASE c = Byte.eq        -> 0
                  [] \E v \in 0 .. 63 : b64base(v) = c -> CHOOSE v \in 0 .. 63 : b64base(v) = c
                  [] OTHER              -> 255
Digits(value, n) == [i \in 1 .. n |-> b64base((value \div 64 ^ (n - i)) % 64)]

\* s has the bytes waiting and the output.
b64encode(s, c) ==
  LET atom == Append(s.atom, c) IN
  IF Len(atom) < 3 THEN [s EXCEPT !.atom = atom]
  ELSE [atom |-> <<>>, out |-> s.out \o Digits(atom[1] * 65536 + atom[2] * 256 + atom[3], 4)]

\* Fault: two bytes are padded like one.
PadAsOne(atom) == IF atom = <<>> THEN <<>> ELSE Digits(atom[1] * 16, 2) \o <<Byte.eq, Byte.eq>>
b64pad(atom) ==
  CASE Len(atom) = 0 -> <<>>
    [] Len(atom) = 1 -> Digits(atom[1] * 16, 2) \o <<Byte.eq, Byte.eq>>
    [] Len(atom) = 2 -> Digits((atom[1] * 256 + atom[2]) * 4, 3) \o <<Byte.eq>>

b64decode(s, c) ==
  LET atom  == Append(s.atom, c)
      value == FoldLeft(LAMBDA v, d : v * 64 + b64unbase(d), 0, atom)
      bytes == <<(value \div 65536) % 256, (value \div 256) % 256, value % 256>>
      valid == IF atom[3] = Byte.eq THEN 1 ELSE IF atom[4] = Byte.eq THEN 2 ELSE 3
  IN  IF b64unbase(c) > 64 THEN s
      ELSE IF Len(atom) < 4 THEN [s EXCEPT !.atom = atom]
      ELSE [atom |-> <<>>, out |-> s.out \o SubSeq(bytes, 1, valid)]

-----------------------------------------------------------------------------
(* Quoted-printable *)

qpclass(c) == CASE c = Byte.cr                           -> "cr"
                [] c \in {Byte.tab, Byte.space}          -> "if_last"
                [] c \in (33 .. 126) \ {Byte.eq}         -> "plain"
                [] OTHER                                 -> "quoted"
qpbase(v) == IF v < 10 THEN 48 + v ELSE 55 + v
qpunbase(c) == CASE c \in 48 .. 57  -> c - 48
                 [] c \in 65 .. 70  -> c - 55
                 [] c \in 97 .. 102 -> c - 87
                 [] OTHER           -> 255
qpquote(c) == <<Byte.eq, qpbase(c \div 16), qpbase(c % 16)>>

\* One byte of those waiting is dealt with, when enough is known of the next.
RECURSIVE qpencoded(_)
qpencoded(s) ==
  LET a == s.atom
      next(bytes) == qpencoded([atom |-> Tail(a), out |-> s.out \o bytes])
      done(bytes) == [atom |-> <<>>, out |-> s.out \o bytes]
  IN  IF a = <<>> THEN s
      ELSE CASE qpclass(a[1]) = "cr" ->
                  IF Len(a) < 2 THEN s
                  ELSE IF a[2] = Byte.lf THEN done(CRLF) ELSE next(qpquote(a[1]))
             [] qpclass(a[1]) = "if_last" ->
                  IF Len(a) < 3 THEN s
                  ELSE IF Tail(a) = CRLF THEN done(qpquote(a[1]) \o CRLF) ELSE next(<<a[1]>>)
             [] qpclass(a[1]) = "quoted" -> next(qpquote(a[1]))
             [] qpclass(a[1]) = "plain"  -> next(<<a[1]>>)
qpencode(s, c) == qpencoded([s EXCEPT !.atom = Append(@, c)])

qppad(atom) ==
  FlattenSeq([i \in DOMAIN atom |-> IF qpclass(atom[i]) = "plain" THEN <<atom[i]>> ELSE qpquote(atom[i])])
  \o (IF atom = <<>> THEN <<>> ELSE EQCRLF)

\* A CR that is no line's end is dropped, and the byte after it.
qpdecode(s, c) ==
  LET a == Append(s.atom, c)
      wait == [s EXCEPT !.atom = a]
      done(bytes) == [atom |-> <<>>, out |-> s.out \o bytes]
  IN  CASE a[1] = Byte.eq ->
             IF Len(a) < 3 THEN wait
             ELSE IF Tail(a) = CRLF THEN done(<<>>)
             ELSE IF qpunbase(a[2]) > 15 \/ qpunbase(a[3]) > 15 THEN done(a)
             ELSE done(<<qpunbase(a[2]) * 16 + qpunbase(a[3])>>)
        [] a[1] = Byte.cr -> IF Len(a) < 2 THEN wait ELSE done(IF a[2] = Byte.lf THEN a ELSE <<>>)
        [] OTHER -> done(IF a[1] = Byte.tab \/ a[1] \in 32 .. 126 THEN <<a[1]>> ELSE <<>>)

-----------------------------------------------------------------------------
(* Lines: s has what the context is of and the output *)

wrapchar(s, c) ==
  CASE c = Byte.cr  -> s
    [] c = Byte.lf  -> [left |-> LineLength, out |-> s.out \o CRLF]
    [] c \notin {Byte.cr, Byte.lf} /\ s.left <= 0 ->
         [left |-> LineLength - 1, out |-> s.out \o CRLF \o <<c>>]
    [] OTHER        -> [left |-> s.left - 1, out |-> Append(s.out, c)]
\* A soft break comes before a quoted byte that would not fit.
qpwrapchar(s, c) ==
  CASE c = Byte.cr  -> s
    [] c = Byte.lf  -> [left |-> LineLength, out |-> s.out \o CRLF]
    [] c \notin {Byte.cr, Byte.lf} /\ s.left <= (IF c = Byte.eq THEN 3 ELSE 1) ->
         [left |-> LineLength - 1, out |-> s.out \o EQCRLF \o <<c>>]
    [] OTHER        -> [left |-> s.left - 1, out |-> Append(s.out, c)]

\* Two different line characters are one end of line.
eolprocess(s, c) ==
  LET ends == {Byte.cr, Byte.lf} IN
  CASE c \notin ends                    -> [last |-> 0, out |-> Append(s.out, c)]
    [] c \in ends /\ s.last \notin ends -> [last |-> c, out |-> s.out \o CRLF]
    [] c \in ends /\ c = s.last         -> [last |-> 0, out |-> s.out \o CRLF]
    [] OTHER                            -> [last |-> 0, out |-> s.out]

\* state 1: after a CR, 2: at the start of a line.
dot(s, c) ==
  [state |-> CASE c = Byte.cr                   -> 1
               [] c = Byte.lf /\ s.state = 1    -> 2
               [] OTHER                         -> 0,
   out |-> s.out \o (IF c = Byte.dot /\ s.state = 2 THEN <<c, c>> ELSE <<c>>)]

-----------------------------------------------------------------------------
(* The filters: a chunk, and the end *)

StartContext(f) == CASE f \in {"b64", "unb64", "qp", "unqp"} -> <<>>
                     [] f \in {"wrp", "qpwrp"}               -> LineLength
                     [] f = "eol"                            -> 0
                     [] f = "dot"                            -> 2

\* The waiting bytes are encoded again with those of the chunk after them.
Atoms(step(_, _), ctx, chunk) ==
  LET s == FoldLeft(step, [atom |-> <<>>, out |-> <<>>], ctx \o chunk) IN [ctx |-> s.atom, out |-> s.out]
mime_global_b64(ctx, chunk) == Atoms(b64encode, ctx, chunk)
mime_global_unb64(ctx, chunk) == Atoms(b64decode, ctx, chunk)
mime_global_qp(ctx, chunk) == Atoms(qpencode, ctx, chunk)
mime_global_unqp(ctx, chunk) == Atoms(qpdecode, ctx, chunk)
mime_global_wrp(ctx, chunk) ==
  LET s == FoldLeft(wrapchar, [left |-> ctx, out |-> <<>>], chunk) IN [ctx |-> s.left, out |-> s.out]
mime_global_qpwrp(ctx, chunk) ==
  LET s == FoldLeft(qpwrapchar, [left |-> ctx, out |-> <<>>], chunk) IN [ctx |-> s.left, out |-> s.out]
mime_global_eol(ctx, chunk) ==
  LET s == FoldLeft(eolprocess, [last |-> ctx, out |-> <<>>], chunk) IN [ctx |-> s.last, out |-> s.out]
mime_global_dot(ctx, chunk) ==
  LET s == FoldLeft(dot, [state |-> ctx, out |-> <<>>], chunk) IN [ctx |-> s.state, out |-> s.out]

Filtered(f, ctx, chunk) == CASE f = "b64"   -> mime_global_b64(ctx, chunk)
                             [] f = "unb64" -> mime_global_unb64(ctx, chunk)
                             [] f = "qp"    -> mime_global_qp(ctx, chunk)
                             [] f = "unqp"  -> mime_global_unqp(ctx, chunk)
                             [] f = "wrp"   -> mime_global_wrp(ctx, chunk)
                             [] f = "qpwrp" -> mime_global_qpwrp(ctx, chunk)
                             [] f = "eol"   -> mime_global_eol(ctx, chunk)
                             [] f = "dot"   -> mime_global_dot(ctx, chunk)

\* The last call. Quoted-printable text that starts with a zero byte passes for
\* none: it is looked at as a C string.
Ended(f, ctx) ==
  LET r == Filtered(f, <<>>, ctx)
      text == r.out \o (IF f = "b64" THEN b64pad(r.ctx) ELSE IF f = "qp" THEN qppad(r.ctx) ELSE <<>>)
  IN  CASE f \in {"b64", "unb64"} -> text
        [] f \in {"qp", "unqp"}   -> IF text # <<>> /\ text[1] = 0 THEN <<>> ELSE text
        [] f = "wrp"              -> IF ctx < LineLength THEN CRLF ELSE <<>>
        [] f = "qpwrp"            -> IF ctx < LineLength THEN EQCRLF ELSE <<>>
        [] OTHER                  -> <<>>

Whole(f, text) == LET r == Filtered(f, StartContext(f), text) IN r.out \o Ended(f, r.ctx)

-----------------------------------------------------------------------------
\* The decoders, and qpwrp, are given what the encoder makes of a text.
MimeInit == \E f \in MimeFilters, plain \in Texts :
  mime = [filter |-> f, plain |-> plain, pos |-> 0, ctx |-> StartContext(f), out |-> <<>>, ended |-> FALSE,
          text |-> CASE f = "unb64"             -> Whole("b64", plain)
                     [] f \in {"unqp", "qpwrp"} -> Whole("qp", plain)
                     [] OTHER                   -> plain]

Chunk == \E n \in 1 .. Len(mime.text) - mime.pos :
  LET r == Filtered(mime.filter, mime.ctx, SubSeq(mime.text, mime.pos + 1, mime.pos + n)) IN
  /\ ~mime.ended
  /\ mime' = [mime EXCEPT !.pos = @ + n, !.ctx = r.ctx, !.out = @ \o r.out]
EndOfText == /\ ~mime.ended /\ mime.pos = Len(mime.text)
             /\ mime' = [mime EXCEPT !.ended = TRUE, !.out = @ \o Ended(mime.filter, mime.ctx)]
MimeNext == Chunk \/ EndOfText

-----------------------------------------------------------------------------
(* Properties *)

NotLine(text) == SelectSeq(text, LAMBDA c : c \notin {Byte.cr, Byte.lf})
LineEnds(text) == {i \in 1 .. Len(text) - 1 : SubSeq(text, i, i + 1) = CRLF}
\* No line is longer than LineLength.
LinesFit(text) ==
  \A i \in 1 .. Len(text) : i + LineLength <= Len(text) =>
    \E j \in i .. i + LineLength : text[j] \in {Byte.cr, Byte.lf}
\* A text without the dots that stuffing put at the start of lines.
Unstuffed(text) ==
  LET starts == {1} \cup {i + 2 : i \in LineEnds(text)} IN
  FlattenSeq([i \in DOMAIN text |-> IF i \in starts /\ text[i] = Byte.dot THEN <<>> ELSE <<text[i]>>])

\* Whatever chunks a text arrives in, a filter makes the same of it; decoding
\* gives back what was encoded, also after wrapping; wrapped lines fit, and
\* stuffing the dots of lines is undone by removing them (mime.c).
MimeKeepsText ==
  mime.ended =>
    LET f == mime.filter out == mime.out IN
    /\ out = Whole(f, mime.text)
    /\ f \in {"unb64", "unqp"} => out = mime.plain
    /\ f = "qpwrp" => Whole("unqp", out) = mime.plain /\ LinesFit(out)
    /\ f = "qp" => \A i \in DOMAIN out : out[i] \in (32 .. 126) \cup {Byte.cr, Byte.lf, Byte.tab}
    /\ f = "wrp" => NotLine(out) = NotLine(mime.text) /\ LinesFit(out)
    /\ f = "eol" => /\ NotLine(out) = NotLine(mime.text)
                    /\ 2 * Cardinality(LineEnds(out)) = Len(out) - Len(NotLine(out))
    /\ f = "dot" => Unstuffed(out) = mime.text
=============================================================================
