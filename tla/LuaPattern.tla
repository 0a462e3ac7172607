------------------------------ MODULE LuaPattern ------------------------------
(* Pattern matching of Lua's string library, lstrlib.c.                        *)
(*                                                                             *)
(* A pattern is the sequence of its items: what a character class or a set in  *)
(* brackets stands for is a set of characters.  The matcher backtracks over    *)
(* one array of captures that it changes in place, and undoes what a failed    *)
(* attempt has changed; find, gmatch and gsub call it at one place after       *)
(* another.  Places count from zero; no character at the end reads as NUL.     *)
EXTENDS Integers, Sequences, SequencesExt

CONSTANTS Texts,             \* the subjects, sequences of characters
          Patterns,          \* sequences of items
          LUA_MAXCAPTURES    \* the number of captures in a pattern

VARIABLE scan

NOMATCH == -1
RAISED == -2                 \* luaL_error has left the matcher
CAP_UNFINISHED == -1
CAP_POSITION == -2
NUL == 0

(* MatchState; res is what the last call of match has returned.                *)
MatchState(text, pat) ==
  [text |-> text, pat |-> pat, level |-> 0, res |-> NOMATCH,
   capture |-> [l \in 1 .. LUA_MAXCAPTURES |-> [init |-> 0, len |-> 0]]]
src_end(ms) == Len(ms.text)
CharAt(ms, s) == IF s \in 0 .. Len(ms.text) - 1 THEN ms.text[s + 1] ELSE NUL
Yields(ms, r) == [ms EXCEPT !.res = r]
NoMatch(ms) == ms.res = NOMATCH

Open(ms) == {l \in 1 .. ms.level : ms.capture[l].len = CAP_UNFINISHED}
capture_to_close(ms) == CHOOSE l \in Open(ms) : \A k \in Open(ms) : k <= l

(* The end of the balanced text that begins at s; NOMATCH when there is none.     *)
RECURSIVE Balanced(_, _, _, _)
Balanced(ms, s, it, cont) ==
  IF s >= src_end(ms) THEN NOMATCH
  ELSE IF CharAt(ms, s) = it.e THEN IF cont = 1 THEN s + 1 ELSE Balanced(ms, s + 1, it, cont - 1)
  ELSE Balanced(ms, s + 1, it, IF CharAt(ms, s) = it.b THEN cont + 1 ELSE cont)
matchbalance(ms, s, it) ==
  IF s < src_end(ms) /\ CharAt(ms, s) = it.b THEN Balanced(ms, s + 1, it, 1) ELSE NOMATCH

(* The text of a capture again; len has no sign there, so that the text of a   *)
(* position capture is longer than any text.                                   *)
match_capture(ms, s, l) ==
  LET c == ms.capture[l]
  IN IF c.len # CAP_POSITION /\ src_end(ms) - s >= c.len
        /\ \A i \in 0 .. c.len - 1 : CharAt(ms, c.init + i) = CharAt(ms, s + i)
     THEN s + c.len ELSE NOMATCH

singlematch(ms, s, it) == s < src_end(ms) /\ CharAt(ms, s) \in it.set
(* The most repetitions of it from s on.                                       *)
Repetitions(ms, s, it) ==
  CHOOSE i \in 0 .. src_end(ms) : /\ \A j \in 0 .. i - 1 : singlematch(ms, s + j, it)
                                  /\ ~singlematch(ms, s + i, it)

RECURSIVE match(_, _, _), max_expand(_, _, _, _), min_expand(_, _, _)

max_expand(ms, s, p, i) ==
  LET m == match(ms, s + i, p + 1)
  IN IF i < 0 THEN Yields(ms, NOMATCH) ELSE IF ~NoMatch(m) THEN m ELSE max_expand(m, s, p, i - 1)
min_expand(ms, s, p) ==
  LET m == match(ms, s, p + 1)
  IN IF ~NoMatch(m) THEN m
     ELSE IF singlematch(m, s, m.pat[p]) THEN min_expand(m, s + 1, p) ELSE Yields(m, NOMATCH)

start_capture(ms, s, p, what) ==
  LET m == match([ms EXCEPT !.capture[ms.level + 1] = [init |-> s, len |-> what], !.level = @ + 1], s, p)
  IN IF ms.level >= LUA_MAXCAPTURES THEN Yields(ms, RAISED)
     ELSE IF NoMatch(m) THEN [m EXCEPT !.level = @ - 1] ELSE m
\* Fault: the end of a capture is not undone.
EndCaptureKept(ms, s, p) ==
  IF Open(ms) = {} THEN Yields(ms, RAISED)
  ELSE match([ms EXCEPT !.capture[capture_to_close(ms)].len = s - ms.capture[capture_to_close(ms)].init],
             s, p)
end_capture(ms, s, p) ==
  LET l == capture_to_close(ms)
      m == match([ms EXCEPT !.capture[l].len = s - ms.capture[l].init], s, p)
  IN IF Open(ms) = {} THEN Yields(ms, RAISED)
     ELSE IF NoMatch(m) THEN [m EXCEPT !.capture[l].len = CAP_UNFINISHED] ELSE m

MatchItem(ms, s, p, it) ==
  LET m == singlematch(ms, s, it)
      more == match(ms, s + 1, p + 1)
  IN CASE it.rep = "?" -> IF m /\ ~NoMatch(more) THEN more
                          ELSE match(IF m THEN more ELSE ms, s, p + 1)
       [] it.rep = "*" -> max_expand(ms, s, p, Repetitions(ms, s, it))
       [] it.rep = "+" -> IF m THEN max_expand(ms, s + 1, p, Repetitions(ms, s + 1, it))
                          ELSE Yields(ms, NOMATCH)
       [] it.rep = "-" -> min_expand(ms, s, p)
       [] it.rep = "" -> IF m THEN more ELSE Yields(ms, NOMATCH)

Goto(ms, s, p) == IF s = NOMATCH THEN Yields(ms, NOMATCH) ELSE match(ms, s, p)
match(ms, s, p) ==
  IF p > Len(ms.pat) THEN Yields(ms, s)
  ELSE LET it == ms.pat[p]
       IN CASE it.k = "(" -> start_capture(ms, s, p + 1, CAP_UNFINISHED)
            [] it.k = "()" -> start_capture(ms, s, p + 1, CAP_POSITION)
            [] it.k = ")" -> end_capture(ms, s, p + 1)
            [] it.k = "%b" -> Goto(ms, matchbalance(ms, s, it), p + 1)
            [] it.k = "%f" -> IF CharAt(ms, s - 1) \in it.set \/ CharAt(ms, s) \notin it.set
                              THEN Yields(ms, NOMATCH) ELSE match(ms, s, p + 1)
            [] it.k = "%1" -> IF it.l > ms.level \/ it.l \in Open(ms) THEN Yields(ms, RAISED)
                              ELSE Goto(ms, match_capture(ms, s, it.l), p + 1)
            [] it.k = "$" -> Yields(ms, IF s = src_end(ms) THEN s ELSE NOMATCH)
            [] it.k = "x" -> MatchItem(ms, s, p, it)

(* The captures of a match of s to e, or the whole match when there are none.  *)
Unfinished(ms) == Open(ms) # {}
push_captures(ms, s) ==
  IF ms.level = 0 THEN <<[init |-> s, len |-> ms.res - s]>> ELSE SubSeq(ms.capture, 1, ms.level)
Found(ms, s) ==
  IF ms.res = RAISED \/ Unfinished(ms) THEN [s |-> s, e |-> RAISED, captures |-> <<>>]
  ELSE [s |-> s, e |-> ms.res, captures |-> push_captures(ms, s)]

--------------------------------------------------------------------------------
(* A call scans a text: op is the function, src the place it is at, found what *)
(* it has found and out the text gsub has put together.                        *)

PatternInit ==
  scan \in [op : {"find", "gmatch", "gsub"}, text : Texts, pat : Patterns, anchor : BOOLEAN,
            src : {0}, ms : {<<>>}, found : {<<>>}, out : {<<>>}, done : {FALSE}]

Attempt == match(IF scan.ms = <<>> THEN MatchState(scan.text, scan.pat)
                 ELSE [scan.ms EXCEPT !.level = 0], scan.src, 1)
AtEnd == scan.src >= Len(scan.text)

(* Both try one place after another; MatchState is made once.                  *)
str_find_aux ==
  /\ scan.op = "find" /\ ~scan.done
  /\ scan' = IF Attempt.res # NOMATCH
             THEN [scan EXCEPT !.found = <<Found(Attempt, scan.src)>>, !.done = TRUE, !.ms = Attempt]
             ELSE [scan EXCEPT !.src = @ + 1, !.done = AtEnd \/ scan.anchor, !.ms = Attempt]

(* The iterator's closure keeps the place, a new call makes a new MatchState.  *)
gmatch_aux ==
  /\ scan.op = "gmatch" /\ ~scan.done
  /\ LET e == Attempt.res
     IN scan' = IF e = NOMATCH
                THEN [scan EXCEPT !.src = @ + 1, !.done = AtEnd, !.ms = Attempt]
                ELSE [scan EXCEPT !.src = IF e = scan.src THEN @ + 1 ELSE e, !.ms = <<>>,
                                  !.found = Append(@, Found(Attempt, scan.src)),
                                  !.done = Found(Attempt, scan.src).e = RAISED
                                           \/ (e = scan.src /\ AtEnd)]

(* With a replacement that keeps the text: nothing but the matches is changed. *)
str_gsub ==
  /\ scan.op = "gsub" /\ ~scan.done
  /\ LET e == Attempt.res
         kept == IF e > scan.src THEN SubSeq(scan.text, scan.src + 1, e)
                 ELSE IF AtEnd THEN <<>> ELSE <<scan.text[scan.src + 1]>>
         next == IF e > scan.src THEN e ELSE scan.src + 1
         last == scan.anchor \/ (e <= scan.src /\ AtEnd) \/ e = RAISED
         f == Found(Attempt, scan.src)
     IN scan' = [scan EXCEPT
                   !.ms = Attempt, !.src = next,
                   !.found = IF e = NOMATCH THEN @ ELSE Append(@, f),
                   !.out = (IF f.e = RAISED /\ e # NOMATCH THEN <<>>
                            ELSE @ \o kept \o
                                 (IF last THEN SubSeq(scan.text, next + 1, Len(scan.text)) ELSE <<>>)),
                   !.done = last \/ (e # NOMATCH /\ f.e = RAISED)]

PatternNext == str_find_aux \/ gmatch_aux \/ str_gsub

--------------------------------------------------------------------------------
(* What a pattern means: all ways in which it can be matched at s, the         *)
(* preferred ones first, each with captures of its own; an item that cannot be *)
(* used where it stands is an error.                                           *)

Way(e, caps) == [e |-> e, caps |-> caps]
OpenIn(caps) == {l \in DOMAIN caps : caps[l].len = CAP_UNFINISHED}
RECURSIVE Ways(_, _, _, _)
(* The ways after n, n - 1, ... 0 repetitions or the other way round.          *)
After(text, rest, s, ns, caps) ==
  FlattenSeq([i \in DOMAIN ns |-> Ways(text, rest, s + ns[i], caps)])
Count(text, s, set) ==
  CHOOSE n \in 0 .. Len(text) - s :
     /\ \A j \in 1 .. n : text[s + j] \in set
     /\ s + n = Len(text) \/ text[s + n + 1] \notin set
Repeats(rep, n) ==
  CASE rep = "*" -> [i \in 1 .. n + 1 |-> n + 1 - i]
    [] rep = "+" -> [i \in 1 .. n |-> n + 1 - i]
    [] rep = "-" -> [i \in 1 .. n + 1 |-> i - 1]
    [] rep = "?" -> IF n = 0 THEN <<0>> ELSE <<1, 0>>
    [] rep = "" -> IF n = 0 THEN <<>> ELSE <<1>>
(* The shortest text from s on that has as many ends as beginnings.            *)
BalancedEnds(text, s, it) ==
  LET Times(c, e) == Len(SelectSeq(SubSeq(text, s + 1, e), LAMBDA x : x = c))
  IN {e \in s + 1 .. Len(text) :
        /\ text[s + 1] = it.b /\ text[e] = it.e
        /\ IF it.b = it.e THEN Times(it.b, e) = 2 ELSE Times(it.b, e) = Times(it.e, e)}
Ways(text, pat, s, caps) ==
  IF pat = <<>> THEN <<Way(s, caps)>>
  ELSE LET it == Head(pat)
           rest == Tail(pat)
           Char(i) == IF i \in 1 .. Len(text) THEN text[i] ELSE NUL
           Go(e) == Ways(text, rest, e, caps)
           open == CHOOSE l \in OpenIn(caps) : \A k \in OpenIn(caps) : k <= l
           ends == BalancedEnds(text, s, it)
           len == caps[it.l].len
       IN CASE it.k = "(" \/ it.k = "()" ->
                 IF Len(caps) = LUA_MAXCAPTURES THEN <<Way(RAISED, <<>>)>>
                 ELSE Ways(text, rest, s, Append(caps,
                        [init |-> s, len |-> IF it.k = "(" THEN CAP_UNFINISHED ELSE CAP_POSITION]))
            [] it.k = ")" ->
                 IF OpenIn(caps) = {} THEN <<Way(RAISED, <<>>)>>
                 ELSE Ways(text, rest, s, [caps EXCEPT ![open].len = s - caps[open].init])
            [] it.k = "%b" -> IF ends = {} THEN <<>>
                              ELSE Go(CHOOSE e \in ends : \A x \in ends : e <= x)
            [] it.k = "%f" -> IF Char(s) \notin it.set /\ Char(s + 1) \in it.set THEN Go(s) ELSE <<>>
            [] it.k = "%1" ->
                 IF it.l \notin DOMAIN caps \/ it.l \in OpenIn(caps) THEN <<Way(RAISED, <<>>)>>
                 ELSE IF len # CAP_POSITION /\ s + len <= Len(text)
                         /\ SubSeq(text, caps[it.l].init + 1, caps[it.l].init + len)
                            = SubSeq(text, s + 1, s + len)
                 THEN Go(s + len) ELSE <<>>
            [] it.k = "$" -> IF s = Len(text) THEN Go(s) ELSE <<>>
            [] it.k = "x" -> After(text, rest, s, Repeats(it.rep, Count(text, s, it.set)), caps)

(* The first place at or after s where the pattern matches.                    *)
MatchesAt(s) ==
  LET w == Ways(scan.text, scan.pat, s, <<>>)
  IN IF w = <<>> THEN <<>>
     ELSE IF w[1].e = RAISED \/ OpenIn(w[1].caps) # {}
     THEN <<[s |-> s, e |-> RAISED, captures |-> <<>>]>>
     ELSE <<[s |-> s, e |-> w[1].e,
             captures |-> IF w[1].caps = <<>> THEN <<[init |-> s, len |-> w[1].e - s]>> ELSE w[1].caps]>>
RECURSIVE MatchesFrom(_, _)
MatchesFrom(s, all) ==
  LET m == IF s > Len(scan.text) THEN <<>> ELSE MatchesAt(s)
  IN IF s > Len(scan.text) THEN <<>>
     ELSE IF scan.anchor /\ scan.op # "gmatch" THEN m
     ELSE IF m = <<>> THEN MatchesFrom(s + 1, all)
     ELSE IF ~all \/ m[1].e = RAISED THEN m
     ELSE m \o MatchesFrom(IF m[1].e = s THEN s + 1 ELSE m[1].e, all)

(* A call finds what the pattern means: find the leftmost match in the order   *)
(* of preference, gmatch and gsub one match after another, with the captures   *)
(* of that match and nothing left of the attempts before it; and gsub leaves   *)
(* alone whatever is not matched.                                              *)
FindsWhatPatternMeans ==
  scan.done =>
    /\ scan.found = MatchesFrom(0, scan.op # "find")
    /\ scan.op = "gsub" => scan.out = scan.text \/ Last(scan.found).e = RAISED
================================================================================
