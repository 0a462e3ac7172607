-------------------------------- MODULE LuaDump --------------------------------
(* Precompiled functions: ldump.c writes a function to a writer, lundump.c      *)
(* reads it back through the buffered stream of lzio.c.  The writer and the     *)
(* reader are those of jnlua.c, over Java streams that may throw at any time.   *)
(*                                                                              *)
(* A number, a character and an instruction are one unit of the stream each.    *)
(* What a function is made of is kept apart: the six numbers of its head, code, *)
(* constants, nested functions and debug information.  No block is longer than  *)
(* the 1024 bytes of jnlua's array.                                             *)
EXTENDS Integers, Sequences, SequencesExt

CONSTANTS Functions,         \* the functions that are dumped
          PieceSizes,        \* how much the Java stream may deliver at a time
          LUAI_MAXCCALLS     \* how deep functions may be nested

VARIABLE dumped

NoString == <<-1>>               \* no string
Header == <<27, 81>>         \* LUA_SIGNATURE and the rest, which is checked as one
Types == [nil |-> 0, boolean |-> 1, number |-> 3, string |-> 4]
Name(n) == <<n>>
Unknown == Name(63)          \* "=?"

--------------------------------------------------------------------------------
(* Dumping: the blocks handed to the writer, in their order.                    *)

DumpInt(x) == <<<<x>>>>
DumpVector(b) == <<<<Len(b)>>, b>>
DumpString(s) == IF s = NoString THEN <<<<0>>>> ELSE <<<<Len(s) + 1>>, Append(s, 0)>>
(* A count and each of its items.                                               *)
DumpEach(xs, Dump(_)) == DumpInt(Len(xs)) \o FlattenSeq([i \in DOMAIN xs |-> Dump(xs[i])])

DumpConstant(o) ==
  DumpInt(Types[o.t]) \o (CASE o.t = "nil" -> <<>> [] o.t = "string" -> DumpString(o.v)
                            [] OTHER -> DumpInt(o.v))
DumpLocvar(v) == DumpString(v.varname) \o DumpInt(v.startpc) \o DumpInt(v.endpc)
DumpDebug(f, strip) ==
  LET Kept(xs) == IF strip THEN <<>> ELSE xs
  IN DumpVector(Kept(f.lineinfo)) \o DumpEach(Kept(f.locvars), DumpLocvar)
       \o DumpEach(Kept(f.upvalues), DumpString)

(* The source is left out when it is the enclosing function's.                  *)
RECURSIVE DumpFunction(_, _, _)
DumpFunction(f, p, strip) ==
  DumpString(IF f.source = p \/ strip THEN NoString ELSE f.source)
    \o [i \in 1 .. Len(f.head) |-> <<f.head[i]>>] \o DumpVector(f.code)
    \o DumpEach(f.k, DumpConstant)
    \o DumpEach(f.p, LAMBDA g : DumpFunction(g, f.source, strip))
    \o DumpDebug(f, strip)

luaU_dump(f, strip) == <<Header>> \o DumpFunction(f, NoString, strip)

--------------------------------------------------------------------------------
(* The stream: what is left of the piece last read, and of the Java stream.     *)

luaZ_init(units, size) == [p |-> <<>>, rest |-> units, size |-> size]
(* readhandler: an exception of the Java stream ends it like its end.           *)
luaZ_fill(z) ==
  LET n == IF z.size < Len(z.rest) THEN z.size ELSE Len(z.rest)
  IN [z EXCEPT !.p = SubSeq(z.rest, 1, n), !.rest = SubSeq(@, n + 1, Len(@))]
luaZ_lookahead(z) == IF z.p = <<>> THEN luaZ_fill(z) ELSE z
EOZ(z) == z.p = <<>>

(* n more units after b; missing tells how many there were not.                 *)
RECURSIVE luaZ_read(_, _, _)
luaZ_read(z0, b, n) ==
  LET Copy(z, m) == luaZ_read([z EXCEPT !.p = SubSeq(@, m + 1, Len(@))], b \o SubSeq(z.p, 1, m), n - m)
      From(z) == IF EOZ(z) THEN [z |-> z, b |-> b, missing |-> n]
                 ELSE Copy(z, IF n <= Len(z.p) THEN n ELSE Len(z.p))
  IN IF n = 0 THEN [z |-> z0, b |-> b, missing |-> 0] ELSE From(luaZ_lookahead(z0))

--------------------------------------------------------------------------------
(* Loading: S has the stream, the value last read and whether an error has been *)
(* thrown, after which nothing more is read.                                    *)

Got(S, v) == [S EXCEPT !.v = v]
error(S, c) == [S EXCEPT !.error = @ \/ c]
\* Fault: the end of the stream is noticed only at its first unit, as if the
\* units missing were zeros.
LoadBlockPadded(S, n) ==
  LET r == luaZ_read(S.z, <<>>, n)
  IN Got([S EXCEPT !.z = r.z], r.b \o [i \in 1 .. r.missing |-> 0])
LoadBlock(S, n) ==
  LET Block(r) == IF r.missing # 0 THEN error([S EXCEPT !.z = r.z], TRUE)
                  ELSE Got([S EXCEPT !.z = r.z], r.b)
  IN IF S.error THEN S ELSE Block(luaZ_read(S.z, <<>>, n))
LoadInt(S) == LET Int1(l) == Got(l, IF l.error THEN 0 ELSE l.v[1]) IN Int1(LoadBlock(S, 1))
LoadVector(S) == LET Counted(n) == LoadBlock(n, n.v) IN Counted(LoadInt(S))
LoadString(S) ==
  LET Chars(l) == IF l.error THEN l ELSE Got(l, Front(l.v))
      Sized(n) == IF n.v = 0 THEN Got(n, NoString) ELSE Chars(LoadBlock(n, n.v))
  IN Sized(LoadInt(S))
(* As many items as the number that comes first.                                *)
LoadEach(S, Load(_)) ==
  LET Added(l, vs) == Got(l, Append(vs, l.v))
      Items(n) == FoldLeft(LAMBDA T, i : Added(Load(T), T.v), Got(n, <<>>), [i \in 1 .. n.v |-> i])
  IN Items(LoadInt(S))
(* A record of the fields in their order.                                       *)
LoadFields(S, fields, Load(_, _)) ==
  LET Set(l, field, r) == Got(l, (field :> l.v) @@ r)
  IN FoldLeft(LAMBDA T, field : Set(Load(T, field), field, T.v), Got(S, <<>>), fields)

LoadConstant(S) ==
  LET Constant(type, l) == Got(l, [t |-> type, v |-> IF type = "boolean" /\ l.v # 0 THEN 1 ELSE l.v])
      Typed(t) == CASE t.v = Types.nil     -> Constant("nil", Got(t, 0))
                    [] t.v = Types.boolean -> Constant("boolean", LoadInt(t))
                    [] t.v = Types.number  -> Constant("number", LoadInt(t))
                    [] t.v = Types.string  -> Constant("string", LoadString(t))
                    [] OTHER               -> error(t, TRUE)
  IN Typed(LoadInt(S))
LoadLocvar(S) ==
  LoadFields(S, <<"varname", "startpc", "endpc">>,
             LAMBDA T, field : IF field = "varname" THEN LoadString(T) ELSE LoadInt(T))

RECURSIVE LoadFunction(_, _, _)
LoadFunction(S, p, depth) ==
  LET Source(l) == IF l.error \/ l.v = NoString THEN Got(l, p) ELSE l
      Load(T, field) ==
        CASE field = "source"               -> Source(LoadString(T))
          [] field = "head"                 -> LoadBlock(T, 6)
          [] field \in {"code", "lineinfo"} -> LoadVector(T)
          [] field = "k"                    -> LoadEach(T, LoadConstant)
          [] field = "p"                    -> LoadEach(T, LAMBDA U : LoadFunction(U, T.v.source, depth + 1))
          [] field = "locvars"              -> LoadEach(T, LoadLocvar)
          [] field = "upvalues"             -> LoadEach(T, LoadString)
  IN IF S.error \/ depth > LUAI_MAXCCALLS THEN error(S, TRUE)
     ELSE LoadFields(S, <<"source", "head", "code", "k", "p", "lineinfo", "locvars", "upvalues">>, Load)

LoadHeader(S) == LET Checked(h) == error(h, ~h.error /\ h.v # Header) IN Checked(LoadBlock(S, Len(Header)))
luaU_undump(z) == LoadFunction(LoadHeader([z |-> z, v |-> <<>>, error |-> FALSE]), Unknown, 1)

(* A stream that does not begin with the signature is a program's text; without *)
(* a first character it is the empty one.                                       *)
EmptyProgram == [empty |-> TRUE]
f_parser(z0) ==
  LET From(z) == IF EOZ(z) THEN [z |-> z, v |-> EmptyProgram, error |-> FALSE] ELSE luaU_undump(z)
  IN From(luaZ_lookahead(z0))

--------------------------------------------------------------------------------
(* A script dumps a function to a Java stream, and loads what the stream then   *)
(* has, in pieces and up to where it throws.                                    *)

DumpInit ==
  dumped \in [f : Functions, strip : BOOLEAN, stage : {"new"}, status : {0}, written : {<<>>},
             cut : {0}, loaded : {<<>>}]

(* writehandler fails on the n-th block, or never: no block is written after.   *)
DumpToStream ==
  /\ dumped.stage = "new"
  /\ LET blocks == luaU_dump(dumped.f, dumped.strip)
     IN \E n \in {1, 2, Len(blocks) \div 2, Len(blocks), Len(blocks) + 1} :
          dumped' = [dumped EXCEPT !.stage = "dumped", !.status = IF n <= Len(blocks) THEN 1 ELSE 0,
                                 !.written = FlattenSeq(SubSeq(blocks, 1, n - 1))]
LoadFromStream ==
  /\ dumped.stage = "dumped"
  /\ \E size \in PieceSizes, cut \in 0 .. Len(dumped.written) :
        LET Loaded(r) == [dumped EXCEPT !.stage = IF r.error THEN "refused" ELSE "loaded", !.cut = cut,
                                        !.loaded = IF r.error THEN <<>> ELSE r.v]
        IN dumped' = Loaded(f_parser(luaZ_init(SubSeq(dumped.written, 1, cut), size)))
DumpNext == DumpToStream \/ LoadFromStream

RECURSIVE Stripped(_)
Stripped(f) ==
  [f EXCEPT !.source = Unknown, !.lineinfo = <<>>, !.locvars = <<>>, !.upvalues = <<>>,
            !.p = [i \in DOMAIN @ |-> Stripped(@[i])]]
RECURSIVE Depth(_)
Depth(f) == 1 + (IF f.p = <<>> THEN 0 ELSE
                 LET ds == {Depth(f.p[i]) : i \in DOMAIN f.p} IN CHOOSE d \in ds : \A e \in ds : e <= d)

(* A function that is dumped and loaded is the same one, whatever the pieces in *)
(* which it comes: nested sources, which are left out, too; without its debug   *)
(* information if it was stripped.  Of a stream that ends early, where the      *)
(* writer or the reader threw, nothing is loaded: only one that ends before its *)
(* first unit passes, as an empty program.                                      *)
LoadsWhatWasDumped ==
  /\ dumped.stage = "loaded" =>
       dumped.loaded = IF dumped.cut = 0 THEN EmptyProgram
                      ELSE IF dumped.strip THEN Stripped(dumped.f) ELSE dumped.f
  /\ dumped.stage = "refused" =>
       dumped.status # 0 \/ dumped.cut < Len(dumped.written) \/ Depth(dumped.f) > LUAI_MAXCCALLS
================================================================================
