--------------------------- MODULE SocketStreamProofs ---------------------------
(* Proofs about SocketStream and SocketOptions for any sockets, streams,      *)
(* messages, limits on time and arguments.                                    *)
EXTENDS SocketStream, SocketOptions, DataLemmas

-----------------------------------------------------------------------------
(* The text of a line                                                         *)

\* The function that Text is defined by.
KeptOf(bytes) == CHOOSE kept : kept = [i \in Nat |-> IF i = 0 THEN <<>>
                 ELSE IF bytes[i] \in {CR, LF} THEN kept[i - 1] ELSE Append(kept[i - 1], bytes[i])]

LEMMA TextIsKept == ASSUME NEW bytes PROVE Text(bytes) = KeptOf(bytes)[Len(bytes)]
  BY DEF Text, KeptOf

LEMMA KeptSteps ==
  ASSUME NEW bytes
  PROVE  /\ KeptOf(bytes)[0] = <<>>
         /\ \A n \in Nat : KeptOf(bytes)[n + 1] = IF bytes[n + 1] \in {CR, LF} THEN KeptOf(bytes)[n]
                                                ELSE Append(KeptOf(bytes)[n], bytes[n + 1])
  <1> DEFINE S == Seq({bytes[i] : i \in Nat})
             next(n, v) == IF bytes[n + 1] \in {CR, LF} THEN v ELSE Append(v, bytes[n + 1])
             step == [c \in Nat \X S |-> next(c[1], c[2])]
             spec(kept) == [i \in Nat |-> IF i = 0 THEN <<>>
                              ELSE IF bytes[i] \in {CR, LF} THEN kept[i - 1] ELSE Append(kept[i - 1], bytes[i])]
  <1>1. <<>> \in S
    OBVIOUS
  <1>2. \A n \in Nat, v \in S : next(n, v) \in S
    OBVIOUS
  <1>3. step \in [Nat \X S -> S]
    BY <1>2
  <1>4. \A n \in Nat, v \in S : step[<<n, v>>] = next(n, v)
    OBVIOUS
  <1> HIDE DEF step, S
  <1>5. PICK f \in [Nat -> S] : f[0] = <<>> /\ \A n \in Nat : f[n + 1] = step[<<n, f[n]>>]
    <2> DEFINE base == <<>>
    <2>1. base \in S
      BY <1>1
    <2> HIDE DEF base
    <2>2. \E f : Runs(base, step, S, f)
      BY <2>1, <1>3, NatRecursion
    <2> QED
      BY <2>2 DEF base, Runs
  <1>6. \A n \in Nat : f[n + 1] = next(n, f[n])
    BY <1>4, <1>5
  <1>7. f = spec(f)
    <2>1. ASSUME NEW i \in Nat PROVE f[i] = spec(f)[i]
      <3>1. CASE i = 0
        BY <1>5, <3>1
      <3>2. CASE i # 0
        <4>1. i - 1 \in Nat /\ (i - 1) + 1 = i
          BY <3>2
        <4>2. f[i] = next(i - 1, f[i - 1])
          BY <1>6, <4>1
        <4> QED
          BY <3>2, <4>1, <4>2
      <3> QED
        BY <3>1, <3>2
    <2> QED
      BY <1>5, <2>1
  <1>8. KeptOf(bytes) = spec(KeptOf(bytes))
    BY <1>7 DEF KeptOf
  <1>9. KeptOf(bytes)[0] = <<>>
    BY <1>8
  <1>10. ASSUME NEW n \in Nat PROVE KeptOf(bytes)[n + 1] = next(n, KeptOf(bytes)[n])
    <2>1. n + 1 \in Nat /\ n + 1 # 0 /\ (n + 1) - 1 = n
      OBVIOUS
    <2> QED
      BY <1>8, <2>1
  <1> QED
    BY <1>9, <1>10

\* Sequences that begin alike have kept the same there.
LEMMA KeptAgree ==
  ASSUME NEW a, NEW b, NEW m \in Nat, \A i \in 1 .. m : a[i] = b[i]
  PROVE  KeptOf(a)[m] = KeptOf(b)[m]
  <1> DEFINE T == {n \in Nat : n <= m => KeptOf(a)[n] = KeptOf(b)[n]}
  <1>1. 0 \in T
    BY KeptSteps
  <1>2. ASSUME NEW n \in Nat, n \in T PROVE n + 1 \in T
    <2>1. SUFFICES ASSUME n + 1 <= m PROVE KeptOf(a)[n + 1] = KeptOf(b)[n + 1]
      OBVIOUS
    <2>2. KeptOf(a)[n] = KeptOf(b)[n] /\ a[n + 1] = b[n + 1]
      BY <1>2, <2>1
    <2> QED
      BY <2>2, KeptSteps
  <1>3. Nat \subseteq T
    <2> HIDE DEF T
    <2> QED BY <1>1, <1>2, NatSetInduction
  <1> QED
    BY <1>3

LEMMA TextSteps ==
  ASSUME NEW S
  PROVE  /\ Text(<<>>) = <<>>
         /\ \A a \in Seq(S), x \in S : Text(Append(a, x)) = IF x \in {CR, LF} THEN Text(a) ELSE Append(Text(a), x)
  <1>1. Text(<<>>) = <<>>
    BY TextIsKept, KeptSteps
  <1>2. ASSUME NEW a \in Seq(S), NEW x \in S
        PROVE  Text(Append(a, x)) = IF x \in {CR, LF} THEN Text(a) ELSE Append(Text(a), x)
    <2> DEFINE c == Append(a, x) n == Len(a)
    <2>1. n \in Nat /\ Len(c) = n + 1 /\ c[n + 1] = x /\ \A i \in 1 .. n : a[i] = c[i]
      OBVIOUS
    <2> HIDE DEF c, n
    <2>2. KeptOf(a)[n] = KeptOf(c)[n]
      BY <2>1, KeptAgree
    <2>3. Text(a) = KeptOf(a)[n] /\ Text(c) = KeptOf(c)[n + 1]
      BY <2>1, TextIsKept DEF n
    <2> QED
      BY <2>1, <2>2, <2>3, KeptSteps DEF c
  <1> QED
    BY <1>1, <1>2

AppendsInside(a, b, x) == Append(a \o b, x) = a \o Append(b, x)
LEMMA AppendConcat ==
  ASSUME NEW S, NEW a \in Seq(S), NEW b \in Seq(S), NEW x \in S
  PROVE  AppendsInside(a, b, x)
  <1> DEFINE y == <<x>>
  <1>1. y \in Seq(S) /\ a \o b \in Seq(S)
    OBVIOUS
  <1>2. Append(a \o b, x) = (a \o b) \o y /\ Append(b, x) = b \o y
    BY <1>1, AppendIsConcat
  <1> HIDE DEF y
  <1>3. (a \o b) \o y = a \o (b \o y)
    BY <1>1, ConcatAssociative, SMTT(45)
  <1> QED
    BY <1>2, <1>3, Zenon DEF AppendsInside

\* The text of a line is the texts of its parts.
LEMMA TextConcat ==
  ASSUME NEW S, NEW a \in Seq(S), NEW b \in Seq(S)
  PROVE  Text(a \o b) = Text(a) \o Text(b) /\ Text(a) \in Seq(S)
  <1> DEFINE Fine(c) == /\ Text(c) \in Seq(S)
                        /\ \A d \in Seq(S) : Text(d) \in Seq(S) => Text(d \o c) = Text(d) \o Text(c)
             T == {n \in Nat : \A c \in Seq(S) : Len(c) = n => Fine(c)}
  <1>1. 0 \in T
    <2>1. ASSUME NEW c \in Seq(S), Len(c) = 0 PROVE Fine(c)
      <3>1. c = <<>> /\ Text(c) = <<>>
        BY <2>1, TextSteps
      <3>2. \A d \in Seq(S) : d \o <<>> = d
        BY ConcatEmptySeq
      <3> QED
        BY <3>1, <3>2
    <2> QED
      BY <2>1
  <1>2. ASSUME NEW n \in Nat, n \in T PROVE n + 1 \in T
    <2>1. SUFFICES ASSUME NEW c \in Seq(S), Len(c) = n + 1 PROVE Fine(c)
      <3> HIDE DEF Fine
      <3> QED OBVIOUS
    <2>2. PICK e \in Seq(S), x \in S : c = Append(e, x)
      <3>1. c # <<>>
        BY <2>1
      <3> QED
        BY <3>1, SequenceEmptyOrAppend
    <2>3. Len(e) = n
      BY <2>1, <2>2
    <2>4. Fine(e)
      BY <1>2, <2>3
    <2>5. Text(c) = IF x \in {CR, LF} THEN Text(e) ELSE Append(Text(e), x)
      BY <2>2, TextSteps
    <2>6. Text(c) \in Seq(S)
      BY <2>4, <2>5
    <2>7. ASSUME NEW d \in Seq(S), Text(d) \in Seq(S) PROVE Text(d \o c) = Text(d) \o Text(c)
      <3>1. d \o e \in Seq(S) /\ d \o c = Append(d \o e, x)
        BY <2>2
      <3>2. Text(d \o c) = IF x \in {CR, LF} THEN Text(d \o e) ELSE Append(Text(d \o e), x)
        BY <3>1, TextSteps, ZenonT(60)
      <3>3. Text(d \o e) = Text(d) \o Text(e)
        BY <2>4, <2>7
      <3>4. Append(Text(d) \o Text(e), x) = Text(d) \o Append(Text(e), x)
        <4>1. AppendsInside(Text(d), Text(e), x)
          BY <2>4, <2>7, AppendConcat
        <4> QED
          BY <4>1, Zenon DEF AppendsInside
      <3> QED
        BY <2>5, <3>2, <3>3, <3>4
    <2> QED
      BY <2>6, <2>7
  <1>3. Nat \subseteq T
    <2> HIDE DEF T
    <2> QED BY <1>1, <1>2, NatSetInduction
  <1>4. Len(a) \in Nat /\ Len(b) \in Nat
    OBVIOUS
  <1> QED
    BY <1>3, <1>4

-----------------------------------------------------------------------------
(* Types *)

Bytes == UNION {Range(Stream[s]) : s \in Socks}
Data == UNION {Range(Message[s]) : s \in Socks}
Limits == {None} \cup Nat
Errors == {"", "timeout", "closed"}
KernOf == [in : Seq(Bytes), sent : Nat, eof : BOOLEAN, out : Seq(Data), wire : Seq(Data), open : BOOLEAN]
SockOf == [buf : Seq(Bytes), block : Limits, total : Limits, start : Nat]
ReceiveOps == [name : {"receive"}, s : Socks, pat : Patterns, b : Seq(Bytes), total : Nat, err : Errors, until : Limits,
               since : Nat, pc : {"get", "recv", "wait", "done"}]
SendOps == [name : {"send"}, s : Socks, start : Nat, total : Nat, err : Errors, until : Limits, since : Nat,
            pc : {"send", "wait", "done"}]
SelectOps == [name : {"select"}, rset : SUBSET Socks, wset : SUBSET Socks, dirty : SUBSET Socks, rtab : SUBSET Socks,
              block : Limits, total : {None}, start : Nat, err : Errors, until : Limits, since : Nat,
              pc : {"select", "wait", "done"}]
StreamType ==
  /\ kern \in [Socks -> KernOf]
  /\ sock \in [Socks -> SockOf]
  /\ op \in {Idle} \cup ReceiveOps \cup SendOps \cup SelectOps
  /\ now \in Nat
  /\ done \in [Socks -> Seq([pat : Patterns, res : Seq(Bytes), upto : Int])]
  /\ rest \in [Socks -> [pat : Patterns \cup {NoPattern}, b : Seq(Bytes)]]
  /\ given \in [Socks -> Nat]

LEMMA StreamIsTyped == ASSUME NEW s \in Socks PROVE Stream[s] \in Seq(Bytes) /\ Message[s] \in Seq(Data)
  <1>1. Range(Stream[s]) \subseteq Bytes /\ Range(Message[s]) \subseteq Data
    BY DEF Bytes, Data
  <1> QED
    BY <1>1, StreamAssumption

LEMMA OpKinds ==
  ASSUME StreamType
  PROVE  /\ op.name = "receive" => op \in ReceiveOps
         /\ op.name = "send" => op \in SendOps
         /\ op.name = "select" => op \in SelectOps
         /\ op.name \in {"idle", "receive", "send", "select"}
         /\ op.name = "idle" => op = Idle
  BY DEF StreamType, Idle, ReceiveOps, SendOps, SelectOps

\* The time a wait may take is a limit, and a wait ends then.
LEMMA UntilIsLimit ==
  ASSUME NEW tm, tm.block \in Limits, tm.total \in Limits, tm.start \in Nat, now \in Nat
  PROVE  Until(tm) \in Limits
  BY DEF Until, timeout_getretry, Limits, Most, Least, None

LEMMA TypeInit == StreamInit => StreamType
  <1> SUFFICES ASSUME StreamInit PROVE StreamType
    OBVIOUS
  <1>1. <<>> \in Seq(Bytes) /\ <<>> \in Seq(Data) /\ <<>> \in Seq([pat : Patterns, res : Seq(Bytes), upto : Int])
    OBVIOUS
  <1>2. kern \in [Socks -> KernOf]
    BY <1>1 DEF StreamInit, KernOf
  <1>3. sock \in [Socks -> SockOf]
    BY <1>1 DEF StreamInit, SockOf, Limits, None
  <1>4. rest \in [Socks -> [pat : Patterns \cup {NoPattern}, b : Seq(Bytes)]]
    BY <1>1 DEF StreamInit, NoRest
  <1> QED
    BY <1>1, <1>2, <1>3, <1>4 DEF StreamInit, StreamType

LEMMA ReceiveType ==
  ASSUME StreamType, NEW s \in Socks, NEW pat \in Patterns, buffer_meth_receive(s, pat)
  PROVE  StreamType'
  <1>1. op' \in ReceiveOps
    BY DEF StreamType, buffer_meth_receive, ReceiveCall, ReceiveOps, Limits, None, Errors
  <1>2. sock' \in [Socks -> SockOf]
    BY DEF StreamType, buffer_meth_receive, timeout_markstart, SockOf
  <1> QED
    BY <1>1, <1>2 DEF StreamType, buffer_meth_receive

LEMMA SendType ==
  ASSUME StreamType, NEW s \in Socks, buffer_meth_send(s)
  PROVE  StreamType'
  <1>1. op' \in SendOps
    <2>1. given[s] + 1 \in Nat /\ now \in Nat
      BY DEF StreamType
    <2>2. op' = [name |-> "send", s |-> s, start |-> given[s] + 1, total |-> 0, err |-> "", until |-> None,
                 since |-> now, pc |-> "send"]
      BY DEF buffer_meth_send
    <2> QED
      BY <2>1, <2>2 DEF SendOps, Limits, None, Errors
  <1>2. sock' \in [Socks -> SockOf]
    BY DEF StreamType, buffer_meth_send, timeout_markstart, SockOf
  <1> QED
    BY <1>1, <1>2 DEF StreamType, buffer_meth_send

LEMMA SettimeoutType ==
  ASSUME StreamType, NEW s \in Socks, NEW mode \in {"b", "t"}, NEW t \in Timeouts, timeout_meth_settimeout(s, mode, t)
  PROVE  StreamType'
  <1>1. t \in Limits
    BY StreamAssumption DEF Limits, None
  <1>2. sock' \in [Socks -> SockOf]
    BY <1>1, ZenonT(60) DEF StreamType, timeout_meth_settimeout, SockOf
  <1> QED
    BY <1>2 DEF StreamType, timeout_meth_settimeout

LEMMA SelectType ==
  ASSUME StreamType, NEW rtab \in SUBSET Socks, NEW wtab \in SUBSET Socks, NEW t \in Timeouts, global_select(rtab, wtab, t)
  PROVE  StreamType'
  <1> DEFINE dirty == check_dirty(rtab)
             block == IF dirty # {} THEN 0 ELSE t
  <1>1. dirty \in SUBSET Socks /\ Given(rtab) \in SUBSET Socks /\ Given(wtab) \in SUBSET Socks
    BY DEF check_dirty, Given
  <1>2. block \in Limits
    BY StreamAssumption DEF Limits, None
  <1>3. op' = [name |-> "select", rset |-> Given(rtab) \ dirty, wset |-> Given(wtab), dirty |-> dirty, rtab |-> rtab,
               block |-> block, total |-> None, start |-> now, err |-> "", until |-> None, since |-> now, pc |-> "select"]
    BY DEF global_select
  <1>4. Given(rtab) \ dirty \in SUBSET Socks
    BY <1>1
  <1> HIDE DEF block, dirty
  <1>5. op' \in SelectOps
    BY <1>1, <1>2, <1>3, <1>4 DEF StreamType, SelectOps, Limits, None, Errors
  <1> QED
    BY <1>5 DEF StreamType, global_select

LEMMA SockLimits ==
  ASSUME StreamType, NEW s \in Socks
  PROVE  /\ sock[s].block \in Limits /\ sock[s].total \in Limits /\ sock[s].start \in Nat
         /\ sock[s].buf \in Seq(Bytes) /\ kern[s] \in KernOf /\ rest[s].b \in Seq(Bytes)
  BY DEF StreamType, SockOf

\* What a pattern takes is a part of the buffer, from its start.
LEMMA TakesFromBuffer ==
  ASSUME NEW buf \in Seq(Bytes), NEW n \in 0 .. Len(buf)
  PROVE  /\ SubSeq(buf, 1, n) \in Seq(Bytes) /\ Len(SubSeq(buf, 1, n)) = n
         /\ SubSeq(buf, n + 1, Len(buf)) \in Seq(Bytes) /\ Len(SubSeq(buf, n + 1, Len(buf))) = Len(buf) - n
         /\ Text(SubSeq(buf, 1, n)) \in Seq(Bytes)
  <1>1. SubSeq(buf, 1, n) \in Seq(Bytes)
    OBVIOUS
  <1>2. Text(SubSeq(buf, 1, n)) \in Seq(Bytes)
    BY <1>1, TextConcat
  <1> QED
    BY <1>1, <1>2

\* The first end of a line in a sequence.
LEMMA LineEndIsFirst ==
  ASSUME NEW S, NEW seq \in Seq(S)
  PROVE  /\ LineEnd(seq) \in 0 .. Len(seq)
         /\ LineEnd(seq) = 0 => \A i \in 1 .. Len(seq) : seq[i] # LF
         /\ LineEnd(seq) > 0 => seq[LineEnd(seq)] = LF /\ \A i \in 1 .. LineEnd(seq) - 1 : seq[i] # LF
  <1> DEFINE I == {i \in 1 .. Len(seq) : seq[i] = LF}
  <1>1. LineEnd(seq) = IF I # {} THEN Min(I) ELSE 0
    BY DEF LineEnd, SelectInSeq
  <1>2. CASE I = {}
    BY <1>1, <1>2
  <1>3. CASE I # {}
    <2>1. I \in SUBSET Nat
      OBVIOUS
    <2>2. \E i \in I : \A j \in I : i <= j
      BY <1>3, <2>1, LeastNat
    <2> DEFINE m == Min(I)
    <2>3. m \in I /\ \A j \in I : m <= j
      BY <2>2 DEF Min
    <2>4. LineEnd(seq) = m
      BY <1>1, <1>3
    <2> HIDE DEF m
    <2>5. m \in 1 .. Len(seq) /\ seq[m] = LF /\ \A i \in 1 .. m - 1 : seq[i] # LF
      BY <2>3
    <2> QED
      BY <2>4, <2>5
  <1> QED
    BY <1>2, <1>3

-----------------------------------------------------------------------------
(* How much a receive has                                                     *)

\* Fewer bytes than a length asks for.
Short(n, pat) == n < pat \/ (n = 0 /\ pat = 0)

\* A partial result is short of its length; a receive counts from it, and has
\* what it was asked for when it succeeds.
RestIsShort ==
  \A s \in Socks : /\ rest[s].pat = NoPattern => rest[s].b = <<>>
                   /\ rest[s].pat >= 0 => Short(Len(rest[s].b), rest[s].pat)
ReceiveCounts ==
  op.name = "receive" =>
    /\ rest[op.s].pat \in {NoPattern, op.pat}
    /\ op.pat >= 0 => /\ Len(op.b) = Len(rest[op.s].b) + op.total
                      /\ IF op.pc = "done" /\ op.err = "" THEN Len(op.b) = op.pat ELSE Short(Len(op.b), op.pat)
    /\ op.pc # "done" => op.err = ""
    /\ op.pc \in {"recv", "wait"} => sock[op.s].buf = <<>>
StreamBase == StreamType /\ RestIsShort /\ ReceiveCounts

LEMMA ReceiveStarts ==
  ASSUME StreamBase, NEW s \in Socks, NEW pat \in Patterns, buffer_meth_receive(s, pat)
  PROVE  /\ op' \in ReceiveOps /\ op'.pc = "get" /\ op'.s = s /\ op'.pat = pat /\ op'.b = rest[s].b /\ op'.total = 0
         /\ op'.err = "" /\ op'.until = None /\ op'.since = now
         /\ rest[s].pat \in {NoPattern, pat}
         /\ pat >= 0 => Short(Len(rest[s].b), pat)
         /\ op = Idle /\ sock' = [sock EXCEPT ![s].start = now]
         /\ UNCHANGED <<kern, now, done, rest, given>>
  <1>1. rest[s].pat \in {NoPattern, pat} /\ rest[s].b \in Seq(Bytes) /\ pat \in {-1, -2} \cup Nat
    BY SockLimits, StreamAssumption DEF buffer_meth_receive, StreamBase
  <1>2. pat >= 0 => Short(Len(rest[s].b), pat)
    <2>1. rest[s].pat = NoPattern => rest[s].b = <<>>
      BY DEF StreamBase, RestIsShort
    <2>2. rest[s].pat >= 0 => Short(Len(rest[s].b), rest[s].pat)
      BY DEF StreamBase, RestIsShort
    <2> QED
      BY <1>1, <2>1, <2>2 DEF Short
  <1>3. ~(Size(pat) # 0 /\ rest[s].b # <<>> /\ Size(pat) <= Len(rest[s].b))
    BY <1>1, <1>2 DEF Size, Short
  <1>4. op' = [name |-> "receive", s |-> s, pat |-> pat, b |-> rest[s].b, total |-> 0, err |-> "",
               until |-> None, since |-> now, pc |-> "get"]
    BY <1>3 DEF buffer_meth_receive, ReceiveCall
  <1>5. op' \in ReceiveOps
    BY <1>1, <1>4 DEF StreamBase, StreamType, ReceiveOps, Limits, None, Errors
  <1>6. /\ op'.pc = "get" /\ op'.s = s /\ op'.pat = pat /\ op'.b = rest[s].b /\ op'.total = 0
        /\ op'.err = "" /\ op'.until = None /\ op'.since = now
    BY <1>4
  <1>7. op = Idle /\ sock' = [sock EXCEPT ![s].start = now] /\ UNCHANGED <<kern, now, done, rest, given>>
    BY SMTT(45) DEF buffer_meth_receive, timeout_markstart
  <1> QED
    BY <1>1, <1>2, <1>5, <1>6, <1>7

\* What buffer_get takes, by pattern.
Takes(n, b, end) ==
  LET buf == sock[op.s].buf IN
  /\ op.pat = Line => /\ b = Text(SubSeq(buf, 1, n)) /\ n > 0
                      /\ end <=> buf[n] = LF
                      /\ \A i \in 1 .. n - 1 : buf[i] # LF
  /\ op.pat # Line => b = SubSeq(buf, 1, n) /\ Len(b) = n
  /\ op.pat = All => ~end
  /\ op.pat >= 0 => IF end THEN Len(op.b) + n = op.pat ELSE Short(Len(op.b) + n, op.pat)

LEMMA BufferTakes ==
  ASSUME StreamBase, buffer_get, sock[op.s].buf # <<>>
  PROVE  \E n \in 0 .. Len(sock[op.s].buf), b \in Seq(Bytes), end \in BOOLEAN :
           /\ Takes(n, b, end)
           /\ op' = [op EXCEPT !.b = @ \o b, !.total = @ + n, !.pc = IF end THEN "done" ELSE "get"]
           /\ sock' = [sock EXCEPT ![op.s].buf = SubSeq(@, n + 1, Len(@))]
  <1> DEFINE s == op.s
             buf == sock[s].buf
             prefix == Len(rest[s].b)
             got == CASE op.pat = Line -> recvline(buf)
                      [] op.pat = All  -> recvall(buf)
                      [] OTHER         -> recvraw(buf, op.pat - prefix)
  <1>1. op.name = "receive" /\ op.pc = "get" /\ op \in ReceiveOps
    BY OpKinds DEF buffer_get, StreamBase
  <1>2. s \in Socks /\ op.pat \in {-1, -2} \cup Nat /\ op.b \in Seq(Bytes) /\ op.total \in Nat
    BY <1>1, StreamAssumption DEF ReceiveOps
  <1>3. buf \in Seq(Bytes) /\ rest[s].b \in Seq(Bytes) /\ Len(buf) > 0
    BY <1>2, SockLimits DEF StreamBase
  <1>4. /\ op' = [op EXCEPT !.b = @ \o got.b, !.total = @ + got.n, !.pc = IF got.end THEN "done" ELSE "get"]
        /\ sock' = [sock EXCEPT ![s].buf = SubSeq(buf, got.n + 1, Len(buf))]
    BY DEF buffer_get
  <1>5. sock' = [sock EXCEPT ![s].buf = SubSeq(@, got.n + 1, Len(@))]
    BY <1>4
  <1>6. op.pat \in Nat => Len(op.b) = prefix + op.total /\ Short(Len(op.b), op.pat)
    <2>1. ReceiveCounts
      BY DEF StreamBase
    <2>2. ASSUME op.pat \in Nat PROVE Len(op.b) = Len(rest[op.s].b) + op.total /\ Short(Len(op.b), op.pat)
      <3>1. op.pat >= 0
        BY <2>2
      <3> QED
        BY <1>1, <2>1, <3>1 DEF ReceiveCounts
    <2> QED
      BY <2>2
  <1> HIDE DEF buf, prefix, got
  <1>7. ASSUME got.n \in 0 .. Len(buf), got.b \in Seq(Bytes), got.end \in BOOLEAN,
               op.pat = Line => /\ got.b = Text(SubSeq(buf, 1, got.n)) /\ got.n > 0
                                /\ got.end <=> buf[got.n] = LF
                                /\ \A i \in 1 .. got.n - 1 : buf[i] # LF,
               op.pat # Line => got.b = SubSeq(buf, 1, got.n) /\ Len(got.b) = got.n,
               op.pat = All => ~got.end,
               op.pat >= 0 => IF got.end THEN Len(op.b) + got.n = op.pat ELSE Short(Len(op.b) + got.n, op.pat)
        PROVE  \E n \in 0 .. Len(buf), b \in Seq(Bytes), end \in BOOLEAN :
                 /\ Takes(n, b, end)
                 /\ op' = [op EXCEPT !.b = @ \o b, !.total = @ + n, !.pc = IF end THEN "done" ELSE "get"]
                 /\ sock' = [sock EXCEPT ![s].buf = SubSeq(@, n + 1, Len(@))]
    <2> DEFINE Step(n, b, end) ==
                 /\ Takes(n, b, end)
                 /\ op' = [op EXCEPT !.b = @ \o b, !.total = @ + n, !.pc = IF end THEN "done" ELSE "get"]
                 /\ sock' = [sock EXCEPT ![s].buf = SubSeq(@, n + 1, Len(@))]
    <2>1. Takes(got.n, got.b, got.end)
      BY <1>7, Zenon DEF Takes, buf, s
    <2>2. Step(got.n, got.b, got.end)
      BY <1>4, <1>5, <2>1, Zenon
    <2> HIDE DEF Step
    <2>3. \E n \in 0 .. Len(buf), b \in Seq(Bytes), end \in BOOLEAN : Step(n, b, end)
      BY <1>7, <2>2, Zenon
    <2> QED
      BY <2>3, Zenon DEF Step
  <1>8. CASE op.pat = Line
    <2> DEFINE n == IF LineEnd(buf) > 0 THEN LineEnd(buf) ELSE Len(buf)
    <2>1. LineEnd(buf) \in 0 .. Len(buf)
      BY <1>3, LineEndIsFirst
    <2>2. n \in 1 .. Len(buf)
      BY <1>3, <2>1
    <2>3. got = [n |-> n, b |-> Text(SubSeq(buf, 1, n)), end |-> LineEnd(buf) > 0]
      BY <1>8 DEF got, recvline, Line, All
    <2>4. got.n = n /\ got.b = Text(SubSeq(buf, 1, n)) /\ (got.end <=> LineEnd(buf) > 0) /\ got.end \in BOOLEAN
      <3> DEFINE e == LineEnd(buf) > 0
      <3>1. e \in BOOLEAN
        OBVIOUS
      <3> HIDE DEF e
      <3>2. got = [n |-> n, b |-> Text(SubSeq(buf, 1, n)), end |-> e]
        BY <2>3 DEF e
      <3>3. got.n = n /\ got.b = Text(SubSeq(buf, 1, n)) /\ got.end = e
        BY <3>2
      <3> QED
        BY <3>1, <3>3 DEF e
    <2>5. (LineEnd(buf) > 0 <=> buf[n] = LF) /\ \A i \in 1 .. n - 1 : buf[i] # LF
      BY <1>3, <2>1, LineEndIsFirst
    <2> HIDE DEF n
    <2>6. Text(SubSeq(buf, 1, n)) \in Seq(Bytes)
      BY <1>3, <2>2, TakesFromBuffer
    <2>7. got.n \in 0 .. Len(buf) /\ got.n > 0 /\ ~(op.pat >= 0) /\ op.pat # All
      BY <1>3, <1>8, <2>2, <2>4 DEF Line, All
    <2>8. \A i \in 1 .. got.n - 1 : buf[i] # LF
      BY <2>4, <2>5
    <2> QED
      BY <1>7, <1>8, <2>4, <2>5, <2>6, <2>7, <2>8 DEF buf
  <1>9. CASE op.pat = All
    <2>1. got = recvall(buf)
      BY <1>9 DEF got, Line, All
    <2>2. got.n = Len(buf) /\ got.b = buf /\ got.end = FALSE
      BY <2>1 DEF recvall
    <2>3. buf = SubSeq(buf, 1, Len(buf))
      BY <1>3, SubSeqFull
    <2>4. op.pat # Line /\ ~(op.pat >= 0)
      BY <1>9 DEF Line, All
    <2>5. got.b = SubSeq(buf, 1, got.n) /\ Len(got.b) = got.n
      BY <2>2, <2>3, Zenon
    <2>6. got.n \in 0 .. Len(buf) /\ got.b \in Seq(Bytes)
      BY <1>3, <2>2
    <2>7. got.end \in BOOLEAN /\ ~got.end
      BY <2>2, Zenon
    <2> QED
      BY <1>7, <2>4, <2>5, <2>6, <2>7, Zenon DEF buf
  <1>10. CASE op.pat \notin {Line, All}
    <2> DEFINE n == Least(Len(buf), op.pat - prefix - op.total)
    <2>1. op.pat \in Nat
      BY <1>2, <1>10 DEF Line, All
    <2>2. got = [n |-> n, b |-> SubSeq(buf, 1, n), end |-> op.total + n >= op.pat - prefix]
      BY <1>10 DEF got, recvraw
    <2>3. got.n = n /\ got.b = SubSeq(buf, 1, n) /\ (got.end <=> op.total + n >= op.pat - prefix) /\ got.end \in BOOLEAN
      <3> DEFINE e == op.total + n >= op.pat - prefix
      <3>1. e \in BOOLEAN
        OBVIOUS
      <3> HIDE DEF e
      <3>2. got = [n |-> n, b |-> SubSeq(buf, 1, n), end |-> e]
        BY <2>2 DEF e
      <3>3. got.n = n /\ got.b = SubSeq(buf, 1, n) /\ got.end = e
        BY <3>2
      <3> QED
        BY <3>1, <3>3 DEF e
    <2>4. prefix \in Nat /\ Len(op.b) \in Nat /\ Len(buf) \in Nat
      BY <1>2, <1>3 DEF prefix
    <2>5. /\ n \in 0 .. Len(buf)
          /\ IF op.total + n >= op.pat - prefix THEN Len(op.b) + n = op.pat ELSE Short(Len(op.b) + n, op.pat)
      <3>1. ASSUME NEW p \in Nat, NEW t \in Nat, NEW l \in Nat, NEW m \in Nat, NEW w \in Nat, l = p + t, Short(l, w)
            PROVE  /\ Least(m, w - p - t) \in 0 .. m
                   /\ IF t + Least(m, w - p - t) >= w - p THEN l + Least(m, w - p - t) = w
                      ELSE Short(l + Least(m, w - p - t), w)
        BY <3>1 DEF Least, Short
      <3> QED
        BY <1>2, <1>6, <2>1, <2>4, <3>1
    <2> HIDE DEF n
    <2>6. SubSeq(buf, 1, n) \in Seq(Bytes) /\ Len(SubSeq(buf, 1, n)) = n
      BY <1>3, <2>5, TakesFromBuffer
    <2> QED
      BY <1>7, <1>10, <2>1, <2>3, <2>5, <2>6 DEF buf
  <1> QED
    BY <1>8, <1>9, <1>10 DEF buf

\* The type and the counts, action by action.
LEMMA BaseInit == StreamInit => StreamBase
  <1> SUFFICES ASSUME StreamInit PROVE StreamBase
    OBVIOUS
  <1>1. RestIsShort /\ ReceiveCounts
    BY DEF StreamInit, RestIsShort, ReceiveCounts, NoRest, NoPattern, Idle
  <1> QED
    BY <1>1, TypeInit DEF StreamBase

\* A step that leaves the partial results and ends in no receive.
LEMMA BaseApart ==
  ASSUME StreamBase, StreamType', UNCHANGED rest, op'.name # "receive"
  PROVE  StreamBase'
  BY DEF StreamBase, RestIsShort, ReceiveCounts

\* A step of a receive that takes no bytes.
SameReceive == /\ op \in ReceiveOps /\ op' \in ReceiveOps
               /\ op'.s = op.s /\ op'.pat = op.pat /\ op'.b = op.b /\ op'.total = op.total /\ op'.since = op.since
LEMMA BaseSameReceive ==
  ASSUME StreamBase, StreamType', UNCHANGED rest, SameReceive, op.pc # "done",
         op'.pc = "done" /\ op'.err = "" => op.pat = All,
         op'.pc # "done" => op'.err = op.err,
         op'.pc \in {"recv", "wait"} => sock'[op.s].buf = <<>>
  PROVE  StreamBase'
  <1>1. op.name = "receive" /\ op'.name = "receive"
    BY DEF SameReceive, ReceiveOps
  <1>2. ReceiveCounts
    BY DEF StreamBase
  <1>3. ReceiveCounts'
    <2>1. op.pat >= 0 => Len(op.b) = Len(rest[op.s].b) + op.total /\ Short(Len(op.b), op.pat)
      BY <1>1, <1>2 DEF ReceiveCounts
    <2>2. rest[op.s].pat \in {NoPattern, op.pat} /\ op.err = ""
      BY <1>1, <1>2 DEF ReceiveCounts
    <2>3. op.pat >= 0 => ~(op'.pc = "done" /\ op'.err = "")
      <3>1. op.pat = All => ~(op.pat >= 0)
        BY DEF All
      <3> QED
        BY <3>1, Zenon
    <2> QED
      BY <1>1, <2>1, <2>2, <2>3 DEF ReceiveCounts, SameReceive
  <1> QED
    BY <1>3 DEF StreamBase, RestIsShort

\* The steps that wait and fail take none.
LEMMA WaitsSame ==
  ASSUME StreamBase, op.name = "receive", NEW pc \in {"recv", "wait"}, NEW until \in Limits, op' = [op EXCEPT !.pc = pc, !.until = until]
  PROVE  SameReceive /\ op'.pc = pc /\ op'.until = until /\ op'.err = op.err
  BY OpKinds DEF StreamBase, SameReceive, ReceiveOps

LEMMA FailsSame ==
  ASSUME StreamBase, op.name = "receive", NEW err \in Errors, Fails(err)
  PROVE  SameReceive /\ op'.pc = "done" /\ op'.err = err
  BY OpKinds DEF StreamBase, SameReceive, ReceiveOps, Fails

LEMMA BaseReceive ==
  ASSUME StreamBase, NEW s \in Socks, NEW pat \in Patterns, buffer_meth_receive(s, pat)
  PROVE  StreamBase'
  <1>1. StreamType'
    BY ReceiveType DEF StreamBase
  <1>2. /\ op' \in ReceiveOps /\ op'.pc = "get" /\ op'.s = s /\ op'.pat = pat /\ op'.b = rest[s].b /\ op'.total = 0
        /\ op'.err = "" /\ UNCHANGED rest
        /\ rest[s].pat \in {NoPattern, pat}
        /\ pat >= 0 => Short(Len(rest[s].b), pat)
    BY ReceiveStarts
  <1>3. Len(rest[s].b) \in Nat
    BY SockLimits DEF StreamBase
  <1>4. Len(rest[s].b) = Len(rest[s].b) + 0
    BY <1>3
  <1>5. ReceiveCounts'
    BY <1>2, <1>4 DEF ReceiveCounts
  <1> QED
    BY <1>1, <1>2, <1>5 DEF StreamBase, RestIsShort

LEMMA BaseGet ==
  ASSUME StreamBase, buffer_get
  PROVE  StreamBase'
  <1>1. op.name = "receive" /\ op.pc = "get" /\ op \in ReceiveOps /\ op.s \in Socks
    BY OpKinds, SMTT(45) DEF buffer_get, StreamBase, ReceiveOps
  <1>2. UNCHANGED <<kern, now, done, rest, given>>
    BY DEF buffer_get
  <1>3. CASE sock[op.s].buf = <<>>
    <2>1. op' = [op EXCEPT !.pc = "recv"] /\ UNCHANGED sock
      BY <1>3 DEF buffer_get
    <2>2. SameReceive /\ op'.pc = "recv" /\ op'.err = op.err
      BY <1>1, <2>1 DEF SameReceive, ReceiveOps
    <2>3. StreamType'
      BY <1>2, <2>1, <2>2 DEF StreamBase, StreamType, SameReceive
    <2> QED
      BY <1>1, <1>2, <1>3, <2>1, <2>2, <2>3, BaseSameReceive
  <1>4. CASE sock[op.s].buf # <<>>
    <2>1. PICK n \in 0 .. Len(sock[op.s].buf), b \in Seq(Bytes), end \in BOOLEAN :
            /\ Takes(n, b, end)
            /\ op' = [op EXCEPT !.b = @ \o b, !.total = @ + n, !.pc = IF end THEN "done" ELSE "get"]
            /\ sock' = [sock EXCEPT ![op.s].buf = SubSeq(@, n + 1, Len(@))]
      BY <1>4, BufferTakes
    <2>2. op.b \in Seq(Bytes) /\ op.total \in Nat /\ n \in Nat
      BY <1>1 DEF ReceiveOps
    <2>3. op.b \o b \in Seq(Bytes) /\ Len(op.b \o b) = Len(op.b) + Len(b) /\ op.total + n \in Nat
      BY <2>2
    <2>4. /\ op' \in ReceiveOps /\ op'.s = op.s /\ op'.pat = op.pat /\ op'.b = op.b \o b /\ op'.total = op.total + n
          /\ op'.err = op.err /\ op'.pc = (IF end THEN "done" ELSE "get")
      BY <1>1, <2>1, <2>3 DEF ReceiveOps
    <2>5. sock' \in [Socks -> SockOf]
      <3>1. SubSeq(sock[op.s].buf, n + 1, Len(sock[op.s].buf)) \in Seq(Bytes)
        BY <1>1, SockLimits, TakesFromBuffer DEF StreamBase
      <3> QED
        BY <1>1, <2>1, <3>1 DEF StreamBase, StreamType, SockOf
    <2>6. StreamType'
      BY <1>2, <2>4, <2>5 DEF StreamBase, StreamType
    <2>7. ReceiveCounts'
      <3>1. ReceiveCounts
        BY DEF StreamBase
      <3>2. op.err = "" /\ rest[op.s].pat \in {NoPattern, op.pat}
        BY <1>1, <3>1 DEF ReceiveCounts
      <3>3. ASSUME op.pat >= 0
            PROVE  /\ Len(op.b \o b) = Len(rest[op.s].b) + (op.total + n)
                   /\ IF end THEN Len(op.b \o b) = op.pat ELSE Short(Len(op.b \o b), op.pat)
        <4>1. Len(op.b) = Len(rest[op.s].b) + op.total
          BY <1>1, <3>1, <3>3 DEF ReceiveCounts
        <4>2. Takes(n, b, end)
          BY <2>1
        <4>3. Len(b) = n
          BY <3>3, <4>2 DEF Takes, Line
        <4>4. rest[op.s].b \in Seq(Bytes)
          BY <1>1, SockLimits DEF StreamBase
        <4>5. IF end THEN Len(op.b) + n = op.pat ELSE Short(Len(op.b) + n, op.pat)
          BY <3>3, <4>2 DEF Takes
        <4>6. Len(rest[op.s].b) \in Nat /\ Len(op.b) \in Nat
          BY <2>2, <4>4
        <4>7. Len(op.b \o b) = Len(op.b) + n
          BY <2>3, <4>3
        <4> HIDE <2>1
        <4> QED
          BY <2>2, <4>1, <4>5, <4>6, <4>7, SMTT(45)
      <3> HIDE <2>1
      <3> QED
        BY <1>2, <2>4, <3>2, <3>3 DEF ReceiveCounts
    <2> QED
      BY <1>2, <2>6, <2>7 DEF StreamBase, RestIsShort
  <1> QED
    BY <1>3, <1>4

\* What a call of recv does.
LEMMA RecvDoes ==
  ASSUME StreamBase, socket_recv
  PROVE  /\ SameReceive /\ op.pc = "recv" /\ sock[op.s].buf = <<>> /\ UNCHANGED <<now, done, rest, given>>
         /\ \/ \E n \in 0 .. Len(kern[op.s].in) :
                 /\ sock' = [sock EXCEPT ![op.s].buf = SubSeq(kern[op.s].in, 1, n)]
                 /\ kern' = [kern EXCEPT ![op.s].in = SubSeq(@, n + 1, Len(@))]
                 /\ op'.pc = "get" /\ op'.err = op.err
            \/ /\ UNCHANGED <<kern, sock>>
               /\ \/ /\ op'.pc = "done" /\ op'.err = IF op.pat = All /\ op.total > 0 THEN "" ELSE "closed"
                     /\ ~kern[op.s].open \/ (kern[op.s].in = <<>> /\ kern[op.s].eof)
                  \/ op'.pc = "done" /\ op'.err = "timeout" /\ timeout_iszero(sock[op.s])
                  \/ op'.pc = "wait" /\ op'.err = op.err /\ op'.until = Until(sock[op.s])
  <1> DEFINE s == op.s
             n == Least(Len(kern[s].in), BUF_SIZE)
             err == IF op.pat = All /\ op.total > 0 THEN "" ELSE "closed"
  <1>1. op.name = "receive" /\ op.pc = "recv" /\ op \in ReceiveOps /\ s \in Socks /\ op.err = ""
    BY OpKinds DEF socket_recv, StreamBase, ReceiveOps, ReceiveCounts
  <1>2. UNCHANGED <<now, done, rest, given>>
    BY DEF socket_recv
  <1>3. sock[s].buf = <<>>
    BY <1>1 DEF StreamBase, ReceiveCounts
  <1>4. CASE /\ sock' = [sock EXCEPT ![s].buf = SubSeq(kern[s].in, 1, n)]
             /\ kern' = [kern EXCEPT ![s].in = SubSeq(@, n + 1, Len(@))]
             /\ op' = [op EXCEPT !.pc = "get"]
    <2>1. kern[s].in \in Seq(Bytes) /\ n \in 0 .. Len(kern[s].in)
      <3>1. kern[s].in \in Seq(Bytes)
        BY <1>1, SockLimits DEF StreamBase, KernOf
      <3>2. Len(kern[s].in) \in Nat /\ BUF_SIZE \in Nat
        BY <3>1, StreamAssumption
      <3> QED
        BY <3>1, <3>2 DEF Least
    <2> HIDE DEF n
    <2>2. SameReceive /\ op'.pc = "get" /\ op'.err = op.err
      BY <1>1, <1>4 DEF SameReceive, ReceiveOps
    <2> QED
      BY <1>1, <1>2, <1>3, <1>4, <2>1, <2>2
  <1>5. CASE /\ ~kern[s].open \/ (kern[s].in = <<>> /\ kern[s].eof)
             /\ Fails(err) /\ UNCHANGED <<kern, sock>>
    <2>1. err \in Errors
      BY DEF Errors
    <2>2. SameReceive /\ op'.pc = "done" /\ op'.err = err
      BY <1>1, <1>5, <2>1, FailsSame
    <2> QED
      BY <1>1, <1>2, <1>3, <1>5, <2>2
  <1>6. CASE TryAgain(s, "wait") /\ UNCHANGED <<kern, sock>>
    <2>1. CASE Fails("timeout") /\ timeout_iszero(sock[s])
      <3>1. SameReceive /\ op'.pc = "done" /\ op'.err = "timeout"
        BY <1>1, <2>1, FailsSame DEF Errors
      <3> QED
        BY <1>1, <1>2, <1>3, <1>6, <2>1, <3>1
    <2>2. CASE Waits(sock[s], "wait")
      <3>1. Until(sock[s]) \in Limits
        BY <1>1, SockLimits, UntilIsLimit DEF StreamBase, StreamType
      <3>2. SameReceive /\ op'.pc = "wait" /\ op'.err = op.err /\ op'.until = Until(sock[s])
        BY <1>1, <2>2, <3>1, WaitsSame DEF Waits
      <3> QED
        BY <1>1, <1>2, <1>3, <1>6, <3>2
    <2> QED
      BY <1>6, <2>1, <2>2 DEF TryAgain
  <1> QED
    BY <1>4, <1>5, <1>6 DEF socket_recv

LEMMA BaseRecv ==
  ASSUME StreamBase, socket_recv
  PROVE  StreamBase'
  <1>1. SameReceive /\ op.pc = "recv" /\ op.name = "receive" /\ op.s \in Socks /\ sock[op.s].buf = <<>>
        /\ UNCHANGED <<now, done, rest, given>>
    BY RecvDoes DEF SameReceive, ReceiveOps
  <1>2. ASSUME NEW n \in 0 .. Len(kern[op.s].in),
               sock' = [sock EXCEPT ![op.s].buf = SubSeq(kern[op.s].in, 1, n)],
               kern' = [kern EXCEPT ![op.s].in = SubSeq(@, n + 1, Len(@))],
               op'.pc = "get", op'.err = op.err
        PROVE  StreamBase'
    <2>1. kern[op.s].in \in Seq(Bytes)
      BY <1>1, SockLimits DEF StreamBase, KernOf
    <2>2. SubSeq(kern[op.s].in, 1, n) \in Seq(Bytes) /\ SubSeq(kern[op.s].in, n + 1, Len(kern[op.s].in)) \in Seq(Bytes)
      BY <2>1, TakesFromBuffer
    <2>3. sock' \in [Socks -> SockOf] /\ kern' \in [Socks -> KernOf]
      BY <1>1, <1>2, <2>2, ZenonT(60) DEF StreamBase, StreamType, SockOf, KernOf
    <2>4. StreamType'
      BY <1>1, <2>3 DEF StreamBase, StreamType, SameReceive
    <2> QED
      BY <1>1, <1>2, <2>4, BaseSameReceive
  <1>3. ASSUME UNCHANGED <<kern, sock>>, op'.pc = "done" /\ op'.err = "" => op.pat = All, op'.pc # "done" => op'.err = op.err
        PROVE  StreamBase'
    <2>1. StreamType'
      BY <1>1, <1>3 DEF StreamBase, StreamType, SameReceive
    <2> QED
      BY <1>1, <1>3, <2>1, BaseSameReceive
  <1> QED
    BY <1>2, <1>3, RecvDoes

\* What a wait to read does.
LEMMA WaitToReadDoes ==
  ASSUME StreamBase, WaitToRead
  PROVE  /\ SameReceive /\ op.pc = "wait" /\ UNCHANGED <<kern, sock, now, done, rest, given>>
         /\ \/ op'.pc = "recv" /\ op'.err = op.err
            \/ op'.pc = "done" /\ op'.err = "timeout" /\ Expired
            \/ op'.pc = "wait" /\ op'.err = op.err /\ op'.until = Until(sock[op.s])
  <1>1. op.name = "receive" /\ op.pc = "wait" /\ op \in ReceiveOps /\ op.s \in Socks
    BY OpKinds DEF WaitToRead, StreamBase, ReceiveOps
  <1>2. UNCHANGED <<kern, sock, now, done, rest, given>>
    BY DEF WaitToRead
  <1>3. CASE op' = [op EXCEPT !.pc = "recv"]
    BY <1>1, <1>2, <1>3 DEF SameReceive, ReceiveOps
  <1>4. CASE Expired /\ Fails("timeout")
    BY <1>1, <1>2, <1>4, FailsSame DEF Errors
  <1>5. CASE Waits(sock[op.s], "wait")
    <2>1. Until(sock[op.s]) \in Limits
      BY <1>1, SockLimits, UntilIsLimit DEF StreamBase, StreamType
    <2> QED
      BY <1>1, <1>2, <1>5, <2>1, WaitsSame DEF Waits
  <1> QED
    BY <1>1, <1>3, <1>4, <1>5 DEF WaitToRead, socket_waitfd

LEMMA BaseWaitToRead ==
  ASSUME StreamBase, WaitToRead
  PROVE  StreamBase'
  <1>1. /\ SameReceive /\ op.pc = "wait" /\ UNCHANGED <<kern, sock, now, done, rest, given>>
        /\ op'.pc = "done" /\ op'.err = "" => op.pat = All
        /\ op'.pc # "done" => op'.err = op.err
    BY WaitToReadDoes
  <1>2. sock[op.s].buf = <<>>
    BY <1>1 DEF StreamBase, ReceiveCounts, SameReceive, ReceiveOps
  <1>3. StreamType'
    BY <1>1 DEF StreamBase, StreamType, SameReceive
  <1> QED
    BY <1>1, <1>2, <1>3, BaseSameReceive

LEMMA BaseReturnReceive ==
  ASSUME StreamBase, ReturnReceive
  PROVE  StreamBase'
  <1> DEFINE s == op.s
             receipt == [pat |-> op.pat, res |-> op.b, upto |-> Upto(s)]
             left == IF op.err = "" THEN NoRest ELSE [pat |-> op.pat, b |-> op.b]
  <1>1. op.name = "receive" /\ op.pc = "done" /\ op \in ReceiveOps /\ s \in Socks /\ op.pat \in Patterns /\ op.b \in Seq(Bytes)
    BY OpKinds DEF ReturnReceive, StreamBase, ReceiveOps
  <1>2. /\ done' = IF op.err = "" THEN [done EXCEPT ![s] = Append(@, receipt)] ELSE done
        /\ rest' = [rest EXCEPT ![s] = left]
        /\ op' = Idle
        /\ UNCHANGED <<kern, sock, now, given>>
    BY DEF ReturnReceive
  <1>3. Upto(s) \in Int
    <2>1. kern[s].in \in Seq(Bytes) /\ sock[s].buf \in Seq(Bytes) /\ kern[s].sent \in Nat
      BY <1>1, SockLimits DEF StreamBase, KernOf
    <2>2. Len(kern[s].in) \in Nat /\ Len(sock[s].buf) \in Nat
      BY <2>1
    <2>3. \A i, j, k \in Nat : i - j - k \in Int
      OBVIOUS
    <2> QED
      BY <2>1, <2>2, <2>3, Zenon DEF Upto
  <1>4. receipt \in [pat : Patterns, res : Seq(Bytes), upto : Int]
    BY <1>1, <1>3
  <1>5. left \in [pat : Patterns \cup {NoPattern}, b : Seq(Bytes)]
    <2>1. NoRest \in [pat : Patterns \cup {NoPattern}, b : Seq(Bytes)]
      BY DEF NoRest
    <2>2. [pat |-> op.pat, b |-> op.b] \in [pat : Patterns \cup {NoPattern}, b : Seq(Bytes)]
      BY <1>1
    <2> QED
      BY <2>1, <2>2
  <1>6. (left.pat = NoPattern => left.b = <<>>) /\ (left.pat >= 0 => Short(Len(left.b), left.pat))
    <2>1. CASE op.err = ""
      <3>1. left = NoRest
        BY <2>1
      <3>2. NoRest.pat = NoPattern /\ NoRest.b = <<>> /\ ~(NoPattern >= 0)
        BY DEF NoRest, NoPattern
      <3> QED
        BY <3>1, <3>2
    <2>2. CASE op.err # ""
      <3>1. left.pat = op.pat /\ left.b = op.b
        BY <2>2
      <3>2. op.pat # NoPattern
        BY <1>1, StreamAssumption DEF NoPattern
      <3>3. op.pat >= 0 => Short(Len(op.b), op.pat)
        BY <1>1, <2>2 DEF StreamBase, ReceiveCounts
      <3> QED
        BY <3>1, <3>2, <3>3
    <2> QED
      BY <2>1, <2>2
  <1> HIDE DEF receipt, left
  <1>7. done' \in [Socks -> Seq([pat : Patterns, res : Seq(Bytes), upto : Int])]
    <2> DEFINE R == [pat : Patterns, res : Seq(Bytes), upto : Int]
    <2>1. receipt \in R /\ done[s] \in Seq(R)
      BY <1>1, <1>4 DEF StreamBase, StreamType
    <2> HIDE DEF R
    <2>2. Append(done[s], receipt) \in Seq(R)
      BY <2>1
    <2> QED
      BY <1>1, <1>2, <2>2 DEF StreamBase, StreamType, R
  <1>8. rest' \in [Socks -> [pat : Patterns \cup {NoPattern}, b : Seq(Bytes)]]
    BY <1>1, <1>2, <1>5 DEF StreamBase, StreamType
  <1>9. StreamType'
    BY <1>2, <1>7, <1>8 DEF StreamBase, StreamType
  <1>10. RestIsShort'
    BY <1>1, <1>2, <1>6 DEF StreamBase, StreamType, RestIsShort
  <1>11. ReceiveCounts'
    BY <1>2 DEF ReceiveCounts, Idle
  <1> QED
    BY <1>9, <1>10, <1>11 DEF StreamBase

\* A step of a send or a select.
LEMMA BaseOther ==
  ASSUME StreamBase, op' \in {Idle} \cup SendOps \cup SelectOps, UNCHANGED <<sock, now, done, rest>>,
         kern' \in [Socks -> KernOf], given' \in [Socks -> Nat]
  PROVE  StreamBase'
  <1>1. op'.name # "receive"
    BY DEF Idle, SendOps, SelectOps
  <1>2. StreamType'
    BY DEF StreamBase, StreamType
  <1> QED
    BY <1>1, <1>2, BaseApart

\* A step of a send that goes on with it.
SameSend == /\ op \in SendOps /\ op' \in SendOps
            /\ op'.s = op.s /\ op'.start = op.start /\ op'.since = op.since
Offered(put) == SubSeq(sendraw(op.s), 1, put)

LEMMA SendDoes ==
  ASSUME StreamBase, socket_send
  PROVE  /\ SameSend /\ op.pc = "send" /\ UNCHANGED <<sock, now, done, rest, given>>
         /\ \/ \E put \in 1 .. Len(sendraw(op.s)) :
                 /\ kern' = [kern EXCEPT ![op.s].out = @ \o Offered(put)]
                 /\ op'.total = op.total + put /\ op'.err = op.err
                 /\ op'.pc = IF op.start + op.total + put > Len(Message[op.s]) THEN "done" ELSE "send"
            \/ /\ op'.total = op.total /\ UNCHANGED kern
               /\ \/ op'.pc = "done" /\ op'.err = "closed"
                  \/ op'.pc = "done" /\ op'.err = "timeout" /\ timeout_iszero(sock[op.s])
                  \/ op'.pc = "wait" /\ op'.err = op.err /\ op'.until = Until(sock[op.s])
  <1> DEFINE s == op.s
             offer == sendraw(s)
             room == SendRoom - Len(kern[s].out)
  <1>1. op.name = "send" /\ op.pc = "send" /\ op \in SendOps /\ s \in Socks
    BY OpKinds, ZenonT(60) DEF socket_send, StreamBase, SendOps
  <1>2. UNCHANGED <<sock, now, done, rest, given>>
    BY DEF socket_send
  <1>3. ASSUME NEW put \in 1 .. Least(Len(offer), room),
               kern' = [kern EXCEPT ![s].out = @ \o SubSeq(offer, 1, put)],
               op' = [op EXCEPT !.total = @ + put,
                                !.pc = IF op.start + op.total + put > Len(Message[s]) THEN "done" ELSE "send"]
        PROVE  /\ SameSend
               /\ put \in 1 .. Len(offer) /\ kern' = [kern EXCEPT ![s].out = @ \o Offered(put)]
               /\ op'.total = op.total + put /\ op'.err = op.err
               /\ op'.pc = IF op.start + op.total + put > Len(Message[s]) THEN "done" ELSE "send"
    <2>1. kern[s].out \in Seq(Data)
      BY <1>1 DEF StreamBase, StreamType, KernOf
    <2>2. room \in Int
      BY <2>1, StreamAssumption
    <2>3. Len(offer) \in Int
      <3>1. op.start + op.total \in Int /\ Len(Message[s]) \in Nat /\ STEPSIZE \in Nat
        BY <1>1, StreamIsTyped, StreamAssumption DEF SendOps
      <3> QED
        BY <3>1 DEF sendraw, Least
    <2> HIDE DEF offer, room
    <2>4. put \in 1 .. Len(offer) /\ put \in Nat
      BY <1>3, <2>2, <2>3 DEF Least
    <2>5. op.total + put \in Nat
      BY <1>1, <2>4 DEF SendOps
    <2>6. SameSend /\ op'.total = op.total + put /\ op'.err = op.err
          /\ op'.pc = IF op.start + op.total + put > Len(Message[s]) THEN "done" ELSE "send"
      BY <1>1, <1>3, <2>5 DEF SameSend, SendOps
    <2> QED
      BY <1>3, <2>4, <2>6 DEF Offered, offer
  <1>4. ASSUME NEW err \in {"closed", "timeout"}, Fails(err)
        PROVE  SameSend /\ op'.total = op.total /\ op'.pc = "done" /\ op'.err = err
    BY <1>1, <1>4 DEF Fails, SameSend, SendOps, Errors
  <1>5. ASSUME Waits(sock[s], "wait")
        PROVE  SameSend /\ op'.total = op.total /\ op'.pc = "wait" /\ op'.err = op.err /\ op'.until = Until(sock[s])
    <2>1. Until(sock[s]) \in Limits
      BY <1>1, SockLimits, UntilIsLimit DEF StreamBase, StreamType
    <2> QED
      BY <1>1, <1>5, <2>1 DEF Waits, SameSend, SendOps
  <1>6. \/ \E put \in 1 .. Least(Len(offer), room) :
             /\ kern' = [kern EXCEPT ![s].out = @ \o SubSeq(offer, 1, put)]
             /\ op' = [op EXCEPT !.total = @ + put,
                                 !.pc = IF op.start + op.total + put > Len(Message[s]) THEN "done" ELSE "send"]
        \/ Fails("closed") /\ UNCHANGED kern
        \/ TryAgain(s, "wait") /\ UNCHANGED kern
    BY DEF socket_send
  <1> HIDE DEF offer, room
  <1>7. CASE \E put \in 1 .. Least(Len(offer), room) :
             /\ kern' = [kern EXCEPT ![s].out = @ \o SubSeq(offer, 1, put)]
             /\ op' = [op EXCEPT !.total = @ + put,
                                 !.pc = IF op.start + op.total + put > Len(Message[s]) THEN "done" ELSE "send"]
    BY <1>1, <1>2, <1>3, <1>7 DEF offer
  <1>8. CASE Fails("closed") /\ UNCHANGED kern
    BY <1>1, <1>2, <1>4, <1>8
  <1>9. CASE TryAgain(s, "wait") /\ UNCHANGED kern
    BY <1>1, <1>2, <1>4, <1>5, <1>9 DEF TryAgain
  <1> QED
    BY <1>6, <1>7, <1>8, <1>9

LEMMA SendTakesData ==
  ASSUME StreamType, op \in SendOps, NEW put \in 1 .. Len(sendraw(op.s)), op.start + op.total >= 1
  PROVE  /\ Offered(put) \in Seq(Data) /\ Len(Offered(put)) = put
         /\ op.start + op.total + put - 1 <= Len(Message[op.s])
         /\ \A i \in 1 .. put : Offered(put)[i] = Message[op.s][op.start + op.total - 1 + i]
  <1> DEFINE m == op.start + op.total
             l == Len(Message[op.s])
             e == Least(l, m + STEPSIZE - 1)
             msg == Message[op.s]
  <1>1. m \in Nat /\ m >= 1 /\ msg \in Seq(Data) /\ l \in Nat /\ STEPSIZE \in Nat
    BY StreamIsTyped, StreamAssumption DEF SendOps
  <1>2. sendraw(op.s) = SubSeq(msg, m, e)
    BY DEF sendraw
  <1>3. e \in Int /\ e <= l
    BY <1>1 DEF Least
  <1>13. m + put - 1 = op.start + op.total + put - 1 /\ m - 1 = op.start + op.total - 1
    BY DEF SendOps
  <1> HIDE DEF m, e, msg
  <1>4. \A i \in m .. e : msg[i] \in Data
    BY <1>1, <1>3 DEF msg
  <1>5. /\ SubSeq(msg, m, e) \in Seq(Data)
        /\ Len(SubSeq(msg, m, e)) = IF m <= e THEN e - m + 1 ELSE 0
        /\ \A i \in 1 .. e - m + 1 : SubSeq(msg, m, e)[i] = msg[m + i - 1]
    BY <1>1, <1>3, <1>4, SubSeqProperties
  <1>6. m <= e /\ put \in 1 .. e - m + 1
    BY <1>1, <1>2, <1>3, <1>5
  <1> DEFINE o == SubSeq(msg, m, e)
  <1> HIDE DEF o
  <1>7. o \in Seq(Data) /\ put \in 1 .. Len(o)
    BY <1>2, <1>5, <1>6 DEF o
  <1>8. /\ SubSeq(o, 1, put) \in Seq(Data) /\ Len(SubSeq(o, 1, put)) = put
        /\ \A i \in 1 .. put : SubSeq(o, 1, put)[i] = o[i]
    BY <1>7
  <1>9. \A i \in 1 .. put : o[i] = msg[m - 1 + i]
    BY <1>1, <1>3, <1>5, <1>6 DEF o
  <1>10. Offered(put) = SubSeq(o, 1, put)
    BY <1>2 DEF Offered, o
  <1>11. m + put - 1 <= l
    BY <1>1, <1>3, <1>6
  <1>12. /\ Offered(put) \in Seq(Data) /\ Len(Offered(put)) = put
         /\ \A i \in 1 .. put : Offered(put)[i] = msg[m - 1 + i]
    <2>1. \A i \in 1 .. put : SubSeq(o, 1, put)[i] = msg[m - 1 + i]
      BY <1>8, <1>9, Zenon
    <2> QED
      BY <1>8, <1>10, <2>1, Zenon
  <1>14. op.start + op.total + put - 1 <= Len(Message[op.s])
    BY <1>11, <1>13
  <1>15. \A i \in 1 .. put : Offered(put)[i] = Message[op.s][op.start + op.total - 1 + i]
    BY <1>12, <1>13, Zenon DEF msg
  <1> QED
    BY <1>12, <1>14, <1>15

LEMMA BaseSend ==
  ASSUME StreamBase, socket_send, op.start + op.total >= 1
  PROVE  StreamBase'
  <1>1. SameSend /\ op \in SendOps /\ op' \in SendOps /\ op.s \in Socks
    BY SendDoes DEF SameSend, SendOps
  <1>2. kern' \in [Socks -> KernOf]
    <2>1. CASE UNCHANGED kern
      BY <2>1 DEF StreamBase, StreamType
    <2>2. ASSUME NEW put \in 1 .. Len(sendraw(op.s)), kern' = [kern EXCEPT ![op.s].out = @ \o Offered(put)]
          PROVE  kern' \in [Socks -> KernOf]
      <3>1. Offered(put) \in Seq(Data)
        BY <1>1, SendTakesData DEF StreamBase
      <3>2. kern[op.s].out \o Offered(put) \in Seq(Data)
        BY <1>1, <3>1 DEF StreamBase, StreamType, KernOf
      <3> QED
        BY <1>1, <2>2, <3>2, ZenonT(60) DEF StreamBase, StreamType, KernOf
    <2> QED
      BY <2>1, <2>2, SendDoes
  <1>3. UNCHANGED <<sock, now, done, rest, given>>
    BY SendDoes
  <1> QED
    BY <1>1, <1>2, <1>3, BaseOther DEF StreamBase, StreamType

LEMMA WaitToWriteDoes ==
  ASSUME StreamBase, WaitToWrite
  PROVE  /\ SameSend /\ op'.total = op.total /\ op.pc = "wait" /\ UNCHANGED <<kern, sock, now, done, rest, given>>
         /\ \/ op'.pc = "send" /\ op'.err = op.err
            \/ op'.pc = "done" /\ op'.err = "timeout" /\ Expired
            \/ op'.pc = "wait" /\ op'.err = op.err /\ op'.until = Until(sock[op.s])
  <1>1. op.name = "send" /\ op.pc = "wait" /\ op \in SendOps /\ op.s \in Socks
    BY OpKinds DEF WaitToWrite, StreamBase, SendOps
  <1>2. UNCHANGED <<kern, sock, now, done, rest, given>>
    BY DEF WaitToWrite
  <1>3. CASE op' = [op EXCEPT !.pc = "send"]
    BY <1>1, <1>2, <1>3 DEF SameSend, SendOps
  <1>4. CASE Expired /\ Fails("timeout")
    BY <1>1, <1>2, <1>4 DEF Fails, SameSend, SendOps, Errors
  <1>5. CASE Waits(sock[op.s], "wait")
    <2>1. Until(sock[op.s]) \in Limits
      BY <1>1, SockLimits, UntilIsLimit DEF StreamBase, StreamType
    <2> QED
      BY <1>1, <1>2, <1>5, <2>1 DEF Waits, SameSend, SendOps
  <1> QED
    BY <1>1, <1>3, <1>4, <1>5 DEF WaitToWrite, socket_waitfd

LEMMA BaseWaitToWrite ==
  ASSUME StreamBase, WaitToWrite
  PROVE  StreamBase'
  BY WaitToWriteDoes, BaseOther DEF StreamBase, StreamType, SameSend

LEMMA BaseReturnSend ==
  ASSUME StreamBase, ReturnSend, op.start + op.total >= 1
  PROVE  StreamBase'
  <1>1. op \in SendOps /\ op.s \in Socks
    BY OpKinds DEF ReturnSend, StreamBase, SendOps
  <1>2. op.total + op.start - 1 \in Nat
    BY <1>1 DEF SendOps
  <1>3. given' \in [Socks -> Nat]
    BY <1>1, <1>2 DEF ReturnSend, StreamBase, StreamType
  <1> QED
    BY <1>3, BaseOther DEF ReturnSend, StreamBase, StreamType

\* A step of a select that goes on with it.
SelectDoes ==
  LET r == {s \in op.rset : Readable(s)}
      w == {s \in op.wset : Writable(s)}
  IN  /\ op \in SelectOps /\ op' \in SelectOps /\ op'.dirty = op.dirty /\ op'.rtab = op.rtab /\ op'.since = op.since
      /\ op'.block = op.block /\ op'.start = op.start
      /\ op.pc \in {"select", "wait"}
      /\ \/ op'.pc = "done" /\ op'.rset = r
         \/ op'.pc = "done" /\ op'.rset = {}
         \/ op'.pc = "wait" /\ op'.rset = op.rset /\ ~(op.pc = "select" /\ timeout_getretry(op) = 0)

LEMMA SelectSteps ==
  ASSUME StreamBase, socket_select
  PROVE  SelectDoes /\ UNCHANGED <<kern, sock, now, done, rest, given>>
  <1> DEFINE r == {s \in op.rset : Readable(s)}
             w == {s \in op.wset : Writable(s)}
             out == (op.pc = "select" /\ timeout_getretry(op) = 0) \/ Expired
             err == IF op.dirty = {} THEN "timeout" ELSE ""
  <1>1. op.name = "select" /\ op.pc \in {"select", "wait"} /\ op \in SelectOps
    BY OpKinds DEF socket_select, StreamBase
  <1>2. UNCHANGED <<kern, sock, now, done, rest, given>>
    BY DEF socket_select
  <1>3. r \in SUBSET Socks /\ w \in SUBSET Socks
    BY <1>1 DEF SelectOps
  <1>4. err \in Errors
    BY DEF Errors
  <1>5. \/ op' = [op EXCEPT !.pc = "done", !.rset = r, !.wset = w]
        \/ op' = [op EXCEPT !.pc = "done", !.rset = {}, !.wset = {}, !.err = err]
        \/ ~out /\ Waits(op, "wait")
    BY DEF socket_select
  <1> HIDE DEF r, w, err
  <1>6. CASE op' = [op EXCEPT !.pc = "done", !.rset = r, !.wset = w]
    <2>1. op' \in SelectOps /\ op'.pc = "done" /\ op'.rset = r /\ op'.dirty = op.dirty /\ op'.rtab = op.rtab
          /\ op'.since = op.since /\ op'.block = op.block /\ op'.start = op.start
      BY <1>1, <1>3, <1>6 DEF SelectOps
    <2> QED
      BY <1>1, <1>2, <2>1 DEF SelectDoes, r
  <1>7. CASE op' = [op EXCEPT !.pc = "done", !.rset = {}, !.wset = {}, !.err = err]
    <2>1. op' \in SelectOps /\ op'.pc = "done" /\ op'.rset = {} /\ op'.dirty = op.dirty /\ op'.rtab = op.rtab
          /\ op'.since = op.since /\ op'.block = op.block /\ op'.start = op.start
      BY <1>1, <1>4, <1>7 DEF SelectOps
    <2> QED
      BY <1>1, <1>2, <2>1 DEF SelectDoes
  <1>8. CASE ~out /\ Waits(op, "wait")
    <2>1. Until(op) \in Limits
      BY <1>1, UntilIsLimit DEF StreamBase, StreamType, SelectOps, Limits
    <2>2. op' \in SelectOps /\ op'.pc = "wait" /\ op'.rset = op.rset /\ op'.dirty = op.dirty /\ op'.rtab = op.rtab
          /\ op'.since = op.since /\ op'.block = op.block /\ op'.start = op.start
      BY <1>1, <1>8, <2>1 DEF Waits, SelectOps
    <2>3. ~(op.pc = "select" /\ timeout_getretry(op) = 0)
      BY <1>8
    <2> QED
      BY <1>1, <1>2, <2>2, <2>3 DEF SelectDoes
  <1> QED
    BY <1>5, <1>6, <1>7, <1>8

LEMMA BaseSelect ==
  ASSUME StreamBase, socket_select
  PROVE  StreamBase'
  BY SelectSteps, BaseOther DEF StreamBase, StreamType, SelectDoes

\* The peers leave the calls alone.
LEMMA BaseKern ==
  ASSUME StreamBase, UNCHANGED <<sock, op, done, rest, given>>, kern' \in [Socks -> KernOf], now' \in Nat
  PROVE  StreamBase'
  BY DEF StreamBase, StreamType, RestIsShort, ReceiveCounts

LEMMA BasePeer ==
  ASSUME StreamBase, NEW s \in Socks, PeerSends(s) \/ PeerReads(s) \/ PeerCloses(s)
  PROVE  kern' \in [Socks -> KernOf]
  <1>1. kern[s] \in KernOf /\ kern \in [Socks -> KernOf]
    BY DEF StreamBase, StreamType
  <1>2. CASE PeerSends(s)
    <2>1. kern[s].sent + 1 \in 1 .. Len(Stream[s])
      BY <1>1, <1>2, StreamIsTyped DEF PeerSends, KernOf
    <2>2. Stream[s][kern[s].sent + 1] \in Bytes
      BY <2>1, StreamIsTyped
    <2>3. Append(kern[s].in, Stream[s][kern[s].sent + 1]) \in Seq(Bytes) /\ kern[s].sent + 1 \in Nat
      BY <1>1, <2>2 DEF KernOf
    <2> QED
      BY <1>1, <1>2, <2>3 DEF PeerSends, KernOf
  <1>3. CASE PeerReads(s)
    <2>1. kern[s].wire \o kern[s].out \in Seq(Data) /\ <<>> \in Seq(Data)
      BY <1>1 DEF KernOf
    <2> QED
      BY <1>1, <1>3, <2>1 DEF PeerReads, KernOf
  <1>4. CASE PeerCloses(s)
    BY <1>1, <1>4 DEF PeerCloses, KernOf
  <1> QED
    BY <1>2, <1>3, <1>4

-----------------------------------------------------------------------------
(* What a send has given                                                      *)

\* The system has what send has counted, a first part of the message.
SentSoFar(s) == IF op.name = "send" /\ op.s = s THEN op.start + op.total - 1 ELSE given[s]
SendsInv ==
  /\ op.name = "send" => op.start = given[op.s] + 1
  /\ \A s \in Socks :
       LET taken == kern[s].wire \o kern[s].out
       IN  /\ Len(taken) = SentSoFar(s) /\ SentSoFar(s) <= Len(Message[s])
           /\ \A i \in 1 .. Len(taken) : taken[i] = Message[s][i]

\* Steps that leave what was sent.
LEMMA SendsApart ==
  ASSUME StreamBase, SendsInv, UNCHANGED given, op'.name # "send", op.name # "send",
         \A s \in Socks : kern'[s].wire \o kern'[s].out = kern[s].wire \o kern[s].out
  PROVE  SendsInv'
  <1>1. \A s \in Socks : SentSoFar(s)' = SentSoFar(s)
    BY DEF SentSoFar
  <1> QED
    BY <1>1, Zenon DEF SendsInv

LEMMA SendsSame ==
  ASSUME StreamBase, SendsInv, UNCHANGED given, op.name = "send", op'.name = "send", op'.s = op.s, op'.start = op.start,
         op'.total = op.total,
         \A s \in Socks : kern'[s].wire \o kern'[s].out = kern[s].wire \o kern[s].out
  PROVE  SendsInv'
  <1>1. \A s \in Socks : SentSoFar(s)' = SentSoFar(s)
    BY DEF SentSoFar
  <1> QED
    BY <1>1, Zenon DEF SendsInv

LEMMA SendsProp == StreamBase /\ SendsInv => SendsEachByteOnce
  <1> SUFFICES ASSUME StreamBase, SendsInv, NEW s \in Socks
               PROVE  LET taken == kern[s].wire \o kern[s].out
                      IN  /\ IsPrefix(taken, Message[s])
                          /\ Len(taken) = IF op.name = "send" /\ op.s = s THEN op.start + op.total - 1 ELSE given[s]
    BY DEF SendsEachByteOnce
  <1> DEFINE taken == kern[s].wire \o kern[s].out
             n == Len(taken)
             msg == Message[s]
  <1>1. taken \in Seq(Data) /\ msg \in Seq(Data)
    BY StreamIsTyped DEF StreamBase, StreamType, KernOf
  <1>2. n = SentSoFar(s) /\ SentSoFar(s) <= Len(msg) /\ \A i \in 1 .. n : taken[i] = msg[i]
    BY DEF SendsInv
  <1>3. IsPrefix(taken, msg)
    <2> HIDE DEF taken, msg
    <2>1. n \in Nat /\ n <= Len(msg)
      BY <1>1, <1>2
    <2>2. SubSeq(taken, 1, n) = SubSeq(msg, 1, n)
      BY <1>1, <1>2, <2>1
    <2> QED
      BY <2>1, <2>2 DEF IsPrefix
  <1> QED
    BY <1>2, <1>3 DEF SentSoFar

LEMMA SendsStart ==
  ASSUME StreamBase, SendsInv, NEW s \in Socks, buffer_meth_send(s)
  PROVE  SendsInv'
  <1>1. /\ op' = [name |-> "send", s |-> s, start |-> given[s] + 1, total |-> 0, err |-> "", until |-> None,
                  since |-> now, pc |-> "send"]
        /\ op = Idle /\ UNCHANGED <<kern, given>>
    BY DEF buffer_meth_send
  <1>2. op'.name = "send" /\ op'.s = s /\ op'.start = given[s] + 1 /\ op'.total = 0 /\ given[s] \in Nat /\ op.name # "send"
    BY <1>1 DEF StreamBase, StreamType, Idle
  <1>3. given[s] + 1 + 0 - 1 = given[s]
    BY <1>2
  <1>4. \A t \in Socks : SentSoFar(t)' = SentSoFar(t)
    BY <1>1, <1>2, <1>3 DEF SentSoFar
  <1> QED
    BY <1>1, <1>2, <1>4, Zenon DEF SendsInv

LEMMA DataAssociative == \A x, y, z \in Seq(Data) : x \o (y \o z) = (x \o y) \o z
  BY ConcatAssociative, SMTT(45)

LEMMA SendsMore ==
  ASSUME StreamBase, SendsInv, socket_send
  PROVE  SendsInv'
  <1> DEFINE s == op.s
  <1>1. SameSend /\ UNCHANGED given /\ s \in Socks /\ op.name = "send" /\ op'.name = "send" /\ op'.s = s /\ op'.start = op.start
    BY SendDoes DEF SameSend, SendOps
  <1>2. CASE op'.total = op.total /\ UNCHANGED kern
    BY <1>1, <1>2, SendsSame
  <1>3. ASSUME NEW put \in 1 .. Len(sendraw(s)), kern' = [kern EXCEPT ![s].out = @ \o Offered(put)], op'.total = op.total + put
        PROVE  SendsInv'
    <2> DEFINE wire == kern[s].wire
               out == kern[s].out
               o == Offered(put)
               msg == Message[s]
               n == op.start + op.total - 1
    <2>1. wire \in Seq(Data) /\ out \in Seq(Data) /\ op.start \in Nat /\ op.total \in Nat /\ op \in SendOps
      BY <1>1 DEF StreamBase, StreamType, KernOf, SameSend, SendOps
    <2>2. Len(wire \o out) = n /\ n <= Len(msg) /\ \A i \in 1 .. n : (wire \o out)[i] = msg[i]
      BY <1>1 DEF SendsInv, SentSoFar
    <2>3. op.start >= 1
      BY <1>1 DEF SendsInv, StreamBase, StreamType
    <2>4. /\ o \in Seq(Data) /\ Len(o) = put /\ n + put <= Len(msg)
          /\ \A i \in 1 .. put : o[i] = msg[n + i]
      <3>1. op.start + op.total >= 1 /\ n \in Nat /\ op.start + op.total + put - 1 = n + put
        BY <2>1, <2>3
      <3> HIDE DEF n
      <3>2. /\ o \in Seq(Data) /\ Len(o) = put
            /\ op.start + op.total + put - 1 <= Len(msg)
            /\ \A i \in 1 .. put : o[i] = msg[op.start + op.total - 1 + i]
        BY <2>1, <3>1, SendTakesData DEF StreamBase
      <3> QED
        BY <3>1, <3>2 DEF n
    <2>5. kern'[s].wire = wire /\ kern'[s].out = out \o o /\ \A t \in Socks : t # s => kern'[t] = kern[t]
      BY <1>1, <1>3 DEF StreamBase, StreamType, KernOf
    <2>6. \A t \in Socks : SentSoFar(t)' = IF t = s THEN n + put ELSE SentSoFar(t)
      <3>1. op'.start + op'.total - 1 = n + put
        <4>1. \A i, j, k \in Int : i + (j + k) - 1 = i + j - 1 + k
          OBVIOUS
        <4> QED
          BY <1>1, <1>3, <2>1, <4>1, SMTT(45)
      <3> QED
        BY <1>1, <3>1 DEF SentSoFar
    <2> HIDE DEF n, o, wire, out
    <2>7. wire \o (out \o o) = (wire \o out) \o o
      <3>1. \A x, y, z \in Seq(Data) : x \o (y \o z) = (x \o y) \o z
        BY DataAssociative
      <3> QED
        BY <2>1, <2>4, <3>1, Zenon
    <2>8. /\ Len(wire \o (out \o o)) = n + put
          /\ \A i \in 1 .. n + put : (wire \o (out \o o))[i] = msg[i]
      <3> DEFINE u == wire \o out
      <3>1. u \in Seq(Data) /\ Len(u) = n /\ \A i \in 1 .. n : u[i] = msg[i]
        BY <2>1, <2>2
      <3> HIDE DEF u, msg
      <3>2. /\ Len(u \o o) = n + put
            /\ \A i \in 1 .. n + put : (u \o o)[i] = msg[i]
        BY <2>4, <3>1, SMTT(45)
      <3> QED
        BY <2>7, <3>2, Zenon DEF u
    <2>9. op'.start = given'[op'.s] + 1
      BY <1>1 DEF SendsInv
    <2>10. ASSUME NEW t \in Socks
           PROVE  /\ Len(kern'[t].wire \o kern'[t].out) = SentSoFar(t)' /\ SentSoFar(t)' <= Len(Message[t])
                  /\ \A i \in 1 .. Len(kern'[t].wire \o kern'[t].out) : (kern'[t].wire \o kern'[t].out)[i] = Message[t][i]
      <3>1. CASE t = s
        <4>1. kern'[t].wire \o kern'[t].out = wire \o (out \o o)
          BY <2>5, <3>1, Zenon
        <4>2. SentSoFar(t)' = n + put
          BY <2>6, <3>1, Zenon
        <4>3. n + put <= Len(msg) /\ msg = Message[t]
          BY <2>4, <3>1, Zenon
        <4> QED
          BY <2>8, <4>1, <4>2, <4>3, Zenon
      <3>2. CASE t # s
        BY <2>5, <2>6, <3>2, Zenon DEF SendsInv
      <3> QED
        BY <3>1, <3>2
    <2> QED
      BY <2>9, <2>10, Zenon DEF SendsInv
  <1> QED
    BY <1>1, <1>2, <1>3, SendDoes

LEMMA SendsReturn ==
  ASSUME StreamBase, SendsInv, ReturnSend
  PROVE  SendsInv'
  <1>1. op \in SendOps /\ op.s \in Socks /\ op.name = "send"
    BY OpKinds DEF ReturnSend, StreamBase, SendOps
  <1>2. given' = [given EXCEPT ![op.s] = op.total + op.start - 1] /\ op' = Idle /\ UNCHANGED kern
    BY DEF ReturnSend
  <1>3. op.total + op.start - 1 = op.start + op.total - 1 /\ op'.name # "send"
    BY <1>1, <1>2 DEF SendOps, Idle
  <1>4. \A t \in Socks : SentSoFar(t)' = SentSoFar(t)
    BY <1>1, <1>2, <1>3 DEF SentSoFar, StreamBase, StreamType
  <1> QED
    BY <1>2, <1>3, <1>4, Zenon DEF SendsInv

-----------------------------------------------------------------------------
(* Limits on time                                                             *)

\* When a wait that begins now ends, against the limits of the whole call.
WaitIsBounded(tm, until) ==
  LET endsBy(limit) == until >= 0 /\ (until - tm.start <= limit \/ until <= now)
  IN  /\ tm.total >= 0 => endsBy(tm.total)
      /\ tm.total < 0 /\ tm.block >= 0 => endsBy(tm.block)
      /\ until >= 0 => \/ tm.block >= 0 /\ until - tm.start >= tm.block
                       \/ tm.total >= 0 /\ until - tm.start >= tm.total

LEMMA UntilIsBounded ==
  ASSUME NEW tm, tm.block \in Limits, tm.total \in Limits, tm.start \in Nat, now \in Nat, tm.start <= now
  PROVE  WaitIsBounded(tm, Until(tm))
  <1> DEFINE b == tm.block t == tm.total st == tm.start
  <1>1. b \in Int /\ t \in Int /\ st \in Int /\ now \in Int /\ b >= -1 /\ t >= -1 /\ st <= now
    BY DEF Limits, None
  <1>2. /\ b < 0 /\ t < 0 => Until(tm) = None
        /\ b < 0 /\ t >= 0 => Until(tm) = now + Most(t - now + st, 0)
        /\ b >= 0 /\ t < 0 => Until(tm) = now + Most(b - now + st, 0)
        /\ b >= 0 /\ t >= 0 => Until(tm) = now + Least(b, Most(t - now + st, 0))
    <2>1. CASE b < 0 /\ t < 0
      <3>1. timeout_getretry(tm) = None
        BY <1>1, <2>1 DEF timeout_getretry
      <3>2. None < 0
        BY DEF None
      <3>3. Until(tm) = None
        BY <3>1, <3>2, Zenon DEF Until
      <3> QED
        BY <1>1, <2>1, <3>3
    <2>2. CASE b < 0 /\ t >= 0
      <3>1. timeout_getretry(tm) = Most(t - now + st, 0)
        BY <1>1, <2>2 DEF timeout_getretry
      <3> QED
        BY <1>1, <2>2, <3>1 DEF Until, Most
    <2>3. CASE b >= 0 /\ t < 0
      <3>1. timeout_getretry(tm) = Most(b - now + st, 0)
        BY <1>1, <2>3 DEF timeout_getretry
      <3> QED
        BY <1>1, <2>3, <3>1 DEF Until, Most
    <2>4. CASE b >= 0 /\ t >= 0
      <3>1. timeout_getretry(tm) = Least(b, Most(t - now + st, 0))
        BY <1>1, <2>4 DEF timeout_getretry
      <3> QED
        BY <1>1, <2>4, <3>1 DEF Until, Most, Least
    <2> QED
      BY <1>1, <2>1, <2>2, <2>3, <2>4
  <1> DEFINE u == Until(tm)
  <1> HIDE DEF b, t, st, u
  <1>3. /\ t >= 0 => u >= 0 /\ (u - st <= t \/ u <= now)
        /\ t < 0 /\ b >= 0 => u >= 0 /\ (u - st <= b \/ u <= now)
        /\ u >= 0 => \/ b >= 0 /\ u - st >= b
                     \/ t >= 0 /\ u - st >= t
    <2>1. CASE b < 0 /\ t < 0
      <3>1. u = -1
        BY <1>2, <2>1 DEF u, None
      <3> QED
        BY <1>1, <2>1, <3>1
    <2>2. CASE b < 0 /\ t >= 0
      <3>1. u = now + Most(t - now + st, 0)
        BY <1>2, <2>2 DEF u
      <3> QED
        BY <1>1, <2>2, <3>1 DEF Most
    <2>3. CASE b >= 0 /\ t < 0
      <3>1. u = now + Most(b - now + st, 0)
        BY <1>2, <2>3 DEF u
      <3> QED
        BY <1>1, <2>3, <3>1 DEF Most
    <2>4. CASE b >= 0 /\ t >= 0
      <3>1. u = now + Least(b, Most(t - now + st, 0))
        BY <1>2, <2>4 DEF u
      <3> QED
        BY <1>1, <2>4, <3>1 DEF Most, Least
    <2> QED
      BY <1>1, <2>1, <2>2, <2>3, <2>4
  <1> QED
    BY <1>3 DEF WaitIsBounded, b, t, st, u

LimitsInv ==
  op.name \in {"receive", "send"} =>
    LET tm == sock[op.s]
    IN  /\ op.since = tm.start /\ tm.start <= now
        /\ op.pc = "wait" => WaitIsBounded(tm, op.until)
        /\ op.err = "timeout" => \/ tm.block >= 0 /\ now - tm.start >= tm.block
                                 \/ tm.total >= 0 /\ now - tm.start >= tm.total

\* A step of a call in progress: it leaves the limits, and waits or fails as they say.
LimitsStep ==
  /\ op'.s = op.s /\ op'.since = op.since /\ now' = now
  /\ sock'[op.s].block = sock[op.s].block /\ sock'[op.s].total = sock[op.s].total /\ sock'[op.s].start = sock[op.s].start
  /\ \/ op'.pc # "wait" /\ op'.err \in {"", "closed"}
     \/ op'.pc # "wait" /\ op'.err = op.err
     \/ op'.pc = "wait" /\ op'.err = op.err /\ op'.until = Until(sock[op.s])
     \/ op'.pc = "done" /\ op'.err = "timeout" /\ timeout_iszero(sock[op.s])
     \/ op'.pc = "done" /\ op'.err = "timeout" /\ op.pc = "wait" /\ Expired

LEMMA LimitsKept ==
  ASSUME StreamBase, LimitsInv, op.name \in {"receive", "send"}, LimitsStep
  PROVE  LimitsInv'
  <1> DEFINE tm == sock[op.s]
  <1>1. op.s \in Socks /\ op.until \in Limits
    BY OpKinds DEF StreamBase, ReceiveOps, SendOps
  <1>2. tm.block \in Limits /\ tm.total \in Limits /\ tm.start \in Nat /\ now \in Nat
    BY <1>1, SockLimits DEF StreamBase, StreamType
  <1>3. /\ op.since = tm.start /\ tm.start <= now
        /\ op.pc = "wait" => WaitIsBounded(tm, op.until)
        /\ op.err = "timeout" => \/ tm.block >= 0 /\ now - tm.start >= tm.block
                                 \/ tm.total >= 0 /\ now - tm.start >= tm.total
    BY DEF LimitsInv
  <1>4. op'.since = sock'[op'.s].start /\ sock'[op'.s].start <= now'
    BY <1>3 DEF LimitsStep
  <1>5. ASSUME op'.pc = "wait" PROVE WaitIsBounded(sock[op.s], op.until)'
    <2>1. op'.until = Until(tm)
      BY <1>5 DEF LimitsStep
    <2>2. WaitIsBounded(tm, op'.until)
      BY <1>2, <1>3, <2>1, UntilIsBounded
    <2> QED
      BY <2>2 DEF WaitIsBounded, LimitsStep
  <1>6. ASSUME op'.err = "timeout"
        PROVE  \/ tm.block >= 0 /\ now - tm.start >= tm.block
               \/ tm.total >= 0 /\ now - tm.start >= tm.total
    <2>1. CASE op.err = "timeout"
      BY <1>3, <2>1
    <2>2. CASE timeout_iszero(sock[op.s])
      BY <1>2, <1>3, <2>2 DEF timeout_iszero
    <2>3. CASE op.pc = "wait" /\ Expired
      <3>1. op.until >= 0 /\ now >= op.until
        BY <2>3 DEF Expired
      <3>2. \/ tm.block >= 0 /\ op.until - tm.start >= tm.block
            \/ tm.total >= 0 /\ op.until - tm.start >= tm.total
        BY <1>3, <2>3, <3>1 DEF WaitIsBounded
      <3> QED
        BY <1>1, <1>2, <3>1, <3>2 DEF Limits, None
    <2> QED
      BY <1>6, <2>1, <2>2, <2>3 DEF LimitsStep
  <1>7. op'.err = "timeout" => \/ sock'[op'.s].block >= 0 /\ now' - sock'[op'.s].start >= sock'[op'.s].block
                               \/ sock'[op'.s].total >= 0 /\ now' - sock'[op'.s].start >= sock'[op'.s].total
    BY <1>6 DEF LimitsStep
  <1> QED
    BY <1>4, <1>5, <1>7, Zenon DEF LimitsInv

\* A call that begins.
LEMMA LimitsStart ==
  ASSUME StreamBase, op'.name \in {"receive", "send"}, op'.s \in Socks, op'.since = now, now' = now,
         sock' = [sock EXCEPT ![op'.s].start = now], op'.pc # "wait", op'.err # "timeout"
  PROVE  LimitsInv'
  <1>1. sock'[op'.s].start = now /\ now \in Nat
    BY DEF StreamBase, StreamType, SockOf
  <1>2. op'.since = sock'[op'.s].start /\ sock'[op'.s].start <= now' /\ op'.pc # "wait" /\ op'.err # "timeout"
    <2>1. now <= now
      BY <1>1
    <2> QED
      BY <1>1, <2>1, Zenon
  <1> QED
    BY <1>2, Zenon DEF LimitsInv

LEMMA LimitsProp == StreamBase /\ LimitsInv => LimitsHold
  <1> SUFFICES ASSUME StreamBase, LimitsInv, op.name \in {"receive", "send"} PROVE LimitsHold
    BY DEF LimitsHold
  <1>1. op.s \in Socks
    BY OpKinds DEF StreamBase, ReceiveOps, SendOps
  <1>2. op.since = sock[op.s].start
    BY DEF LimitsInv
  <1> QED
    BY <1>2 DEF LimitsInv, LimitsHold, WaitIsBounded

\* Time passes.
LEMMA LimitsTick ==
  ASSUME StreamBase, LimitsInv, UNCHANGED <<op, sock>>, now' = now + 1
  PROVE  LimitsInv'
  <1> SUFFICES ASSUME op.name \in {"receive", "send"} PROVE LimitsInv'
    BY DEF LimitsInv
  <1> DEFINE tm == sock[op.s]
  <1>1. op.s \in Socks /\ op.until \in Limits
    BY OpKinds DEF StreamBase, ReceiveOps, SendOps
  <1>2. tm.block \in Limits /\ tm.total \in Limits /\ tm.start \in Nat /\ now \in Nat
    BY <1>1, SockLimits DEF StreamBase, StreamType
  <1>3. /\ op.since = tm.start /\ tm.start <= now
        /\ op.pc = "wait" => WaitIsBounded(tm, op.until)
        /\ op.err = "timeout" => \/ tm.block >= 0 /\ now - tm.start >= tm.block
                                 \/ tm.total >= 0 /\ now - tm.start >= tm.total
    BY DEF LimitsInv
  <1>4. op.pc = "wait" => WaitIsBounded(tm, op.until)'
    BY <1>1, <1>2, <1>3 DEF WaitIsBounded, Limits, None
  <1>5. op.err = "timeout" => \/ tm.block >= 0 /\ now' - tm.start >= tm.block
                              \/ tm.total >= 0 /\ now' - tm.start >= tm.total
    BY <1>2, <1>3 DEF Limits, None
  <1>6. tm.start <= now'
    BY <1>2, <1>3
  <1> QED
    BY <1>3, <1>4, <1>5, <1>6 DEF LimitsInv

-----------------------------------------------------------------------------
(* select                                                                     *)

SelectInv ==
  op.name = "select" =>
    /\ op.dirty = {s \in op.rtab : kern[s].open /\ sock[s].buf # <<>>}
    /\ op.dirty # {} => op.block = 0
    /\ op.start <= now
    /\ op.pc = "wait" => op.dirty = {}
    /\ op.pc = "done" => \A s \in op.rset : Readable(s)

LEMMA SelectStarts ==
  ASSUME StreamBase, NEW rtab \in SUBSET Socks, NEW wtab \in SUBSET Socks, NEW t \in Timeouts, global_select(rtab, wtab, t)
  PROVE  SelectInv'
  <1> DEFINE dirty == check_dirty(rtab)
             block == IF dirty # {} THEN 0 ELSE t
  <1>1. /\ op' = [name |-> "select", rset |-> Given(rtab) \ dirty, wset |-> Given(wtab), dirty |-> dirty, rtab |-> rtab,
                  block |-> block, total |-> None, start |-> now, err |-> "", until |-> None, since |-> now, pc |-> "select"]
        /\ UNCHANGED <<kern, sock, now>>
    BY DEF global_select
  <1>2. dirty = {s \in rtab : kern[s].open /\ sock[s].buf # <<>>}
    BY DEF check_dirty, Given
  <1>3. now \in Nat
    BY DEF StreamBase, StreamType
  <1> HIDE DEF dirty
  <1>4. op'.dirty = dirty /\ op'.rtab = rtab /\ op'.block = block /\ op'.start = now /\ op'.pc = "select"
    BY <1>1
  <1>5. op'.dirty = {s \in op'.rtab : kern'[s].open /\ sock'[s].buf # <<>>}
    BY <1>1, <1>2, <1>4
  <1>6. (op'.dirty # {} => op'.block = 0) /\ op'.start <= now' /\ op'.pc # "wait" /\ op'.pc # "done"
    <2>1. now <= now
      BY <1>3
    <2>2. now' = now /\ op'.pc # "wait" /\ op'.pc # "done"
      BY <1>1, <1>4
    <2>3. op'.dirty # {} => op'.block = 0
      BY <1>4
    <2> QED
      BY <1>4, <2>1, <2>2, <2>3, Zenon
  <1> QED
    BY <1>5, <1>6, Zenon DEF SelectInv

LEMMA SelectKept ==
  ASSUME StreamBase, SelectInv, socket_select
  PROVE  SelectInv'
  <1>1. SelectDoes /\ UNCHANGED <<kern, sock, now>>
    BY SelectSteps
  <1>2. op.name = "select" /\ op \in SelectOps
    BY <1>1 DEF SelectDoes, SelectOps
  <1>3. /\ op.dirty = {s \in op.rtab : kern[s].open /\ sock[s].buf # <<>>}
        /\ op.dirty # {} => op.block = 0
        /\ op.start <= now
        /\ op.pc = "wait" => op.dirty = {}
    BY <1>2 DEF SelectInv
  <1>4. op'.dirty = {s \in op'.rtab : kern'[s].open /\ sock'[s].buf # <<>>}
    BY <1>1, <1>3 DEF SelectDoes
  <1>5. op'.pc = "wait" => op'.dirty = {}
    <2> SUFFICES ASSUME op'.pc = "wait", op.dirty # {} PROVE FALSE
      BY <1>1 DEF SelectDoes
    <2>1. op.pc = "select" /\ op.block = 0 /\ op.total = -1
      BY <1>1, <1>2, <1>3 DEF SelectDoes, SelectOps, None
    <2>2. timeout_getretry(op) # 0
      BY <1>1, <2>1 DEF SelectDoes
    <2>3. op.start \in Nat /\ now \in Nat
      BY <1>2 DEF SelectOps, StreamBase, StreamType
    <2>4. timeout_getretry(op) = Most(0 - now + op.start, 0)
      BY <2>1 DEF timeout_getretry
    <2> QED
      BY <1>3, <2>2, <2>3, <2>4 DEF Most
  <1>6. op'.pc = "done" => \A s \in op'.rset : Readable(s)
    BY <1>1 DEF SelectDoes
  <1>7. \A s : Readable(s)' = Readable(s)
    BY <1>1 DEF Readable
  <1> QED
    BY <1>1, <1>3, <1>4, <1>5, <1>6, <1>7 DEF SelectInv, SelectDoes

\* Steps outside a select's own.
LEMMA SelectApart ==
  ASSUME op'.name # "select" \/ (/\ SelectInv /\ UNCHANGED <<op, sock>> /\ now <= now' /\ StreamBase /\ now' \in Nat
                                 /\ \A s \in Socks : kern'[s].open = kern[s].open /\ (Readable(s) => Readable(s)'))
  PROVE  SelectInv'
  <1>1. CASE op'.name # "select"
    BY <1>1 DEF SelectInv
  <1>2. CASE /\ SelectInv /\ UNCHANGED <<op, sock>> /\ now <= now' /\ StreamBase /\ now' \in Nat
             /\ \A s \in Socks : kern'[s].open = kern[s].open /\ (Readable(s) => Readable(s)')
    <2> SUFFICES ASSUME op.name = "select" PROVE SelectInv'
      BY <1>2 DEF SelectInv
    <2>1. op \in SelectOps /\ now \in Nat
      BY <1>2, OpKinds DEF StreamBase, StreamType
    <2>2. op.rtab \subseteq Socks /\ op.rset \subseteq Socks /\ op.start \in Nat
      BY <2>1 DEF SelectOps
    <2>3. op.dirty = {s \in op.rtab : kern'[s].open /\ sock'[s].buf # <<>>}
      BY <1>2, <2>2 DEF SelectInv
    <2>4. op.start <= now'
      BY <1>2, <2>1, <2>2 DEF SelectInv
    <2>5. op.pc = "done" => \A s \in op.rset : Readable(s)'
      BY <1>2, <2>2 DEF SelectInv
    <2>6. (op.dirty # {} => op.block = 0) /\ (op.pc = "wait" => op.dirty = {})
      BY <1>2 DEF SelectInv
    <2> QED
      BY <1>2, <2>3, <2>4, <2>5, <2>6 DEF SelectInv
  <1> QED
    BY <1>1, <1>2

LEMMA SelectProp == SelectInv => SelectKnowsTheBuffers
  BY DEF SelectInv, SelectKnowsTheBuffers

-----------------------------------------------------------------------------
(* What the receives have read                                                *)

\* The buffer and then the system hold what was sent after the first upto bytes.
Holds(stream, upto, buf, in) ==
  /\ upto \in Nat
  /\ \A i \in 1 .. Len(buf) : buf[i] = stream[upto + i]
  /\ \A i \in 1 .. Len(in) : in[i] = stream[upto + Len(buf) + i]

\* The bytes of a stream between two places, as a receive by a pattern has them
\* when it has ended or not.
Between(stream, from, upto) == SubSeq(stream, from + 1, upto)
PartRead(stream, from, upto, pat, res, ended) ==
  /\ from \in Nat /\ upto \in Nat /\ from <= upto
  /\ pat = NoPattern => from = upto
  /\ pat = Line =>
       /\ res = Text(Between(stream, from, upto))
       /\ IF ended THEN /\ upto > from /\ stream[upto] = LF
                        /\ \A i \in from + 1 .. upto - 1 : stream[i] # LF
          ELSE \A i \in from + 1 .. upto : stream[i] # LF
  /\ pat \notin {NoPattern, Line} => res = Between(stream, from, upto)

\* The receive in progress, or the one the program will make again.
Reading(s) == op.name = "receive" /\ op.s = s
Pat(s) == IF Reading(s) THEN op.pat ELSE rest[s].pat
Res(s) == IF Reading(s) THEN op.b ELSE rest[s].b
Ended(s) == Reading(s) /\ op.pc = "done" /\ op.err = ""
From(s, i) == IF i = 1 THEN 0 ELSE done[s][i - 1].upto
LastUpto(s) == From(s, Len(done[s]) + 1)
AtEnd(s) == kern[s].eof /\ kern[s].in = <<>> /\ sock[s].buf = <<>>

CutInv(s) ==
  /\ kern[s].sent <= Len(Stream[s]) /\ Holds(Stream[s], Upto(s), sock[s].buf, kern[s].in)
  /\ PartRead(Stream[s], LastUpto(s), Upto(s), Pat(s), Res(s), Ended(s))
  /\ kern[s].open /\ Ended(s) /\ Pat(s) = All => AtEnd(s)
  /\ \A i \in 1 .. Len(done[s]) :
       LET rec == done[s][i] IN
       /\ rec.upto <= kern[s].sent
       /\ PartRead(Stream[s], From(s, i), rec.upto, rec.pat, rec.res, TRUE)
       /\ rec.pat >= 0 => rec.upto - From(s, i) = rec.pat
       /\ kern[s].open /\ rec.pat = All => kern[s].eof /\ rec.upto = kern[s].sent
ReceivesInv == \A s \in Socks : CutInv(s)

LEMMA HoldsTake ==
  ASSUME NEW S, NEW stream, NEW upto \in Nat, NEW buf \in Seq(S), NEW in \in Seq(S), NEW n \in 0 .. Len(buf),
         Holds(stream, upto, buf, in)
  PROVE  Holds(stream, upto + n, SubSeq(buf, n + 1, Len(buf)), in)
  <1> DEFINE b == SubSeq(buf, n + 1, Len(buf))
  <1>1. Len(buf) \in Nat /\ n \in Nat /\ Len(b) = Len(buf) - n /\ \A i \in 1 .. Len(b) : b[i] = buf[n + i]
    OBVIOUS
  <1> HIDE DEF b
  <1>2. ASSUME NEW i \in 1 .. Len(b) PROVE b[i] = stream[upto + n + i]
    <2>1. n + i \in 1 .. Len(buf) /\ upto + (n + i) = upto + n + i
      BY <1>1
    <2>2. buf[n + i] = stream[upto + (n + i)]
      BY <2>1 DEF Holds
    <2> QED
      BY <1>1, <2>1, <2>2
  <1>3. upto + n \in Nat /\ upto + n + Len(b) = upto + Len(buf)
    BY <1>1
  <1> QED
    BY <1>2, <1>3 DEF Holds, b

LEMMA HoldsFill ==
  ASSUME NEW S, NEW stream, NEW upto \in Nat, NEW in \in Seq(S), NEW n \in 0 .. Len(in), Holds(stream, upto, <<>>, in)
  PROVE  Holds(stream, upto, SubSeq(in, 1, n), SubSeq(in, n + 1, Len(in)))
  <1> DEFINE b == SubSeq(in, 1, n)
             r == SubSeq(in, n + 1, Len(in))
  <1>1. /\ Len(in) \in Nat /\ n \in Nat /\ Len(b) = n /\ Len(r) = Len(in) - n
        /\ \A i \in 1 .. Len(b) : b[i] = in[i]
        /\ \A i \in 1 .. Len(r) : r[i] = in[n + i]
    OBVIOUS
  <1> HIDE DEF b, r
  <1>2. \A i \in 1 .. Len(in) : in[i] = stream[upto + i]
    BY DEF Holds
  <1>3. ASSUME NEW i \in 1 .. Len(r) PROVE r[i] = stream[upto + Len(b) + i]
    <2>1. n + i \in 1 .. Len(in) /\ upto + (n + i) = upto + Len(b) + i
      BY <1>1
    <2> QED
      BY <1>1, <1>2, <2>1
  <1>4. \A i \in 1 .. Len(b) : b[i] = stream[upto + i]
    BY <1>1, <1>2, SMTT(45)
  <1> QED
    BY <1>3, <1>4 DEF Holds, b, r

LEMMA HoldsSent ==
  ASSUME NEW S, NEW stream, NEW upto \in Nat, NEW buf \in Seq(S), NEW in \in Seq(S), NEW c \in S,
         Holds(stream, upto, buf, in), c = stream[upto + Len(buf) + Len(in) + 1]
  PROVE  Holds(stream, upto, buf, Append(in, c))
  <1> DEFINE r == Append(in, c)
             l == Len(in)
  <1>1. l \in Nat /\ Len(buf) \in Nat /\ Len(r) = l + 1 /\ r[l + 1] = c /\ \A i \in 1 .. l : r[i] = in[i]
    OBVIOUS
  <1> HIDE DEF r, l
  <1>2. ASSUME NEW i \in 1 .. Len(r) PROVE r[i] = stream[upto + Len(buf) + i]
    <2>1. CASE i = l + 1
      <3>1. upto + Len(buf) + l + 1 = upto + Len(buf) + (l + 1)
        BY <1>1
      <3> QED
        BY <1>1, <2>1, <3>1 DEF l
    <2>2. CASE i # l + 1
      <3>1. i \in 1 .. l
        BY <1>1, <2>2
      <3> QED
        BY <1>1, <3>1 DEF Holds, l
    <2> QED
      BY <2>1, <2>2
  <1> QED
    BY <1>2 DEF Holds, r

\* Pieces of a stream that follow each other.
Joins(stream, from, mid, upto) ==
  Between(stream, from, mid) \o Between(stream, mid, upto) = Between(stream, from, upto)
LEMMA BetweenJoins ==
  ASSUME NEW S, NEW stream \in Seq(S), NEW from \in Nat, NEW mid \in Nat, NEW upto \in Nat,
         from <= mid, mid <= upto, upto <= Len(stream)
  PROVE  Joins(stream, from, mid, upto)
  <1>1. Len(stream) \in Nat
    OBVIOUS
  <1>2. from + 1 \in 1 .. Len(stream) + 1 /\ mid \in from + 1 - 1 .. Len(stream) /\ upto \in mid .. Len(stream)
    BY <1>1
  <1>3. SubSeq(stream, from + 1, mid) \o SubSeq(stream, mid + 1, upto) = SubSeq(stream, from + 1, upto)
    BY <1>2, ConcatAdjacentSubSeq
  <1> QED
    BY <1>3, Zenon DEF Joins, Between

LEMMA BetweenIsSeq ==
  ASSUME NEW S, NEW stream \in Seq(S), NEW from \in Nat, NEW upto \in Nat, from <= upto, upto <= Len(stream)
  PROVE  /\ Between(stream, from, upto) \in Seq(S) /\ Len(Between(stream, from, upto)) = upto - from
         /\ \A i \in 1 .. upto - from : Between(stream, from, upto)[i] = stream[from + i]
  <1>1. \A i \in from + 1 .. upto : stream[i] \in S
    OBVIOUS
  <1> QED
    BY <1>1 DEF Between

LEMMA BetweenBuffer ==
  ASSUME NEW S, NEW stream \in Seq(S), NEW upto \in Nat, NEW buf \in Seq(S), NEW n \in 0 .. Len(buf),
         upto + Len(buf) <= Len(stream), \A i \in 1 .. Len(buf) : buf[i] = stream[upto + i]
  PROVE  SubSeq(buf, 1, n) = Between(stream, upto, upto + n)
  <1> DEFINE b == SubSeq(buf, 1, n)
             t == Between(stream, upto, upto + n)
  <1>1. b \in Seq(S) /\ Len(b) = n /\ \A i \in 1 .. n : b[i] = buf[i]
    OBVIOUS
  <1>2. n \in Nat /\ Len(buf) \in Nat /\ Len(stream) \in Nat /\ upto + n <= Len(stream) /\ upto + n - upto = n
        /\ upto <= upto + n /\ upto + n \in Nat
    OBVIOUS
  <1>3. t \in Seq(S) /\ Len(t) = n /\ \A i \in 1 .. n : t[i] = stream[upto + i]
    <2> DEFINE v == upto + n
    <2>1. v \in Nat /\ upto <= v /\ v <= Len(stream) /\ v - upto = n
      BY <1>2
    <2> HIDE DEF v
    <2>2. /\ Between(stream, upto, v) \in Seq(S) /\ Len(Between(stream, upto, v)) = v - upto
          /\ \A i \in 1 .. v - upto : Between(stream, upto, v)[i] = stream[upto + i]
      BY <2>1, BetweenIsSeq, ZenonT(60)
    <2> QED
      BY <2>1, <2>2 DEF v
  <1> HIDE DEF b, t
  <1>4. ASSUME NEW i \in 1 .. n PROVE b[i] = t[i]
    <2>1. i \in 1 .. Len(buf)
      BY <1>2
    <2> QED
      BY <1>1, <1>3, <2>1, Zenon
  <1>5. b = t
    BY <1>1, <1>3, <1>4, SeqEqual
  <1> QED
    BY <1>5 DEF b, t

\* A receive that takes bytes of the buffer has read so much more.
LEMMA PartTakes ==
  ASSUME NEW S, NEW stream \in Seq(S), NEW from \in Nat, NEW upto \in Nat, NEW buf \in Seq(S), NEW n \in 0 .. Len(buf),
         NEW pat, NEW res, NEW b, NEW end \in BOOLEAN,
         upto + Len(buf) <= Len(stream), \A i \in 1 .. Len(buf) : buf[i] = stream[upto + i],
         PartRead(stream, from, upto, pat, res, FALSE), pat # NoPattern,
         pat = Line => /\ b = Text(SubSeq(buf, 1, n)) /\ n > 0
                       /\ end <=> buf[n] = LF
                       /\ \A i \in 1 .. n - 1 : buf[i] # LF,
         pat # Line => b = SubSeq(buf, 1, n)
  PROVE  PartRead(stream, from, upto + n, pat, res \o b, end)
  <1> DEFINE v == upto + n
             old == Between(stream, from, upto)
             new == Between(stream, upto, v)
             all == Between(stream, from, v)
             joined == res \o b
  <1>1. /\ Len(buf) \in Nat /\ n \in Nat /\ Len(stream) \in Nat /\ v \in Nat /\ upto <= v /\ v <= Len(stream)
        /\ from <= upto /\ from <= v /\ upto <= Len(stream)
    BY DEF PartRead
  <1>2. SubSeq(buf, 1, n) = new
    BY BetweenBuffer
  <1> HIDE DEF v
  <1>3. old \in Seq(S) /\ new \in Seq(S)
    BY <1>1, BetweenIsSeq
  <1>4. old \o new = all
    <2>1. Joins(stream, from, upto, v)
      BY <1>1, BetweenJoins
    <2> QED
      BY <2>1, Zenon DEF Joins
  <1> HIDE DEF old, new, all
  <1>5. CASE pat # Line
    <2>1. res = old /\ b = new
      BY <1>2, <1>5, Zenon DEF PartRead, old
    <2>2. joined = all
      BY <1>4, <2>1, Zenon
    <2> HIDE DEF joined
    <2>3. PartRead(stream, from, v, pat, joined, end)
      BY <1>1, <1>5, <2>2 DEF PartRead, all
    <2> QED
      BY <2>3, Zenon DEF v, joined
  <1>6. CASE pat = Line
    <2>1. res = Text(old) /\ b = Text(new) /\ n > 0
      BY <1>2, <1>6, Zenon DEF PartRead, old
    <2>2. joined = Text(all)
      <3>1. Text(old \o new) = Text(old) \o Text(new)
        BY <1>3, TextConcat
      <3> QED
        BY <1>4, <2>1, <3>1, Zenon
    <2>3. \A i \in from + 1 .. upto : stream[i] # LF
      BY <1>6, Zenon DEF PartRead
    <2>4. ASSUME NEW i \in from + 1 .. v, i # v \/ ~end PROVE stream[i] # LF
      <3>1. CASE i <= upto
        <4>1. i \in from + 1 .. upto
          BY <1>1, <3>1
        <4> QED
          BY <2>3, <4>1
      <3>2. CASE ~(i <= upto)
        <4> DEFINE k == i - upto
        <4>1. k \in 1 .. n /\ i = upto + k /\ (k = n <=> i = v)
          BY <1>1, <3>2 DEF v
        <4> HIDE DEF k
        <4>2. buf[k] # LF
          <5>1. CASE k = n
            BY <1>6, <2>4, <4>1, <5>1
          <5>2. CASE k # n
            <6>1. k \in 1 .. n - 1
              BY <1>1, <4>1, <5>2
            <6> QED
              BY <1>6, <6>1
          <5> QED
            BY <5>1, <5>2
        <4>3. k \in 1 .. Len(buf)
          BY <1>1, <4>1
        <4> QED
          BY <4>1, <4>2, <4>3
      <3> QED
        BY <3>1, <3>2
    <2>5. ASSUME end PROVE stream[v] = LF /\ v > from
      <3>1. n \in 1 .. Len(buf)
        BY <1>1, <2>1
      <3>2. buf[n] = stream[v]
        BY <3>1 DEF v
      <3> QED
        BY <1>1, <1>6, <2>1, <2>5, <3>2 DEF v
    <2>6. \A i \in from + 1 .. v - 1 : i \in from + 1 .. v /\ i # v
      BY <1>1
    <2> HIDE DEF joined
    <2>7. IF end THEN v > from /\ stream[v] = LF /\ \A i \in from + 1 .. v - 1 : stream[i] # LF
          ELSE \A i \in from + 1 .. v : stream[i] # LF
      BY <2>4, <2>5, <2>6, Zenon
    <2>8. pat # NoPattern /\ pat \in {NoPattern, Line}
      BY <1>6, Zenon
    <2>9. PartRead(stream, from, v, pat, joined, end)
      BY <1>1, <2>2, <2>7, <2>8, Zenon DEF PartRead, all
    <2> QED
      BY <2>9, Zenon DEF v, joined
  <1> QED
    BY <1>5, <1>6

\* A step that takes nothing from a socket's buffer and leaves its receives.
LEMMA CutSame ==
  ASSUME NEW s \in Socks, CutInv(s), done'[s] = done[s],
         kern'[s].sent = kern[s].sent, kern'[s].in = kern[s].in, sock'[s].buf = sock[s].buf,
         kern[s].eof => kern'[s].eof, kern'[s].open => kern[s].open,
         Pat(s)' = Pat(s), Res(s)' = Res(s),
         Ended(s) => Ended(s)', Ended(s)' => Ended(s) \/ (Pat(s) = All /\ (kern[s].open => AtEnd(s)))
  PROVE  CutInv(s)'
  <1>1. Upto(s)' = Upto(s) /\ LastUpto(s)' = LastUpto(s) /\ (AtEnd(s) => AtEnd(s)')
        /\ \A i : From(s, i)' = From(s, i)
    BY DEF Upto, LastUpto, From, AtEnd
  <1>2. PartRead(Stream[s], LastUpto(s), Upto(s), Pat(s), Res(s), Ended(s))
    BY DEF CutInv
  <1>3. PartRead(Stream[s], LastUpto(s), Upto(s), Pat(s), Res(s), Ended(s)')
    <2>1. CASE Ended(s)' <=> Ended(s)
      BY <1>2, <2>1, Zenon DEF PartRead
    <2>2. CASE Pat(s) = All
      <3>1. Pat(s) # Line
        BY <2>2 DEF All, Line
      <3> QED
        BY <1>2, <3>1, Zenon DEF PartRead
    <2> QED
      BY <2>1, <2>2, Zenon
  <1>4. kern'[s].open /\ Ended(s)' /\ Pat(s) = All => AtEnd(s)'
    BY <1>1, Zenon DEF CutInv
  <1>5. PartRead(Stream[s], LastUpto(s), Upto(s), Pat(s), Res(s), Ended(s))'
    BY <1>1, <1>3, Zenon
  <1> QED
    BY <1>1, <1>4, <1>5, Zenon DEF CutInv

LEMMA CutInit == StreamInit => ReceivesInv
  <1> SUFFICES ASSUME StreamInit, NEW s \in Socks PROVE CutInv(s)
    BY DEF ReceivesInv
  <1>1. /\ kern[s].in = <<>> /\ kern[s].sent = 0 /\ sock[s].buf = <<>> /\ done[s] = <<>>
        /\ rest[s].pat = NoPattern /\ rest[s].b = <<>> /\ op.name # "receive"
    BY DEF StreamInit, NoRest, Idle
  <1>2. Len(<<>>) = 0 /\ Len(Stream[s]) \in Nat
    BY StreamIsTyped
  <1>3. Upto(s) = 0 /\ LastUpto(s) = 0 /\ Pat(s) = NoPattern /\ ~Ended(s)
    <2>1. Upto(s) = 0
      <3>1. Len(kern[s].in) = 0 /\ Len(sock[s].buf) = 0
        BY <1>1
      <3>2. 0 - 0 - 0 = 0
        OBVIOUS
      <3> QED
        BY <1>1, <3>1, <3>2, Zenon DEF Upto
    <2>2. LastUpto(s) = 0
      BY <1>1, <1>2 DEF LastUpto, From
    <2>3. Pat(s) = NoPattern /\ ~Ended(s)
      BY <1>1, Zenon DEF Pat, Ended, Reading
    <2> QED
      BY <2>1, <2>2, <2>3
  <1>4. Holds(Stream[s], 0, <<>>, <<>>)
    BY <1>2 DEF Holds
  <1>5. PartRead(Stream[s], 0, 0, NoPattern, Res(s), Ended(s))
    BY DEF PartRead, NoPattern, Line
  <1> QED
    BY <1>1, <1>2, <1>3, <1>4, <1>5 DEF CutInv

\* A call that is no receive, before or after.
LEMMA CutApart ==
  ASSUME ReceivesInv, op.name # "receive", op'.name # "receive", UNCHANGED <<done, rest>>,
         \A s \in Socks : /\ kern'[s].sent = kern[s].sent /\ kern'[s].in = kern[s].in /\ sock'[s].buf = sock[s].buf
                          /\ kern[s].eof => kern'[s].eof
                          /\ kern'[s].open => kern[s].open
  PROVE  ReceivesInv'
  <1>1. ASSUME NEW s \in Socks PROVE CutInv(s)'
    <2>1. Pat(s)' = Pat(s) /\ Res(s)' = Res(s) /\ ~Ended(s) /\ ~Ended(s)'
      BY DEF Pat, Res, Ended, Reading
    <2> QED
      BY <2>1, CutSame DEF ReceivesInv
  <1> QED
    BY <1>1 DEF ReceivesInv

\* A step of a receive that takes nothing from the buffer.
LEMMA CutSameReceive ==
  ASSUME StreamBase, ReceivesInv, SameReceive, op.pc # "done", UNCHANGED <<kern, done, rest>>,
         \A s \in Socks : sock'[s].buf = sock[s].buf,
         op'.pc = "done" /\ op'.err = "" => op.pat = All /\ (kern[op.s].open => AtEnd(op.s))
  PROVE  ReceivesInv'
  <1>1. op.name = "receive" /\ op'.name = "receive" /\ op'.s = op.s
    BY DEF SameReceive, ReceiveOps
  <1>2. ASSUME NEW s \in Socks PROVE CutInv(s)'
    <2>1. Pat(s)' = Pat(s) /\ Res(s)' = Res(s) /\ ~Ended(s)
      BY <1>1 DEF Pat, Res, Ended, Reading, SameReceive
    <2>2. Ended(s)' => Pat(s) = All /\ (kern[s].open => AtEnd(s))
      BY <1>1 DEF Ended, Pat, Reading
    <2> QED
      BY <2>1, <2>2, CutSame DEF ReceivesInv
  <1> QED
    BY <1>2 DEF ReceivesInv

LEMMA CutStart ==
  ASSUME StreamBase, ReceivesInv, NEW s \in Socks, NEW pat \in Patterns, buffer_meth_receive(s, pat)
  PROVE  ReceivesInv'
  <1>1. /\ op'.name = "receive" /\ op'.pc = "get" /\ op'.s = s /\ op'.pat = pat /\ op'.b = rest[s].b
        /\ rest[s].pat \in {NoPattern, pat} /\ op.name # "receive"
        /\ \A t \in Socks : sock'[t].buf = sock[t].buf
        /\ UNCHANGED <<kern, done, rest>>
    <2>1. op' \in ReceiveOps /\ op = Idle
      BY ReceiveStarts
    <2>2. sock' = [sock EXCEPT ![s].start = now]
      BY ReceiveStarts
    <2>3. \A t \in Socks : sock'[t].buf = sock[t].buf
      BY <2>2 DEF StreamBase, StreamType, SockOf
    <2> QED
      BY <2>1, <2>3, ReceiveStarts DEF ReceiveOps, Idle
  <1>2. ASSUME NEW t \in Socks PROVE CutInv(t)'
    <2>1. ~Ended(t) /\ ~Ended(t)' /\ Res(t)' = Res(t) /\ Res(t) = rest[t].b
      BY <1>1 DEF Ended, Reading, Res
    <2>2. CASE Pat(t)' = Pat(t)
      BY <1>1, <2>1, <2>2, CutSame DEF ReceivesInv
    <2>3. CASE Pat(t)' # Pat(t)
      <3>1. t = s /\ Pat(t)' = pat /\ Pat(t) = NoPattern /\ rest[t].pat = NoPattern
        BY <1>1, <2>3 DEF Pat, Reading
      <3>2. rest[t].b = <<>>
        BY <3>1 DEF StreamBase, RestIsShort
      <3> DEFINE u == Upto(t)
      <3>3. LastUpto(t) = u /\ u \in Nat
        BY <3>1, Zenon DEF CutInv, PartRead, ReceivesInv
      <3>4. Between(Stream[t], u, u) = <<>>
        <4> HIDE DEF u
        <4>1. \A a, b \in Int : a > b => SubSeq(Stream[t], a, b) = <<>>
          BY SubSeqEmpty
        <4>2. u + 1 \in Int /\ u \in Int /\ u + 1 > u
          BY <3>3
        <4> QED
          BY <4>1, <4>2, Zenon DEF Between
      <3>5. Text(<<>>) = <<>>
        BY TextSteps
      <3>6. \A i \in u + 1 .. u : FALSE
        BY <3>3
      <3>7. pat # NoPattern
        BY StreamAssumption DEF NoPattern
      <3>8. PartRead(Stream[t], u, u, pat, <<>>, FALSE)
        <4>1. u <= u
          BY <3>3
        <4> QED
          BY <3>3, <3>4, <3>5, <3>6, <3>7, <4>1, Zenon DEF PartRead
      <3>9. UNCHANGED <<Upto(t), LastUpto(t), AtEnd(t), Stream[t]>> /\ \A i : From(t, i)' = From(t, i)
        BY <1>1 DEF Upto, LastUpto, From, AtEnd
      <3>10. PartRead(Stream[t], LastUpto(t), Upto(t), Pat(t), Res(t), Ended(t))'
        <4>1. Res(t)' = <<>>
          BY <2>1, <3>2
        <4> QED
          BY <2>1, <3>1, <3>3, <3>8, <3>9, <4>1, Zenon DEF PartRead
      <3>11. CutInv(t) /\ sock'[t].buf = sock[t].buf
        BY <1>1 DEF ReceivesInv
      <3> QED
        BY <1>1, <2>1, <3>9, <3>10, <3>11, Zenon DEF CutInv
    <2> QED
      BY <2>2, <2>3
  <1> QED
    BY <1>2 DEF ReceivesInv

\* What CutInv says of the state of a socket, in numbers.
LEMMA CutCounts ==
  ASSUME StreamBase, NEW s \in Socks, CutInv(s)
  PROVE  /\ sock[s].buf \in Seq(Bytes) /\ kern[s].in \in Seq(Bytes) /\ Stream[s] \in Seq(Bytes) /\ kern[s].sent \in Nat
         /\ Upto(s) \in Nat /\ Upto(s) + Len(sock[s].buf) + Len(kern[s].in) = kern[s].sent
         /\ Upto(s) + Len(sock[s].buf) <= Len(Stream[s]) /\ Upto(s) <= kern[s].sent
         /\ LastUpto(s) \in Nat /\ LastUpto(s) <= Upto(s)
         /\ done[s] \in Seq([pat : Patterns, res : Seq(Bytes), upto : Int])
  <1>1. /\ sock[s].buf \in Seq(Bytes) /\ kern[s].in \in Seq(Bytes) /\ Stream[s] \in Seq(Bytes) /\ kern[s].sent \in Nat
        /\ done[s] \in Seq([pat : Patterns, res : Seq(Bytes), upto : Int])
    BY SockLimits, StreamIsTyped DEF StreamBase, StreamType, KernOf
  <1> DEFINE b == Len(sock[s].buf)
             i == Len(kern[s].in)
             l == Len(Stream[s])
             n == kern[s].sent
             u == Upto(s)
  <1>2. b \in Nat /\ i \in Nat /\ l \in Nat /\ n \in Nat
    BY <1>1
  <1>3. u = n - i - b
    BY DEF Upto
  <1>4. u \in Nat /\ n <= l
    BY DEF CutInv, Holds
  <1>5. LastUpto(s) \in Nat /\ LastUpto(s) <= u
    BY Zenon DEF CutInv, PartRead
  <1> HIDE DEF b, i, l, n, u
  <1>6. u + b + i = n /\ u + b <= l /\ u <= n
    BY <1>2, <1>3, <1>4
  <1> QED
    BY <1>1, <1>4, <1>5, <1>6 DEF b, i, l, n, u

LEMMA CutGet ==
  ASSUME StreamBase, ReceivesInv, buffer_get
  PROVE  ReceivesInv'
  <1>0. PICK s \in Socks : s = op.s
    BY OpKinds DEF buffer_get, StreamBase, ReceiveOps
  <1> DEFINE buf == sock[s].buf
  <1>1. op.name = "receive" /\ op.pc = "get" /\ op \in ReceiveOps /\ op.pat # NoPattern /\ op.err = ""
    <2>1. op.name = "receive" /\ op.pc = "get"
      BY DEF buffer_get
    <2>2. op \in ReceiveOps
      BY <2>1, OpKinds DEF StreamBase
    <2>3. op.pat \in Patterns
      BY <2>2 DEF ReceiveOps
    <2>4. op.pat # NoPattern
      BY <2>3, StreamAssumption DEF NoPattern
    <2>5. op.err = ""
      BY <2>1 DEF StreamBase, ReceiveCounts
    <2> QED
      BY <2>1, <2>2, <2>3, <2>4, <2>5
  <1>2. UNCHANGED <<kern, done, rest>>
    BY DEF buffer_get
  <1>3. CASE buf = <<>>
    <2>1. op' = [op EXCEPT !.pc = "recv"] /\ UNCHANGED sock
      BY <1>0, <1>3 DEF buffer_get
    <2>2. SameReceive /\ op'.pc = "recv"
      BY <1>1, <2>1 DEF SameReceive, ReceiveOps
    <2> QED
      BY <1>1, <1>2, <2>1, <2>2, CutSameReceive
  <1>4. CASE buf # <<>>
    <2>0. sock[op.s].buf # <<>>
      BY <1>0, <1>4
    <2>1. PICK n \in 0 .. Len(sock[op.s].buf), b \in Seq(Bytes), end \in BOOLEAN :
            /\ Takes(n, b, end)
            /\ op' = [op EXCEPT !.b = @ \o b, !.total = @ + n, !.pc = IF end THEN "done" ELSE "get"]
            /\ sock' = [sock EXCEPT ![op.s].buf = SubSeq(@, n + 1, Len(@))]
      BY <2>0, BufferTakes
    <2>9. n \in 0 .. Len(buf) /\ sock' = [sock EXCEPT ![s].buf = SubSeq(@, n + 1, Len(@))]
      BY <1>0, <2>1
    <2> DEFINE joined == op.b \o b
               total == op.total + n
               pc == IF end THEN "done" ELSE "get"
               left == SubSeq(buf, n + 1, Len(buf))
    <2>2. op' = [op EXCEPT !.b = joined, !.total = total, !.pc = pc]
      BY <2>1
    <2>3. sock'[s].buf = left /\ \A t \in Socks : t # s => sock'[t].buf = sock[t].buf
      BY <1>1, <2>9 DEF StreamBase, StreamType, SockOf
    <2> HIDE DEF joined, total, pc
    <2>4. op'.name = "receive" /\ op'.s = s /\ op'.pat = op.pat /\ op'.b = joined /\ op'.pc = pc /\ op'.err = ""
      BY <1>0, <1>1, <2>2 DEF ReceiveOps
    <2>5. ASSUME NEW t \in Socks, t # s PROVE CutInv(t)'
      <3>1. ~Reading(t) /\ ~Reading(t)'
        BY <1>0, <2>4, <2>5, Zenon DEF Reading
      <3>2. Pat(t)' = Pat(t) /\ Res(t)' = Res(t) /\ ~Ended(t) /\ ~Ended(t)'
        BY <1>2, <3>1, Zenon DEF Pat, Res, Ended
      <3> QED
        BY <1>2, <2>3, <2>5, <3>2, CutSame DEF ReceivesInv
    <2>6. CutInv(s)'
      <3> DEFINE u == Upto(s)
      <3>1. CutInv(s)
        BY <1>1 DEF ReceivesInv
      <3>2. /\ buf \in Seq(Bytes) /\ kern[s].in \in Seq(Bytes) /\ Stream[s] \in Seq(Bytes) /\ kern[s].sent \in Nat
            /\ u \in Nat /\ u + Len(buf) <= Len(Stream[s])
        BY <1>1, <3>1, CutCounts
      <3>3. Holds(Stream[s], u, buf, kern[s].in) /\ LastUpto(s) \in Nat
        BY <1>1, <3>1, CutCounts DEF CutInv
      <3>4. Upto(s)' = u + n
        <4>1. Len(left) = Len(buf) - n
          BY <1>1, <2>9, <3>2, TakesFromBuffer
        <4>2. Upto(s)' = kern[s].sent - Len(kern[s].in) - Len(left)
          BY <1>2, <2>3 DEF Upto
        <4>4. Len(buf) \in Nat /\ Len(kern[s].in) \in Nat /\ n \in Nat
          BY <2>9, <3>2, SMTT(45)
        <4>5. Upto(s) = kern[s].sent - Len(kern[s].in) - Len(buf)
          BY DEF Upto
        <4>6. Upto(s)' = kern[s].sent - Len(kern[s].in) - (Len(buf) - n)
          BY <4>1, <4>2
        <4>7. kern[s].sent - Len(kern[s].in) - (Len(buf) - n) = kern[s].sent - Len(kern[s].in) - Len(buf) + n
          <5> DEFINE i == kern[s].sent j == Len(kern[s].in) k == Len(buf)
          <5>1. i \in Nat /\ j \in Nat /\ k \in Nat /\ n \in Nat
            BY <3>2, <4>4
          <5> HIDE DEF i, j, k
          <5>2. i - j - (k - n) = i - j - k + n
            BY <5>1
          <5> QED
            BY <5>2, Zenon DEF i, j, k
        <4> QED
          BY <4>5, <4>6, <4>7, Zenon
      <3>5. PartRead(Stream[s], LastUpto(s), u, op.pat, op.b, FALSE)
        <4>1. Pat(s) = op.pat /\ Res(s) = op.b /\ ~Ended(s)
          BY <1>0, <1>1 DEF Pat, Res, Ended, Reading
        <4>2. PartRead(Stream[s], LastUpto(s), u, op.pat, op.b, Ended(s))
          BY <3>1, <4>1, Zenon DEF CutInv
        <4> QED
          BY <4>1, <4>2, Zenon DEF PartRead
      <3>6. \A i \in 1 .. Len(buf) : buf[i] = Stream[s][u + i]
        BY <3>3 DEF Holds
      <3>7. /\ op.pat = Line => /\ b = Text(SubSeq(buf, 1, n)) /\ n > 0
                                /\ end <=> buf[n] = LF
                                /\ \A i \in 1 .. n - 1 : buf[i] # LF
            /\ op.pat # Line => b = SubSeq(buf, 1, n)
            /\ op.pat = All => ~end
        BY <1>0, <2>1, Zenon DEF Takes
      <3> HIDE DEF buf, u
      <3>8. PartRead(Stream[s], LastUpto(s), u + n, op.pat, joined, end)
        BY <1>1, <2>9, <3>2, <3>3, <3>5, <3>6, <3>7, PartTakes, ZenonT(60) DEF joined
      <3>9. Holds(Stream[s], u + n, left, kern[s].in)
        BY <2>9, <3>2, <3>3, HoldsTake
      <3>10. Pat(s)' = op.pat /\ Res(s)' = joined /\ (Ended(s)' <=> end)
        BY <2>4 DEF Pat, Res, Ended, Reading, pc
      <3>11. LastUpto(s)' = LastUpto(s) /\ \A i : From(s, i)' = From(s, i)
        BY <1>2 DEF LastUpto, From
      <3> HIDE DEF left
      <3>12. PartRead(Stream[s], LastUpto(s), Upto(s), Pat(s), Res(s), Ended(s))'
        <4>1. PartRead(Stream[s], LastUpto(s), u + n, op.pat, joined, Ended(s)')
          BY <3>8, <3>10, Zenon DEF PartRead
        <4> QED
          BY <3>4, <3>10, <3>11, <4>1, Zenon
      <3>13. Holds(Stream[s], Upto(s), sock[s].buf, kern[s].in)'
        BY <1>2, <2>3, <3>4, <3>9, Zenon
      <3>14. ~(Ended(s)' /\ Pat(s)' = All)
        BY <3>7, <3>10, Zenon
      <3> QED
        BY <1>2, <3>1, <3>11, <3>12, <3>13, <3>14, Zenon DEF CutInv
    <2> QED
      BY <2>5, <2>6 DEF ReceivesInv
  <1> QED
    BY <1>3, <1>4

LEMMA CutRecv ==
  ASSUME StreamBase, ReceivesInv, socket_recv
  PROVE  ReceivesInv'
  <1>0. PICK s \in Socks : s = op.s
    BY RecvDoes DEF SameReceive, ReceiveOps
  <1> DEFINE in == kern[s].in
  <1>1. SameReceive /\ op.pc = "recv" /\ op.name = "receive" /\ sock[s].buf = <<>> /\ UNCHANGED <<done, rest>>
        /\ op'.name = "receive"
    BY <1>0, RecvDoes DEF SameReceive, ReceiveOps
  <1>2. ASSUME NEW n \in 0 .. Len(in), sock' = [sock EXCEPT ![s].buf = SubSeq(in, 1, n)],
               kern' = [kern EXCEPT ![s].in = SubSeq(@, n + 1, Len(@))], op'.pc = "get"
        PROVE  ReceivesInv'
    <2> DEFINE b == SubSeq(in, 1, n)
               r == SubSeq(in, n + 1, Len(in))
    <2>1. /\ sock'[s].buf = b /\ kern'[s].in = r
          /\ kern'[s].sent = kern[s].sent /\ kern'[s].eof = kern[s].eof /\ kern'[s].open = kern[s].open
          /\ \A t \in Socks : t # s => sock'[t].buf = sock[t].buf /\ kern'[t] = kern[t]
      BY <1>1, <1>2 DEF StreamBase, StreamType, SockOf, KernOf
    <2>2. ASSUME NEW t \in Socks
          PROVE  Pat(t)' = Pat(t) /\ Res(t)' = Res(t) /\ ~Ended(t) /\ ~Ended(t)' /\ LastUpto(t)' = LastUpto(t)
                 /\ \A i : From(t, i)' = From(t, i)
      BY <1>0, <1>1, <1>2 DEF Pat, Res, Ended, Reading, SameReceive, LastUpto, From
    <2>3. ASSUME NEW t \in Socks, t # s PROVE CutInv(t)'
      BY <1>1, <2>1, <2>2, <2>3, CutSame DEF ReceivesInv
    <2>4. CutInv(s)'
      <3>1. CutInv(s)
        BY <1>1 DEF ReceivesInv
      <3>2. in \in Seq(Bytes) /\ kern[s].sent \in Nat /\ Upto(s) \in Nat
        BY <1>1, <3>1, CutCounts
      <3>3. Upto(s)' = Upto(s)
        <4>1. Len(b) = n /\ Len(r) = Len(in) - n
          BY <1>1, <3>2, TakesFromBuffer
        <4>2. Upto(s)' = kern[s].sent - Len(r) - Len(b) /\ Upto(s) = kern[s].sent - Len(in) - Len(<<>>) /\ Len(<<>>) = 0
          BY <1>1, <2>1 DEF Upto
        <4>3. Len(in) \in Nat /\ n \in Nat
          BY <3>2
        <4>4. \A i, j, k \in Nat : i - (j - k) - k = i - j - 0
          OBVIOUS
        <4> QED
          BY <3>2, <4>1, <4>2, <4>3, <4>4
      <3>4. Holds(Stream[s], Upto(s), <<>>, in)
        BY <1>1, <3>1 DEF CutInv
      <3> HIDE DEF in
      <3>5. Holds(Stream[s], Upto(s), b, r)
        BY <3>2, <3>4, HoldsFill
      <3> HIDE DEF b, r
      <3>6. Holds(Stream[s], Upto(s), sock[s].buf, kern[s].in)'
        BY <2>1, <3>3, <3>5, Zenon
      <3>7. PartRead(Stream[s], LastUpto(s), Upto(s), Pat(s), Res(s), Ended(s))'
        <4>1. PartRead(Stream[s], LastUpto(s), Upto(s), Pat(s), Res(s), Ended(s))
          BY <3>1, Zenon DEF CutInv
        <4>2. PartRead(Stream[s], LastUpto(s), Upto(s), Pat(s), Res(s), Ended(s)')
          BY <1>1, <2>2, <4>1, Zenon DEF PartRead
        <4> QED
          BY <1>1, <2>2, <3>3, <4>2, Zenon
      <3> QED
        BY <1>1, <2>1, <2>2, <3>1, <3>6, <3>7, Zenon DEF CutInv
    <2> QED
      BY <2>3, <2>4 DEF ReceivesInv
  <1>3. ASSUME UNCHANGED <<kern, sock>>,
               op'.pc = "done" /\ op'.err = "" => op.pat = All /\ (kern[s].open => in = <<>> /\ kern[s].eof)
        PROVE  ReceivesInv'
    <2>1. op'.pc = "done" /\ op'.err = "" => op.pat = All /\ (kern[s].open => AtEnd(s))
      BY <1>1, <1>3 DEF AtEnd
    <2>2. op.pc # "done" /\ \A t \in Socks : sock'[t].buf = sock[t].buf
      BY <1>1, <1>3
    <2> QED
      BY <1>0, <1>1, <1>3, <2>1, <2>2, CutSameReceive
  <1>4. CASE UNCHANGED <<kern, sock>>
    <2>1. ASSUME op'.pc = "done", op'.err = "" PROVE op.pat = All /\ (kern[s].open => in = <<>> /\ kern[s].eof)
      BY <1>0, <1>4, <2>1, RecvDoes
    <2> QED
      BY <1>3, <1>4, <2>1
  <1> QED
    BY <1>0, <1>2, <1>4, RecvDoes

LEMMA CutReturn ==
  ASSUME StreamBase, ReceivesInv, ReturnReceive
  PROVE  ReceivesInv'
  <1>0. PICK s \in Socks : s = op.s
    BY OpKinds DEF ReturnReceive, StreamBase, ReceiveOps
  <1> DEFINE rec == [pat |-> op.pat, res |-> op.b, upto |-> Upto(s)]
             u == Upto(s)
  <1>1. op.name = "receive" /\ op.pc = "done" /\ op \in ReceiveOps /\ op.pat # NoPattern /\ op'.name # "receive"
    <2>1. op.name = "receive" /\ op.pc = "done" /\ op' = Idle
      BY DEF ReturnReceive
    <2>2. op \in ReceiveOps
      BY <2>1, OpKinds DEF StreamBase
    <2>3. op.pat \in Patterns
      BY <2>2 DEF ReceiveOps
    <2>4. op.pat # NoPattern
      BY <2>3, StreamAssumption DEF NoPattern
    <2> QED
      BY <2>1, <2>2, <2>4 DEF Idle
  <1>2. UNCHANGED <<kern, sock>> /\ Pat(s) = op.pat /\ Res(s) = op.b /\ (Ended(s) <=> op.err = "") /\ Reading(s)
    BY <1>0, <1>1 DEF ReturnReceive, Pat, Res, Ended, Reading
  <1>3. ASSUME NEW t \in Socks, done'[t] = done[t], ~Ended(t), Pat(t)' = Pat(t), Res(t)' = Res(t) PROVE CutInv(t)'
    <2>1. ~Ended(t)'
      BY <1>1 DEF Ended, Reading
    <2> QED
      BY <1>2, <1>3, <2>1, CutSame DEF ReceivesInv
  <1>4. ASSUME NEW t \in Socks, t # s PROVE CutInv(t)'
    <2>1. ~Reading(t) /\ ~Reading(t)'
      BY <1>0, <1>1, <1>4 DEF Reading
    <2>2. done'[t] = done[t] /\ rest'[t] = rest[t]
      BY <1>0, <1>4 DEF ReturnReceive, StreamBase, StreamType
    <2> QED
      BY <1>3, <2>1, <2>2, Zenon DEF Ended, Pat, Res
  <1>5. CASE op.err # ""
    <2>1. done' = done /\ rest'[s].pat = op.pat /\ rest'[s].b = op.b
      BY <1>0, <1>5 DEF ReturnReceive, StreamBase, StreamType
    <2>2. Pat(s)' = Pat(s) /\ Res(s)' = Res(s)
      BY <1>1, <1>2, <2>1 DEF Pat, Res, Reading
    <2>3. CutInv(s)'
      BY <1>2, <1>3, <1>5, <2>1, <2>2
    <2> QED
      BY <1>4, <2>3 DEF ReceivesInv
  <1>6. CASE op.err = ""
    <2> DEFINE from == LastUpto(s)
    <2>0. PICK n \in Nat : n = Len(done[s])
      <3>1. done[s] \in Seq([pat : Patterns, res : Seq(Bytes), upto : Int])
        BY DEF StreamBase, StreamType
      <3> QED
        BY <3>1
    <2>1. CutInv(s) /\ Ended(s)
      BY <1>2, <1>6 DEF ReceivesInv
    <2>2. /\ u \in Nat /\ u <= kern[s].sent /\ kern[s].sent \in Nat /\ from \in Nat /\ from <= u
          /\ Stream[s] \in Seq(Bytes)
          /\ done[s] \in Seq([pat : Patterns, res : Seq(Bytes), upto : Int])
          /\ u + Len(sock[s].buf) + Len(kern[s].in) = kern[s].sent
          /\ u <= Len(Stream[s])
      <3>1. /\ u \in Nat /\ u <= kern[s].sent /\ kern[s].sent \in Nat /\ from \in Nat /\ from <= u
            /\ Stream[s] \in Seq(Bytes)
            /\ done[s] \in Seq([pat : Patterns, res : Seq(Bytes), upto : Int])
            /\ u + Len(sock[s].buf) + Len(kern[s].in) = kern[s].sent
        BY <2>1, CutCounts
      <3>2. kern[s].sent <= Len(Stream[s]) /\ Len(Stream[s]) \in Nat
        BY <2>1, <3>1 DEF CutInv
      <3> HIDE DEF u, from
      <3>3. u <= Len(Stream[s])
        BY <3>1, <3>2
      <3> QED
        BY <3>1, <3>3
    <2>3. rec \in [pat : Patterns, res : Seq(Bytes), upto : Int]
      BY <1>1, <2>2 DEF ReceiveOps
    <2>4. rec.pat = op.pat /\ rec.res = op.b /\ rec.upto = u
      OBVIOUS
    <2>5. done'[s] = Append(done[s], rec) /\ rest'[s].pat = NoPattern
      BY <1>0, <1>6 DEF ReturnReceive, StreamBase, StreamType, NoRest
    <2> HIDE DEF rec
    <2>6. /\ Len(done'[s]) = n + 1 /\ done'[s][n + 1] = rec
          /\ \A i \in 1 .. n : done'[s][i] = done[s][i]
      BY <2>0, <2>2, <2>3, <2>5
    <2>7. PartRead(Stream[s], from, u, op.pat, op.b, TRUE)
      <3>1. PartRead(Stream[s], from, u, op.pat, op.b, Ended(s))
        BY <1>2, <2>1, Zenon DEF CutInv
      <3> QED
        BY <2>1, <3>1, Zenon DEF PartRead
    <2>8. ASSUME NEW i \in 1 .. n + 1 PROVE From(s, i)' = From(s, i)
      <3>1. i = 1 \/ i - 1 \in 1 .. n
        OBVIOUS
      <3> QED
        BY <2>6, <3>1 DEF From
    <2>9. LastUpto(s)' = u /\ Upto(s)' = u
      <3>1. n + 1 + 1 # 1 /\ (n + 1 + 1) - 1 = n + 1
        OBVIOUS
      <3>2. From(s, n + 1 + 1)' = u
        BY <2>4, <2>6, <3>1, Zenon DEF From
      <3> QED
        BY <1>2, <2>6, <3>2, Zenon DEF LastUpto, Upto
    <2>10. Pat(s)' = NoPattern /\ ~Ended(s)'
      BY <1>1, <2>5 DEF Pat, Ended, Reading
    <2>11. PartRead(Stream[s], LastUpto(s), Upto(s), Pat(s), Res(s), Ended(s))'
      <3>1. NoPattern # Line /\ u <= u
        BY <2>2 DEF NoPattern, Line
      <3> QED
        BY <2>2, <2>9, <2>10, <3>1, Zenon DEF PartRead
    <2>12. op.pat >= 0 => u - from = op.pat
      <3> SUFFICES ASSUME op.pat >= 0 PROVE u - from = op.pat
        OBVIOUS
      <3>1. op.b = Between(Stream[s], from, u)
        <4>1. op.pat # Line
          BY DEF Line
        <4> QED
          BY <1>1, <2>7, <4>1, Zenon DEF PartRead
      <3>2. Len(op.b) = op.pat
        BY <1>1, <1>6 DEF StreamBase, ReceiveCounts
      <3> HIDE DEF u, from
      <3>3. Len(Between(Stream[s], from, u)) = u - from
        BY <2>2, BetweenIsSeq
      <3> QED
        BY <3>1, <3>2, <3>3, Zenon
    <2>13. kern[s].open /\ op.pat = All => kern[s].eof /\ u = kern[s].sent
      <3> SUFFICES ASSUME kern[s].open, op.pat = All PROVE kern[s].eof /\ u = kern[s].sent
        OBVIOUS
      <3>1. AtEnd(s)
        BY <1>2, <2>1 DEF CutInv
      <3>2. Len(sock[s].buf) = 0 /\ Len(kern[s].in) = 0
        BY <3>1 DEF AtEnd
      <3> HIDE DEF u
      <3> QED
        BY <2>2, <3>1, <3>2 DEF AtEnd
    <2>14. ASSUME NEW i \in 1 .. n + 1
           PROVE  LET r == done'[s][i] IN
                  /\ r.upto <= kern[s].sent
                  /\ PartRead(Stream[s], From(s, i), r.upto, r.pat, r.res, TRUE)
                  /\ r.pat >= 0 => r.upto - From(s, i) = r.pat
                  /\ kern[s].open /\ r.pat = All => kern[s].eof /\ r.upto = kern[s].sent
      <3>1. CASE i = n + 1
        <4>1. From(s, i) = from /\ done'[s][i] = rec
          BY <2>0, <2>6, <3>1 DEF LastUpto
        <4> HIDE DEF u, from
        <4> QED
          BY <2>2, <2>4, <2>7, <2>12, <2>13, <4>1, Zenon
      <3>2. CASE i # n + 1
        <4>1. i \in 1 .. n
          BY <3>2
        <4> QED
          BY <2>0, <2>1, <2>6, <4>1, Zenon DEF CutInv
      <3> QED
        BY <3>1, <3>2
    <2>15. Holds(Stream[s], Upto(s), sock[s].buf, kern[s].in)' /\ kern'[s].sent <= Len(Stream[s])
      BY <1>2, <2>1, <2>9, Zenon DEF CutInv
    <2>16. CutInv(s)'
      BY <1>2, <2>6, <2>8, <2>10, <2>11, <2>14, <2>15, Zenon DEF CutInv
    <2> QED
      BY <1>4, <2>16 DEF ReceivesInv
  <1> QED
    BY <1>5, <1>6

LEMMA CutPeer ==
  ASSUME StreamBase, ReceivesInv, NEW s \in Socks, PeerSends(s) \/ PeerReads(s) \/ PeerCloses(s),
         UNCHANGED <<sock, op, done, rest>>
  PROVE  ReceivesInv'
  <1>1. \A t \in Socks : /\ LastUpto(t)' = LastUpto(t) /\ Pat(t)' = Pat(t) /\ Res(t)' = Res(t) /\ (Ended(t)' <=> Ended(t))
                         /\ \A i : From(t, i)' = From(t, i)
    BY DEF LastUpto, From, Pat, Res, Ended, Reading
  <1>2. ASSUME NEW t \in Socks,
               kern'[t].sent = kern[t].sent, kern'[t].in = kern[t].in, kern[t].eof => kern'[t].eof, kern'[t].open = kern[t].open
        PROVE  CutInv(t)'
    BY <1>1, <1>2, CutSame DEF ReceivesInv
  <1>3. CASE PeerReads(s) \/ PeerCloses(s)
    <2>1. ASSUME NEW t \in Socks
          PROVE  kern'[t].sent = kern[t].sent /\ kern'[t].in = kern[t].in /\ (kern[t].eof => kern'[t].eof)
                 /\ kern'[t].open = kern[t].open
      <3>1. kern \in [Socks -> KernOf] /\ kern[s] \in KernOf
        BY DEF StreamBase, StreamType
      <3>2. CASE PeerReads(s)
        BY <3>1, <3>2 DEF PeerReads, KernOf
      <3>3. CASE PeerCloses(s)
        BY <3>1, <3>3 DEF PeerCloses, KernOf
      <3> QED
        BY <1>3, <3>2, <3>3
    <2> QED
      BY <1>2, <2>1 DEF ReceivesInv
  <1>4. CASE PeerSends(s)
    <2> DEFINE n == kern[s].sent
               in == kern[s].in
               c == Stream[s][n + 1]
    <2>1. /\ ~kern[s].eof /\ n < Len(Stream[s])
          /\ kern'[s].sent = n + 1 /\ kern'[s].in = Append(in, c)
          /\ kern'[s].eof = kern[s].eof /\ kern'[s].open = kern[s].open
          /\ \A t \in Socks : t # s => kern'[t] = kern[t]
      BY <1>4, SMTT(45) DEF PeerSends, StreamBase, StreamType, KernOf
    <2>2. ASSUME NEW t \in Socks, t # s PROVE CutInv(t)'
      BY <1>2, <2>1, <2>2
    <2>3. CutInv(s)
      BY DEF ReceivesInv
    <2>4. /\ sock[s].buf \in Seq(Bytes) /\ in \in Seq(Bytes) /\ Stream[s] \in Seq(Bytes) /\ n \in Nat
          /\ Upto(s) \in Nat /\ Upto(s) + Len(sock[s].buf) + Len(in) = n
      BY <2>3, CutCounts
    <2>5. c \in Bytes /\ n + 1 \in 1 .. Len(Stream[s])
      BY <2>1, <2>4, SMTT(45)
    <2>6. Upto(s)' = Upto(s)
      <3>1. Len(Append(in, c)) = Len(in) + 1
        BY <2>4, <2>5
      <3>2. Upto(s)' = (n + 1) - Len(Append(in, c)) - Len(sock[s].buf) /\ Upto(s) = n - Len(in) - Len(sock[s].buf)
        BY <2>1 DEF Upto
      <3>3. \A i, j, k \in Nat : (i + 1) - (j + 1) - k = i - j - k
        OBVIOUS
      <3>4. Len(in) \in Nat /\ Len(sock[s].buf) \in Nat
        BY <2>4
      <3>5. Upto(s)' = (n + 1) - (Len(in) + 1) - Len(sock[s].buf)
        BY <3>1, <3>2, Zenon
      <3>6. (n + 1) - (Len(in) + 1) - Len(sock[s].buf) = n - Len(in) - Len(sock[s].buf)
        BY <2>4, <3>3, <3>4, Zenon
      <3> QED
        BY <3>2, <3>5, <3>6, Zenon
    <2>7. Holds(Stream[s], Upto(s), sock[s].buf, Append(in, c))
      <3>1. Holds(Stream[s], Upto(s), sock[s].buf, in)
        BY <2>3 DEF CutInv
      <3>2. c = Stream[s][Upto(s) + Len(sock[s].buf) + Len(in) + 1]
        BY <2>4, Zenon
      <3> HIDE DEF c, in
      <3> QED
        BY <2>4, <2>5, <3>1, <3>2, HoldsSent
    <2> HIDE DEF c, in
    <2>8. Holds(Stream[s], Upto(s), sock[s].buf, kern[s].in)'
      BY <2>1, <2>6, <2>7, Zenon
    <2>9. PartRead(Stream[s], LastUpto(s), Upto(s), Pat(s), Res(s), Ended(s))'
      <3>1. PartRead(Stream[s], LastUpto(s), Upto(s), Pat(s), Res(s), Ended(s))
        BY <2>3 DEF CutInv
      <3> QED
        BY <1>1, <2>6, <3>1, Zenon DEF PartRead
    <2>10. kern'[s].sent <= Len(Stream[s])
      BY <2>1, <2>5
    <2>11. ~(kern'[s].open /\ Ended(s)' /\ Pat(s)' = All)
      BY <1>1, <2>1, <2>3, Zenon DEF CutInv, AtEnd
    <2>12. ASSUME NEW i \in 1 .. Len(done[s])
           PROVE  LET r == done[s][i] IN
                  /\ r.upto <= kern'[s].sent
                  /\ PartRead(Stream[s], From(s, i), r.upto, r.pat, r.res, TRUE)
                  /\ r.pat >= 0 => r.upto - From(s, i) = r.pat
                  /\ ~(kern'[s].open /\ r.pat = All)
      <3>1. LET r == done[s][i] IN
            /\ r.upto <= n
            /\ PartRead(Stream[s], From(s, i), r.upto, r.pat, r.res, TRUE)
            /\ r.pat >= 0 => r.upto - From(s, i) = r.pat
            /\ ~(kern[s].open /\ r.pat = All)
        BY <2>1, <2>3, Zenon DEF CutInv
      <3>2. done[s][i].upto \in Int
        <4> DEFINE Receipts == [pat : Patterns, res : Seq(Bytes), upto : Int]
        <4>1. done[s] \in Seq(Receipts)
          BY DEF StreamBase, StreamType
        <4> HIDE DEF Receipts
        <4>2. done[s][i] \in Receipts
          BY <4>1
        <4> QED
          BY <4>2 DEF Receipts
      <3>3. \A j \in Int, k \in Nat : j <= k => j <= k + 1
        OBVIOUS
      <3> QED
        BY <2>1, <2>4, <3>1, <3>2, <3>3, Zenon
    <2>13. CutInv(s)'
      BY <1>1, <2>8, <2>9, <2>10, <2>11, <2>12, Zenon DEF CutInv
    <2> QED
      BY <2>2, <2>13 DEF ReceivesInv
  <1> QED
    BY <1>3, <1>4

LEMMA CutProp == StreamBase /\ ReceivesInv => ReceivesCutTheStream
  <1> SUFFICES ASSUME StreamBase, ReceivesInv, NEW s \in Socks, NEW i \in DOMAIN done[s], kern[s].open
               PROVE  LET part == PartOf(SubSeq(Stream[s], From(s, i) + 1, kern[s].sent), done[s][i].pat)
                      IN  done[s][i].res = part.res /\ done[s][i].upto = From(s, i) + part.n
    BY Zenon DEF ReceivesCutTheStream, From
  <1> DEFINE Receipts == [pat : Patterns, res : Seq(Bytes), upto : Int]
             rec == done[s][i]
             from == From(s, i)
             sent == kern[s].sent
             upto == rec.upto
             left == Between(Stream[s], from, sent)
             k == upto - from
             part == PartOf(left, rec.pat)
  <1>1. i \in 1 .. Len(done[s]) /\ rec.pat \in {Line, All} \cup Nat
    <2>1. done[s] \in Seq(Receipts)
      BY DEF StreamBase, StreamType
    <2> HIDE DEF Receipts
    <2>2. i \in 1 .. Len(done[s]) /\ done[s][i] \in Receipts
      BY <2>1
    <2> QED
      BY <2>2, StreamAssumption DEF Receipts, Line, All
  <1>2. CutInv(s)
    BY DEF ReceivesInv
  <1>3. /\ upto <= sent
        /\ PartRead(Stream[s], from, upto, rec.pat, rec.res, TRUE)
        /\ rec.pat >= 0 => upto - from = rec.pat
        /\ rec.pat = All => upto = sent
    BY <1>1, <1>2, Zenon DEF CutInv
  <1>4. /\ from \in Nat /\ upto \in Nat /\ from <= upto
        /\ rec.pat = Line => /\ rec.res = Text(Between(Stream[s], from, upto))
                             /\ upto > from /\ Stream[s][upto] = LF
                             /\ \A j \in from + 1 .. upto - 1 : Stream[s][j] # LF
        /\ rec.pat # Line => rec.res = Between(Stream[s], from, upto)
    <2>1. rec.pat # NoPattern
      BY <1>1 DEF Line, All, NoPattern
    <2> QED
      BY <1>3, <2>1, Zenon DEF PartRead
  <1>5. Stream[s] \in Seq(Bytes) /\ sent \in Nat /\ sent <= Len(Stream[s])
    <2>1. Stream[s] \in Seq(Bytes) /\ sent \in Nat
      BY <1>2, CutCounts
    <2> QED
      BY <1>2, <2>1 DEF CutInv
  <1> SUFFICES rec.res = part.res /\ upto = from + part.n
    BY Zenon DEF Between
  <1> HIDE DEF rec, from, sent, upto
  <1>6. /\ left \in Seq(Bytes) /\ Len(left) = sent - from
        /\ \A j \in 1 .. sent - from : left[j] = Stream[s][from + j]
    <2>1. from <= sent
      BY <1>3, <1>4, <1>5
    <2> QED
      <3>1. /\ Between(Stream[s], from, sent) \in Seq(Bytes) /\ Len(Between(Stream[s], from, sent)) = sent - from
            /\ \A j \in 1 .. sent - from : Between(Stream[s], from, sent)[j] = Stream[s][from + j]
        <4>1. from \in Nat
          BY <1>4
        <4> HIDE <1>4
        <4> QED
          BY <1>5, <2>1, <4>1, BetweenIsSeq
      <3> QED
        BY <3>1, Zenon DEF left
  <1>7. k \in 0 .. Len(left) /\ from + k = upto
    BY <1>3, <1>4, <1>5, <1>6
  <1> HIDE DEF left, k
  <1>8. SubSeq(left, 1, k) = Between(Stream[s], from, upto)
    <2>1. from + Len(left) <= Len(Stream[s])
      BY <1>4, <1>5, <1>6
    <2>2. \A j \in 1 .. Len(left) : left[j] = Stream[s][from + j]
      BY <1>6
    <2>3. SubSeq(left, 1, k) = Between(Stream[s], from, from + k)
      BY <1>4, <1>5, <1>6, <1>7, <2>1, <2>2, BetweenBuffer, ZenonT(60)
    <2> QED
      BY <1>7, <2>3, Zenon
  <1>9. CASE rec.pat = Line
    <2>1. /\ upto > from /\ Stream[s][upto] = LF
          /\ \A j \in from + 1 .. upto - 1 : Stream[s][j] # LF
          /\ rec.res = Text(SubSeq(left, 1, k))
      BY <1>4, <1>8, <1>9, Zenon
    <2>2. k \in 1 .. Len(left) /\ left[k] = LF
      <3>1. k \in 1 .. Len(left)
        BY <1>4, <1>6, <1>7, <2>1
      <3> QED
        BY <1>6, <1>7, <2>1, <3>1
    <2>3. ASSUME NEW j \in 1 .. Len(left), j < k PROVE left[j] # LF
      <3>1. from + j \in from + 1 .. upto - 1 /\ j \in 1 .. sent - from
        BY <1>4, <1>5, <1>6, <1>7, <2>3
      <3> QED
        BY <1>6, <2>1, <3>1
    <2> DEFINE e == LineEnd(left)
    <2>4. /\ e \in 0 .. Len(left)
          /\ e = 0 => \A j \in 1 .. Len(left) : left[j] # LF
          /\ e > 0 => left[e] = LF /\ \A j \in 1 .. e - 1 : left[j] # LF
      BY <1>6, LineEndIsFirst
    <2> HIDE DEF e
    <2>5. e = k
      <3>1. e # 0
        BY <2>2, <2>4
      <3>2. e \in 1 .. Len(left) /\ left[e] = LF
        BY <2>4, <3>1
      <3>3. ~(e < k)
        BY <2>3, <3>2
      <3>4. ~(k < e)
        <4>1. k < e => k \in 1 .. e - 1
          BY <2>2, <3>2
        <4> QED
          BY <2>2, <2>4, <3>1, <3>2, <4>1
      <3> QED
        BY <2>2, <3>2, <3>3, <3>4
    <2>6. part = [n |-> e, res |-> Text(SubSeq(left, 1, e))]
      <3>1. PartOf(left, Line) = [n |-> LineEnd(left), res |-> Text(SubSeq(left, 1, LineEnd(left)))]
        BY DEF PartOf, Line, All
      <3> QED
        BY <1>9, <3>1, Zenon DEF e
    <2>7. part.n = k /\ part.res = Text(SubSeq(left, 1, k))
      <3>1. part.n = e /\ part.res = Text(SubSeq(left, 1, e))
        BY <2>6
      <3> QED
        BY <2>5, <3>1, Zenon
    <2> HIDE DEF part
    <2> QED
      BY <1>7, <2>1, <2>7, Zenon
  <1>10. CASE rec.pat = All
    <2>1. upto = sent /\ All # Line
      BY <1>3, <1>10 DEF All, Line
    <2>2. rec.res = left
      BY <1>4, <1>10, <2>1 DEF left
    <2>3. part = [n |-> Len(left), res |-> left]
      BY <1>10, <2>1 DEF PartOf
    <2>4. part.n = Len(left) /\ part.res = left
      BY <2>3
    <2>5. from + Len(left) = upto
      BY <1>4, <1>5, <1>6, <2>1
    <2> HIDE DEF part
    <2> QED
      BY <2>2, <2>4, <2>5, Zenon
  <1>11. CASE rec.pat \in Nat
    <2>1. rec.pat # Line /\ rec.pat # All /\ rec.pat >= 0
      BY <1>11 DEF All, Line
    <2>2. k = rec.pat
      BY <1>3, <2>1 DEF k
    <2>3. part = [n |-> rec.pat, res |-> SubSeq(left, 1, rec.pat)]
      BY <2>1 DEF PartOf
    <2>4. part.n = k /\ part.res = SubSeq(left, 1, k)
      <3> HIDE DEF part
      <3>1. part.n = rec.pat /\ part.res = SubSeq(left, 1, rec.pat)
        BY <2>3
      <3> QED
        BY <2>2, <3>1, Zenon
    <2> HIDE DEF part
    <2> QED
      BY <1>4, <1>7, <1>8, <2>1, <2>4, Zenon
  <1> QED
    BY <1>1, <1>9, <1>10, <1>11

-----------------------------------------------------------------------------
(* The invariant                                                              *)

StreamInv == StreamBase /\ SendsInv /\ LimitsInv /\ SelectInv /\ ReceivesInv

LEMMA StreamInvInit == StreamInit => StreamInv
  <1> SUFFICES ASSUME StreamInit PROVE StreamInv
    OBVIOUS
  <1>1. op.name = "idle"
    BY DEF StreamInit, Idle
  <1>2. LimitsInv /\ SelectInv
    BY <1>1 DEF LimitsInv, SelectInv
  <1>3. SendsInv
    <2>1. ASSUME NEW s \in Socks
          PROVE  kern[s].wire \o kern[s].out = <<>> /\ SentSoFar(s) = 0 /\ Len(Message[s]) \in Nat
      BY <1>1, StreamIsTyped DEF StreamInit, SentSoFar
    <2>2. Len(<<>>) = 0 /\ (\A i \in 1 .. 0 : FALSE) /\ \A n \in Nat : 0 <= n
      OBVIOUS
    <2> QED
      BY <1>1, <2>1, <2>2, Zenon DEF SendsInv
  <1> QED
    BY <1>2, <1>3, BaseInit, CutInit DEF StreamInv

\* Steps that leave the system's and the program's buffers and the limits.
SameBuffers == \A s \in Socks : sock'[s].buf = sock[s].buf
LEMMA IdleStep ==
  ASSUME StreamInv, op = Idle, StreamType', UNCHANGED <<done, rest, given>>, op'.name # "receive", op'.name # "send",
         SameBuffers,
         \A s \in Socks : /\ kern'[s].sent = kern[s].sent /\ kern'[s].in = kern[s].in /\ kern'[s].eof = kern[s].eof
                          /\ kern'[s].out = kern[s].out /\ kern'[s].wire = kern[s].wire
                          /\ kern'[s].open => kern[s].open
  PROVE  StreamBase' /\ SendsInv' /\ LimitsInv' /\ ReceivesInv'
  <1>1. op.name = "idle"
    BY DEF Idle
  <1>2. StreamBase'
    BY BaseApart DEF StreamInv
  <1>3. SendsInv'
    BY <1>1, SendsApart DEF StreamInv
  <1>4. LimitsInv'
    BY DEF LimitsInv
  <1>5. ReceivesInv'
    BY <1>1, CutApart DEF StreamInv, SameBuffers
  <1> QED
    BY <1>2, <1>3, <1>4, <1>5

LEMMA CallKeeps ==
  ASSUME StreamInv, Call
  PROVE  StreamInv'
  <1>1. PICK s \in Socks :
          \/ \E pat \in Patterns : buffer_meth_receive(s, pat)
          \/ buffer_meth_send(s)
          \/ CloseStream(s)
          \/ \E mode \in {"b", "t"}, t \in Timeouts : timeout_meth_settimeout(s, mode, t)
          \/ \E wtab \in {{}, {s}}, t \in Timeouts : global_select(Socks, wtab, t)
    BY DEF Call
  <1>2. StreamBase /\ StreamType
    BY DEF StreamInv, StreamBase
  <1>3. ASSUME NEW pat \in Patterns, buffer_meth_receive(s, pat) PROVE StreamInv'
    <2>1. /\ op'.name = "receive" /\ op'.pc = "get" /\ op'.s = s /\ op'.err = "" /\ op'.since = now /\ op = Idle
          /\ sock' = [sock EXCEPT ![s].start = now] /\ UNCHANGED <<kern, now, given>>
      BY <1>2, <1>3, ReceiveStarts DEF ReceiveOps
    <2>2. op.name # "send"
      BY <2>1 DEF Idle
    <2>3. SendsInv'
      BY <1>2, <2>1, <2>2, SendsApart DEF StreamInv
    <2>4. LimitsInv'
      BY <1>2, <2>1, LimitsStart
    <2>5. SelectInv'
      BY <2>1, SelectApart
    <2> QED
      BY <1>2, <1>3, <2>3, <2>4, <2>5, BaseReceive, CutStart DEF StreamInv
  <1>4. CASE buffer_meth_send(s)
    <2>1. /\ op'.name = "send" /\ op'.pc = "send" /\ op'.s = s /\ op'.err = "" /\ op'.since = now /\ op.name = "idle"
          /\ sock' = [sock EXCEPT ![s].start = now] /\ UNCHANGED <<kern, now, done, rest>>
      BY <1>4 DEF buffer_meth_send, timeout_markstart, Idle
    <2>2. StreamBase'
      BY <1>2, <1>4, <2>1, SendType, BaseApart
    <2>3. LimitsInv'
      BY <1>2, <2>1, LimitsStart
    <2>4. SelectInv'
      BY <2>1, SelectApart
    <2>5. ReceivesInv'
      <3>1. \A t \in Socks : sock'[t].buf = sock[t].buf
        BY <1>2, <2>1 DEF StreamType, SockOf
      <3> QED
        BY <2>1, <3>1, CutApart DEF StreamInv
    <2> QED
      BY <1>2, <1>4, <2>2, <2>3, <2>4, <2>5, SendsStart DEF StreamInv
  <1>5. CASE CloseStream(s)
    <2>1. kern' = [kern EXCEPT ![s].open = FALSE] /\ op = Idle /\ UNCHANGED <<sock, op, now, done, rest, given>>
      BY <1>5 DEF CloseStream
    <2>2. ASSUME NEW t \in Socks
          PROVE  /\ kern'[t].sent = kern[t].sent /\ kern'[t].in = kern[t].in /\ kern'[t].eof = kern[t].eof
                 /\ kern'[t].out = kern[t].out /\ kern'[t].wire = kern[t].wire
                 /\ kern'[t].open => kern[t].open
      BY <1>2, <2>1, ZenonT(60) DEF StreamType, KernOf
    <2>3. kern' \in [Socks -> KernOf]
      BY <1>2, <2>1 DEF StreamType, KernOf
    <2>4. StreamType'
      BY <1>2, <2>1, <2>3 DEF StreamType
    <2>5. op'.name = "idle"
      BY <2>1 DEF Idle
    <2> QED
      BY <2>1, <2>2, <2>4, <2>5, IdleStep, SelectApart DEF StreamInv, SameBuffers
  <1>6. ASSUME NEW mode \in {"b", "t"}, NEW t \in Timeouts, timeout_meth_settimeout(s, mode, t) PROVE StreamInv'
    <2>1. op = Idle /\ UNCHANGED <<kern, op, now, done, rest, given>>
      BY <1>6 DEF timeout_meth_settimeout
    <2>2. SameBuffers
      BY <1>2, <1>6 DEF timeout_meth_settimeout, SameBuffers, StreamType, SockOf
    <2>3. StreamType'
      BY <1>2, <1>6, SettimeoutType
    <2>4. op'.name = "idle"
      BY <2>1 DEF Idle
    <2> QED
      BY <2>1, <2>2, <2>3, <2>4, IdleStep, SelectApart DEF StreamInv
  <1>7. ASSUME NEW wtab \in {{}, {s}}, NEW t \in Timeouts, global_select(Socks, wtab, t) PROVE StreamInv'
    <2>1. op = Idle /\ op'.name = "select" /\ UNCHANGED <<kern, sock, now, done, rest, given>>
      BY <1>7 DEF global_select
    <2>2. wtab \in SUBSET Socks /\ Socks \in SUBSET Socks
      OBVIOUS
    <2>3. StreamType' /\ SelectInv'
      BY <1>2, <1>7, <2>2, SelectType, SelectStarts
    <2> QED
      BY <2>1, <2>3, IdleStep DEF StreamInv, SameBuffers
  <1> QED
    BY <1>1, <1>3, <1>4, <1>5, <1>6, <1>7

\* A step of a receive keeps what is sent, and its limits as they are.
LEMMA ReceiveStep ==
  ASSUME StreamInv, op.name = "receive", op' = Idle \/ (op'.name = "receive" /\ LimitsStep),
         UNCHANGED given,
         \A s \in Socks : kern'[s].out = kern[s].out /\ kern'[s].wire = kern[s].wire
  PROVE  SendsInv' /\ LimitsInv' /\ SelectInv'
  <1>1. op'.name \in {"idle", "receive"}
    BY DEF Idle
  <1>2. SendsInv'
    BY <1>1, SendsApart DEF StreamInv
  <1>3. LimitsInv'
    <2>1. CASE op' = Idle
      BY <2>1 DEF LimitsInv, Idle
    <2>2. CASE LimitsStep
      BY <2>2, LimitsKept DEF StreamInv
    <2> QED
      BY <2>1, <2>2
  <1>4. SelectInv'
    BY <1>1, SelectApart
  <1> QED
    BY <1>2, <1>3, <1>4

LEMMA ReceiveKeeps ==
  ASSUME StreamInv, buffer_get \/ socket_recv \/ WaitToRead \/ ReturnReceive
  PROVE  StreamInv'
  <1>1. StreamBase /\ StreamType
    <2>1. StreamBase /\ SendsInv
      BY ZenonT(60) DEF StreamInv
    <2> QED
      BY <2>1, Zenon DEF StreamBase
  <1>2. op.name = "receive" /\ op \in ReceiveOps /\ op.s \in Socks
    BY <1>1, OpKinds DEF buffer_get, socket_recv, WaitToRead, ReturnReceive, ReceiveOps
  <1>3. CASE buffer_get
    <2>1. op.pc = "get" /\ UNCHANGED <<kern, now, done, rest, given>>
      BY <1>3 DEF buffer_get
    <2>2. op.err = ""
      BY <1>1, <1>2, <2>1 DEF StreamBase, ReceiveCounts
    <2>3. /\ op'.name = "receive" /\ op'.s = op.s /\ op'.since = op.since /\ op'.err = op.err /\ op'.pc # "wait"
          /\ sock'[op.s].block = sock[op.s].block /\ sock'[op.s].total = sock[op.s].total
          /\ sock'[op.s].start = sock[op.s].start
      <3>1. CASE sock[op.s].buf = <<>>
        <4>1. op' = [op EXCEPT !.pc = "recv"] /\ UNCHANGED sock
          BY <1>3, <3>1 DEF buffer_get
        <4> QED
          BY <1>2, <4>1 DEF ReceiveOps
      <3>2. CASE sock[op.s].buf # <<>>
        <4>1. PICK n \in 0 .. Len(sock[op.s].buf), b \in Seq(Bytes), end \in BOOLEAN :
                /\ op' = [op EXCEPT !.b = @ \o b, !.total = @ + n, !.pc = IF end THEN "done" ELSE "get"]
                /\ sock' = [sock EXCEPT ![op.s].buf = SubSeq(@, n + 1, Len(@))]
          BY <1>1, <1>3, <3>2, BufferTakes
        <4> DEFINE joined == op.b \o b
                   total == op.total + n
                   left == SubSeq(sock[op.s].buf, n + 1, Len(sock[op.s].buf))
                   pc == IF end THEN "done" ELSE "get"
        <4>2. op' = [op EXCEPT !.b = joined, !.total = total, !.pc = pc] /\ sock' = [sock EXCEPT ![op.s].buf = left]
          BY <4>1
        <4>3. pc # "wait"
          OBVIOUS
        <4> HIDE DEF joined, total, left, pc
        <4> QED
          BY <1>1, <1>2, <4>2, <4>3 DEF ReceiveOps, StreamType, SockOf
      <3> QED
        BY <3>1, <3>2
    <2>4. LimitsStep
      BY <2>1, <2>3, Zenon DEF LimitsStep
    <2>5. SendsInv' /\ LimitsInv' /\ SelectInv'
      BY <1>2, <2>1, <2>3, <2>4, ReceiveStep
    <2> QED
      BY <1>1, <1>3, <2>5, BaseGet, CutGet, SMTT(45) DEF StreamInv
  <1>4. CASE socket_recv
    <2>1. SameReceive /\ UNCHANGED <<now, given>>
      BY <1>1, <1>4, RecvDoes
    <2>2. op'.name = "receive" /\ op'.s = op.s /\ op'.since = op.since
      BY <2>1 DEF SameReceive, ReceiveOps
    <2>3. /\ sock'[op.s].block = sock[op.s].block /\ sock'[op.s].total = sock[op.s].total
          /\ sock'[op.s].start = sock[op.s].start
          /\ \A s \in Socks : kern'[s].out = kern[s].out /\ kern'[s].wire = kern[s].wire
      <3>1. CASE UNCHANGED <<kern, sock>>
        BY <3>1
      <3>2. ASSUME NEW n \in 0 .. Len(kern[op.s].in),
                   sock' = [sock EXCEPT ![op.s].buf = SubSeq(kern[op.s].in, 1, n)],
                   kern' = [kern EXCEPT ![op.s].in = SubSeq(@, n + 1, Len(@))]
            PROVE  /\ sock'[op.s].block = sock[op.s].block /\ sock'[op.s].total = sock[op.s].total
                   /\ sock'[op.s].start = sock[op.s].start
                   /\ \A s \in Socks : kern'[s].out = kern[s].out /\ kern'[s].wire = kern[s].wire
        BY <1>1, <1>2, <3>2, ZenonT(60) DEF StreamType, SockOf, KernOf
      <3> QED
        BY <1>1, <1>4, <3>1, <3>2, RecvDoes
    <2>4. \/ op'.pc # "wait" /\ op'.err \in {"", "closed"}
          \/ op'.pc # "wait" /\ op'.err = op.err
          \/ op'.pc = "wait" /\ op'.err = op.err /\ op'.until = Until(sock[op.s])
          \/ op'.pc = "done" /\ op'.err = "timeout" /\ timeout_iszero(sock[op.s])
      BY <1>1, <1>4, RecvDoes
    <2>5. LimitsStep
      BY <2>1, <2>2, <2>3, <2>4, Zenon DEF LimitsStep
    <2>6. SendsInv' /\ LimitsInv' /\ SelectInv'
      BY <1>2, <2>1, <2>2, <2>3, <2>5, ReceiveStep
    <2> QED
      BY <1>1, <1>4, <2>6, BaseRecv, CutRecv DEF StreamInv
  <1>5. CASE WaitToRead
    <2>1. /\ SameReceive /\ op.pc = "wait" /\ UNCHANGED <<kern, sock, now, done, rest, given>>
          /\ \/ op'.pc = "recv" /\ op'.err = op.err
             \/ op'.pc = "done" /\ op'.err = "timeout" /\ Expired
             \/ op'.pc = "wait" /\ op'.err = op.err /\ op'.until = Until(sock[op.s])
      BY <1>1, <1>5, WaitToReadDoes
    <2>2. op'.name = "receive" /\ op'.s = op.s /\ op'.since = op.since
      BY <2>1 DEF SameReceive, ReceiveOps
    <2>3. LimitsStep
      BY <2>1, <2>2 DEF LimitsStep
    <2>4. SendsInv' /\ LimitsInv' /\ SelectInv'
      BY <1>2, <2>1, <2>2, <2>3, ReceiveStep
    <2>5. ReceivesInv'
      BY <1>1, <2>1, CutSameReceive DEF StreamInv
    <2> QED
      BY <1>1, <1>5, <2>4, <2>5, BaseWaitToRead DEF StreamInv
  <1>6. CASE ReturnReceive
    <2>1. op' = Idle /\ UNCHANGED <<kern, given>>
      BY <1>6 DEF ReturnReceive
    <2>2. SendsInv' /\ LimitsInv' /\ SelectInv'
      BY <1>2, <2>1, ReceiveStep
    <2> QED
      BY <1>1, <1>6, <2>2, BaseReturnReceive, CutReturn DEF StreamInv
  <1> QED
    BY <1>3, <1>4, <1>5, <1>6

LEMMA SendKeeps ==
  ASSUME StreamInv, socket_send \/ WaitToWrite \/ ReturnSend
  PROVE  StreamInv'
  <1>1. StreamBase /\ StreamType /\ SendsInv
    <2>1. StreamBase /\ SendsInv
      BY ZenonT(60) DEF StreamInv
    <2> QED
      BY <2>1, Zenon DEF StreamBase
  <1>2. op.name = "send" /\ op \in SendOps /\ op.s \in Socks
    BY <1>1, OpKinds DEF socket_send, WaitToWrite, ReturnSend, SendOps
  <1>3. op.start + op.total >= 1
    <2>1. op.start = given[op.s] + 1 /\ given[op.s] \in Nat /\ op.total \in Nat
      BY <1>1, <1>2 DEF SendsInv, StreamType, SendOps
    <2> QED
      BY <2>1
  <1>4. ASSUME op'.name # "receive", op'.name # "select", UNCHANGED <<sock, done, rest>>,
               \A s \in Socks : /\ kern'[s].sent = kern[s].sent /\ kern'[s].in = kern[s].in /\ kern'[s].eof = kern[s].eof
                                /\ kern'[s].open = kern[s].open
        PROVE  ReceivesInv' /\ SelectInv'
    <2>1. ReceivesInv'
      BY <1>2, <1>4, CutApart DEF StreamInv
    <2>2. SelectInv'
      BY <1>4, SelectApart
    <2> QED
      BY <2>1, <2>2
  <1>5. CASE socket_send
    <2>1. SameSend /\ UNCHANGED <<sock, now, done, rest, given>>
      BY <1>1, <1>5, SendDoes
    <2>2. op'.name = "send" /\ op'.s = op.s /\ op'.since = op.since
      BY <2>1 DEF SameSend, SendOps
    <2>3. ASSUME NEW s \in Socks
          PROVE  /\ kern'[s].sent = kern[s].sent /\ kern'[s].in = kern[s].in /\ kern'[s].eof = kern[s].eof
                 /\ kern'[s].open = kern[s].open
      <3>1. ASSUME NEW put \in 1 .. Len(sendraw(op.s)), kern' = [kern EXCEPT ![op.s].out = @ \o Offered(put)]
            PROVE  /\ kern'[s].sent = kern[s].sent /\ kern'[s].in = kern[s].in /\ kern'[s].eof = kern[s].eof
                   /\ kern'[s].open = kern[s].open
        <4> DEFINE out == kern[op.s].out \o Offered(put)
        <4>1. kern' = [kern EXCEPT ![op.s].out = out]
          BY <3>1
        <4> HIDE DEF out
        <4> QED
          BY <1>1, <1>2, <4>1 DEF StreamType, KernOf
      <3> QED
        BY <1>1, <1>5, <3>1, SendDoes
    <2>4. \/ op'.pc # "wait" /\ op'.err \in {"", "closed"}
          \/ op'.pc # "wait" /\ op'.err = op.err
          \/ op'.pc = "wait" /\ op'.err = op.err /\ op'.until = Until(sock[op.s])
          \/ op'.pc = "done" /\ op'.err = "timeout" /\ timeout_iszero(sock[op.s])
      BY <1>1, <1>5, SendDoes
    <2>5. LimitsStep
      BY <2>1, <2>2, <2>4, Zenon DEF LimitsStep
    <2>6. LimitsInv'
      BY <1>2, <2>5, LimitsKept DEF StreamInv
    <2>7. ReceivesInv' /\ SelectInv'
      BY <1>4, <2>1, <2>2, <2>3
    <2> QED
      BY <1>1, <1>3, <1>5, <2>6, <2>7, BaseSend, SendsMore DEF StreamInv
  <1>6. CASE WaitToWrite
    <2>1. /\ SameSend /\ op'.total = op.total /\ op.pc = "wait" /\ UNCHANGED <<kern, sock, now, done, rest, given>>
          /\ \/ op'.pc = "send" /\ op'.err = op.err
             \/ op'.pc = "done" /\ op'.err = "timeout" /\ Expired
             \/ op'.pc = "wait" /\ op'.err = op.err /\ op'.until = Until(sock[op.s])
      BY <1>1, <1>6, WaitToWriteDoes
    <2>2. op'.name = "send" /\ op'.s = op.s /\ op'.start = op.start /\ op'.since = op.since
      BY <2>1 DEF SameSend, SendOps
    <2>3. LimitsStep
      BY <2>1, <2>2 DEF LimitsStep
    <2>4. LimitsInv'
      BY <1>2, <2>3, LimitsKept DEF StreamInv
    <2>5. SendsInv'
      BY <1>1, <1>2, <2>1, <2>2, SendsSame
    <2>6. ReceivesInv' /\ SelectInv'
      BY <1>4, <2>1, <2>2
    <2> QED
      BY <1>1, <1>6, <2>4, <2>5, <2>6, BaseWaitToWrite DEF StreamInv
  <1>7. CASE ReturnSend
    <2>1. op' = Idle /\ UNCHANGED <<kern, sock, now, done, rest>>
      BY <1>7 DEF ReturnSend
    <2>2. op'.name = "idle"
      BY <2>1 DEF Idle
    <2>3. LimitsInv'
      BY <2>2 DEF LimitsInv
    <2>4. ReceivesInv' /\ SelectInv'
      BY <1>4, <2>1, <2>2
    <2> QED
      BY <1>1, <1>3, <1>7, <2>3, <2>4, BaseReturnSend, SendsReturn DEF StreamInv
  <1> QED
    BY <1>5, <1>6, <1>7

LEMMA SelectKeeps ==
  ASSUME StreamInv, socket_select \/ ReturnSelect
  PROVE  StreamInv'
  <1>1. StreamBase /\ StreamType
    BY DEF StreamInv, StreamBase
  <1>2. op.name = "select" /\ UNCHANGED <<kern, sock, now, done, rest, given>>
    BY DEF socket_select, ReturnSelect
  <1>3. ASSUME op'.name \in {"idle", "select"} PROVE SendsInv' /\ LimitsInv' /\ ReceivesInv'
    <2>1. SendsInv'
      BY <1>2, <1>3, SendsApart DEF StreamInv
    <2>2. LimitsInv'
      BY <1>3 DEF LimitsInv
    <2>3. ReceivesInv'
      BY <1>2, <1>3, CutApart DEF StreamInv
    <2> QED
      BY <2>1, <2>2, <2>3
  <1>4. CASE socket_select
    <2>1. op'.name = "select"
      BY <1>1, <1>4, SelectSteps DEF SelectDoes, SelectOps
    <2> QED
      BY <1>1, <1>3, <1>4, <2>1, BaseSelect, SelectKept DEF StreamInv
  <1>5. CASE ReturnSelect
    <2>1. op' = Idle /\ op'.name = "idle"
      BY <1>5 DEF ReturnSelect, Idle
    <2>2. StreamBase'
      BY <1>1, <1>2, <2>1, BaseOther DEF StreamType
    <2> QED
      BY <1>3, <2>1, <2>2, SelectApart DEF StreamInv
  <1> QED
    BY <1>4, <1>5

\* Steps in which only the system's side or the time changes.
LEMMA SystemKeeps ==
  ASSUME StreamInv, UNCHANGED <<sock, op, done, rest, given>>, kern' \in [Socks -> KernOf], now' \in {now, now + 1},
         LimitsInv', ReceivesInv',
         \A s \in Socks : /\ kern'[s].wire \o kern'[s].out = kern[s].wire \o kern[s].out
                          /\ kern'[s].open = kern[s].open
                          /\ Readable(s) => Readable(s)'
  PROVE  StreamInv'
  <1>1. StreamBase /\ now \in Nat
    BY DEF StreamInv, StreamBase, StreamType
  <1>2. now' \in Nat /\ now <= now'
    BY <1>1
  <1>3. StreamBase'
    BY <1>1, <1>2, BaseKern
  <1>4. SendsInv'
    <2>1. \A s \in Socks : SentSoFar(s)' = SentSoFar(s)
      BY DEF SentSoFar
    <2> QED
      BY <2>1, ZenonT(60) DEF SendsInv, StreamInv
  <1>5. SelectInv'
    BY <1>1, <1>2, SelectApart DEF StreamInv
  <1> QED
    BY <1>3, <1>4, <1>5 DEF StreamInv

LEMMA PeerKeeps ==
  ASSUME StreamInv, Peer
  PROVE  StreamInv'
  <1>1. PICK s \in Socks : /\ PeerSends(s) \/ PeerReads(s) \/ PeerCloses(s)
                           /\ UNCHANGED <<sock, op, now, done, rest, given, calls>>
    BY DEF Peer
  <1>2. StreamBase /\ kern \in [Socks -> KernOf] /\ kern[s] \in KernOf
    BY DEF StreamInv, StreamBase, StreamType
  <1>3. kern' \in [Socks -> KernOf]
    BY <1>1, <1>2, BasePeer
  <1>4. ReceivesInv'
    BY <1>1, <1>2, CutPeer DEF StreamInv
  <1>5. LimitsInv'
    BY <1>1, Zenon DEF LimitsInv, WaitIsBounded, StreamInv
  <1>6. ASSUME NEW t \in Socks
        PROVE  /\ kern'[t].wire \o kern'[t].out = kern[t].wire \o kern[t].out
               /\ kern'[t].open = kern[t].open
               /\ Readable(t) => Readable(t)'
    <2>1. CASE PeerSends(s)
      <3> DEFINE c == Stream[s][kern[s].sent + 1]
                 in == Append(kern[s].in, c)
                 sent == kern[s].sent + 1
      <3>1. kern' = [kern EXCEPT ![s].sent = sent, ![s].in = in]
        BY <2>1 DEF PeerSends
      <3>2. in # <<>>
        <4>1. kern[s].in \in Seq(Bytes) /\ c \in Bytes
          <5>1. kern[s].sent + 1 \in 1 .. Len(Stream[s])
            BY <1>2, <2>1, StreamIsTyped, SMTT(45) DEF PeerSends, KernOf
          <5> QED
            BY <1>2, <5>1, StreamIsTyped DEF KernOf
        <4> HIDE DEF c
        <4>2. Len(in) > 0 /\ Len(<<>>) = 0
          BY <4>1
        <4> HIDE DEF in
        <4> QED
          BY <4>2
      <3> HIDE DEF in, sent
      <3> QED
        BY <1>2, <3>1, <3>2 DEF Readable, KernOf
    <2>2. CASE PeerReads(s)
      <3> DEFINE wire == kern[s].wire \o kern[s].out
      <3>1. kern' = [kern EXCEPT ![s].out = <<>>, ![s].wire = wire]
        BY <2>2 DEF PeerReads
      <3>2. wire \o <<>> = wire
        <4>1. wire \in Seq(Data)
          BY <1>2 DEF KernOf
        <4> HIDE DEF wire
        <4> QED
          BY <4>1, ConcatEmptySeq
      <3> HIDE DEF wire
      <3>3. kern'[s].out = <<>> /\ kern'[s].wire = wire /\ (t # s => kern'[t] = kern[t])
            /\ kern'[s].open = kern[s].open /\ kern'[s].in = kern[s].in /\ kern'[s].eof = kern[s].eof
        BY <1>2, <3>1 DEF KernOf
      <3>4. CASE t = s
        BY <3>2, <3>3, <3>4, Zenon DEF Readable, wire
      <3>5. CASE t # s
        BY <3>3, <3>5, Zenon DEF Readable
      <3> QED
        BY <3>4, <3>5
    <2>3. CASE PeerCloses(s)
      BY <1>2, <2>3 DEF PeerCloses, Readable, KernOf
    <2> QED
      BY <1>1, <2>1, <2>2, <2>3
  <1> QED
    BY <1>1, <1>3, <1>4, <1>5, <1>6, SystemKeeps

LEMMA TickKeeps ==
  ASSUME StreamInv, Tick
  PROVE  StreamInv'
  <1>1. now' = now + 1 /\ UNCHANGED <<kern, sock, op, done, rest, given>>
    BY DEF Tick
  <1>2. kern' \in [Socks -> KernOf]
    BY <1>1 DEF StreamInv, StreamBase, StreamType
  <1>3. LimitsInv'
    BY <1>1, LimitsTick DEF StreamInv
  <1>4. ReceivesInv'
    <2>1. ASSUME NEW s \in Socks PROVE CutInv(s)'
      <3>1. Pat(s)' = Pat(s) /\ Res(s)' = Res(s) /\ (Ended(s)' <=> Ended(s))
        BY <1>1 DEF Pat, Res, Ended, Reading
      <3> QED
        BY <1>1, <3>1, CutSame DEF ReceivesInv, StreamInv
    <2> QED
      BY <2>1 DEF ReceivesInv
  <1>5. \A s \in Socks : Readable(s)' = Readable(s)
    BY <1>1 DEF Readable
  <1> QED
    BY <1>1, <1>2, <1>3, <1>4, <1>5, SystemKeeps

LEMMA StreamInvStep == StreamInv /\ [StreamNext]_streamVars => StreamInv'
  <1> SUFFICES ASSUME StreamInv, [StreamNext]_streamVars PROVE StreamInv'
    OBVIOUS
  <1>1. CASE Call
    BY <1>1, CallKeeps
  <1>2. CASE Proceed
    BY <1>2, ReceiveKeeps, SendKeeps, SelectKeeps DEF Proceed
  <1>3. CASE Peer
    BY <1>3, PeerKeeps
  <1>4. CASE Tick
    BY <1>4, TickKeeps
  <1>5. CASE UNCHANGED streamVars
    <2>1. UNCHANGED <<kern, sock, op, now, done, rest, given>>
      BY <1>5 DEF streamVars
    <2>2. kern' \in [Socks -> KernOf]
      BY <2>1 DEF StreamInv, StreamBase, StreamType
    <2>3. LimitsInv'
      BY <2>1, Zenon DEF LimitsInv, WaitIsBounded, StreamInv
    <2>4. ReceivesInv'
      <3>1. ASSUME NEW s \in Socks PROVE CutInv(s)'
        <4>1. Pat(s)' = Pat(s) /\ Res(s)' = Res(s) /\ (Ended(s)' <=> Ended(s))
          BY <2>1 DEF Pat, Res, Ended, Reading
        <4> QED
          BY <2>1, <4>1, CutSame DEF ReceivesInv, StreamInv
      <3> QED
        BY <3>1 DEF ReceivesInv
    <2>5. \A s \in Socks : Readable(s)' = Readable(s)
      BY <2>1 DEF Readable
    <2> QED
      BY <2>1, <2>2, <2>3, <2>4, <2>5, SystemKeeps
  <1> QED
    BY <1>1, <1>2, <1>3, <1>4, <1>5 DEF StreamNext

LEMMA StreamInvHolds == StreamSpec => []StreamInv
  BY StreamInvInit, StreamInvStep, PTL DEF StreamSpec

\* Whatever pieces the bytes arrive in, and however often receives time out and
\* are called again with their partial results, those that succeed cut the
\* stream by their patterns, with any buffer size and any patterns.
THEOREM ReceivesAreExact == StreamSpec => []ReceivesCutTheStream
  <1>1. StreamInv => ReceivesCutTheStream
    BY CutProp DEF StreamInv
  <1> QED
    BY <1>1, StreamInvHolds, PTL

\* However little the system takes at a time, it is given each byte of a
\* message once, in order, and send returns the index of the last.
THEOREM SendsAreExact == StreamSpec => []SendsEachByteOnce
  <1>1. StreamInv => SendsEachByteOnce
    BY SendsProp DEF StreamInv
  <1> QED
    BY <1>1, StreamInvHolds, PTL

\* With any limits, set at any time between calls, no call waits past its limit
\* and none times out before.
THEOREM WaitsKeepLimits == StreamSpec => []LimitsHold
  <1>1. StreamInv => LimitsHold
    BY LimitsProp DEF StreamInv
  <1> QED
    BY <1>1, StreamInvHolds, PTL

\* select counts what is in the buffers of its sockets: it never waits while
\* one has bytes there, and returns only sockets that can be read.
THEOREM SelectSeesBuffers == StreamSpec => []SelectKnowsTheBuffers
  <1>1. StreamInv => SelectKnowsTheBuffers
    BY SelectProp DEF StreamInv
  <1> QED
    BY <1>1, StreamInvHolds, PTL

-----------------------------------------------------------------------------
(* Options *)

Names == tcpOptset \cup udpOptset
Values == {OptionValue(name, a) : name \in Names, a \in Arguments}
SetCall == [name : Names, value : Values, ok : BOOLEAN]
Kept == {SystemOption(name) : name \in Names}

\* The names under which getoption reads what was set by a name.
Alike(name, other) == \/ other = name
                      \/ {name, other} \subseteq {"ipv6-unicast-hops", "ipv6-multicast-hops"}

OptionsType == options \in [class : {"tcp", "udp", "unixstream", "unixdgram"}, sets : Seq(SetCall),
                            kernel : [Kept -> Values \cup {<<>>}]]

\* The last successful call by a name, or its like, is what the system has.
LastCall(name, i) ==
  /\ options.sets[i].ok /\ Alike(name, options.sets[i].name)
  /\ \A j \in 1 .. Len(options.sets) :
       options.sets[j].ok /\ Alike(name, options.sets[j].name) => j <= i

OptionsInv ==
  /\ OptionsType
  /\ \A name \in Names \ Memberships : \A i \in 1 .. Len(options.sets) :
       LastCall(name, i) => options.kernel[SystemOption(name)] = options.sets[i].value
  /\ \A i \in 1 .. Len(options.sets) : options.sets[i].ok => options.sets[i].name \in Settable(options.class)

\* But for the memberships, names that are not alike are different options.
LEMMA OptionsApart ==
  ASSUME NEW name \in Names \ Memberships, NEW other \in Names
  PROVE  Alike(name, other) <=> SystemOption(name) = SystemOption(other)
  <1> DEFINE hops == {"ipv6-unicast-hops", "ipv6-multicast-hops"}
  <1>1. name \in hops => SystemOption(name) = "ipv6-unicast-hops"
    BY DEF SystemOption
  <1>2. name \notin hops => SystemOption(name) = name
    BY DEF SystemOption, Memberships
  <1>3. /\ other \in hops => SystemOption(other) = "ipv6-unicast-hops"
        /\ other \in Memberships => SystemOption(other) \in {"ip-membership", "ipv6-membership"}
        /\ other \notin hops \cup Memberships => SystemOption(other) = other
    BY DEF SystemOption, Memberships
  <1>4. name \notin {"ip-membership", "ipv6-membership"}
    BY DEF Names, tcpOptset, udpOptset, Memberships
  <1> QED
    BY <1>1, <1>2, <1>3, <1>4 DEF Alike, Memberships

LEMMA OptionsInvInit == OptionsInit => OptionsInv
  <1> SUFFICES ASSUME OptionsInit PROVE OptionsInv
    OBVIOUS
  <1>1. PICK class \in {"tcp", "udp", "unixstream", "unixdgram"} :
          options = [class |-> class, sets |-> <<>>, kernel |-> [o \in Kept |-> <<>>]]
    BY DEF OptionsInit, Kept, Names
  <1>2. <<>> \in Seq(SetCall) /\ Len(<<>>) = 0
    OBVIOUS
  <1> QED
    BY <1>1, <1>2 DEF OptionsInv, OptionsType

\* A call writes the option of its name, or nothing when it fails.
LEMMA OptionSet ==
  ASSUME OptionsInv, NEW name \in Names, NEW a \in Arguments, opt_meth_setoption(name, a)
  PROVE  \E ok \in BOOLEAN, k \in [Kept -> Values \cup {<<>>}] :
           /\ options' = [options EXCEPT !.kernel = k,
                            !.sets = Append(@, [name |-> name, value |-> OptionValue(name, a), ok |-> ok])]
           /\ ok => name \in Settable(options.class)
           /\ \A o \in Kept : ~ok \/ o # SystemOption(name) => k[o] = options.kernel[o]
           /\ ok /\ name \notin Memberships => k[SystemOption(name)] = OptionValue(name, a)
  <1> DEFINE value == OptionValue(name, a)
             o == SystemOption(name)
             kernel == options.kernel
             refused == name \notin Settable(options.class) \/ value = <<>>
             now_ == IF name \in {"ip-drop-membership", "ipv6-drop-membership"} THEN <<>> ELSE value
             no == [ok |-> FALSE, kernel |-> kernel]
             yes == [ok |-> TRUE, kernel |-> [kernel EXCEPT ![o] = now_]]
             call(ok) == [name |-> name, value |-> value, ok |-> ok]
  <1>1. o \in Kept /\ value \in Values /\ kernel \in [Kept -> Values \cup {<<>>}]
    BY DEF Kept, Values, OptionsInv, OptionsType
  <1>2. \A r \in opt_set(name, value) : r = no \/ r = yes
    BY DEF opt_set
  <1>3. PICK r \in IF refused THEN {no} ELSE opt_set(name, value) :
          options' = [options EXCEPT !.kernel = r.kernel, !.sets = Append(@, call(r.ok))]
    BY DEF opt_meth_setoption
  <1>4. r = no \/ (r = yes /\ ~refused)
    BY <1>2, <1>3
  <1>5. name \notin Memberships => now_ = value
    BY DEF Memberships
  <1>6. CASE r = no
    <2>1. r.ok = FALSE /\ r.kernel = kernel
      BY <1>6
    <2> QED
      BY <1>1, <1>3, <2>1
  <1>7. CASE r = yes /\ ~refused
    <2> DEFINE k == [kernel EXCEPT ![o] = now_]
    <2>1. now_ \in Values \cup {<<>>}
      BY <1>1
    <2> HIDE DEF now_
    <2>2. k \in [Kept -> Values \cup {<<>>}] /\ k[o] = now_ /\ \A p \in Kept : p # o => k[p] = kernel[p]
      BY <1>1, <2>1
    <2>3. r.ok = TRUE /\ r.kernel = k
      BY <1>7
    <2>4. name \in Settable(options.class)
      BY <1>7
    <2> HIDE DEF k
    <2> QED
      BY <1>3, <1>5, <2>2, <2>3, <2>4
  <1> QED
    BY <1>4, <1>6, <1>7

LEMMA OptionsInvStep == OptionsInv /\ [OptionsNext]_options => OptionsInv'
  <1> SUFFICES ASSUME OptionsInv, [OptionsNext]_options PROVE OptionsInv'
    OBVIOUS
  <1>1. CASE UNCHANGED options
    BY <1>1 DEF OptionsInv, OptionsType, LastCall
  <1>2. ASSUME NEW name \in Names, NEW a \in Arguments, opt_meth_setoption(name, a) PROVE OptionsInv'
    <2> DEFINE value == OptionValue(name, a)
               sets == options.sets
               n == Len(sets)
    <2>1. PICK ok \in BOOLEAN, k \in [Kept -> Values \cup {<<>>}] :
            /\ options' = [options EXCEPT !.kernel = k, !.sets = Append(@, [name |-> name, value |-> value, ok |-> ok])]
            /\ ok => name \in Settable(options.class)
            /\ \A o \in Kept : ~ok \/ o # SystemOption(name) => k[o] = options.kernel[o]
            /\ ok /\ name \notin Memberships => k[SystemOption(name)] = value
      BY <1>2, OptionSet
    <2> DEFINE c == [name |-> name, value |-> value, ok |-> ok]
    <2>2. c \in SetCall /\ c.name = name /\ c.value = value /\ c.ok = ok
      BY DEF SetCall, Values
    <2>3. sets \in Seq(SetCall) /\ n \in Nat
      BY DEF OptionsInv, OptionsType
    <2>4. options'.class = options.class /\ options'.kernel = k /\ options'.sets = Append(sets, c)
      BY <2>1 DEF OptionsInv, OptionsType
    <2> HIDE DEF c, value
    <2>5. OptionsType'
      <3>1. options' = [class |-> options.class, kernel |-> k, sets |-> Append(sets, c)]
        BY <2>1, <2>4 DEF OptionsInv, OptionsType, c
      <3>2. Append(sets, c) \in Seq(SetCall)
        BY <2>2, <2>3
      <3> QED
        BY <3>1, <3>2 DEF OptionsInv, OptionsType
    <2>6. /\ Len(options'.sets) = n + 1 /\ options'.sets[n + 1] = c
          /\ \A i \in 1 .. n : options'.sets[i] = sets[i]
      BY <2>2, <2>3, <2>4
    <2>7. \A i \in 1 .. n + 1 : options'.sets[i].ok => options'.sets[i].name \in Settable(options'.class)
      BY <2>1, <2>2, <2>3, <2>4, <2>6 DEF OptionsInv
    <2>8. ASSUME NEW other \in Names \ Memberships, NEW i \in 1 .. n + 1, LastCall(other, i)'
          PROVE  options'.kernel[SystemOption(other)] = options'.sets[i].value
      <3>1. SystemOption(other) \in Kept
        BY DEF Kept
      <3>2. CASE i = n + 1
        <4>1. ok /\ Alike(other, name)
          BY <2>2, <2>6, <2>8, <3>2 DEF LastCall
        <4>2. SystemOption(other) = SystemOption(name)
          BY <4>1, OptionsApart
        <4>3. name \notin Memberships
          BY <4>1 DEF Alike, Memberships
        <4> QED
          BY <2>1, <2>2, <2>4, <2>6, <3>2, <4>1, <4>2, <4>3
      <3>3. CASE i # n + 1
        <4>1. i \in 1 .. n /\ ~(n + 1 <= i)
          BY <2>3, <3>3
        <4>2. ~(ok /\ Alike(other, name))
          BY <2>2, <2>3, <2>6, <2>8, <4>1 DEF LastCall
        <4>3. LastCall(other, i)
          BY <2>3, <2>6, <2>8, <4>1, SMTT(45) DEF LastCall
        <4>4. options.kernel[SystemOption(other)] = sets[i].value
          BY <4>1, <4>3 DEF OptionsInv
        <4>5. ~ok \/ SystemOption(other) # SystemOption(name)
          BY <4>2, OptionsApart
        <4> QED
          BY <2>1, <2>4, <2>6, <3>1, <4>1, <4>4, <4>5
      <3> QED
        BY <3>2, <3>3
    <2> QED
      BY <2>5, <2>6, <2>7, <2>8 DEF OptionsInv
  <1> QED
    BY <1>1, <1>2 DEF OptionsNext, Names

LEMMA OptionsRead == OptionsInv => OptionsReadBack
  <1> SUFFICES ASSUME OptionsInv PROVE OptionsReadBack
    OBVIOUS
  <1> DEFINE sets == options.sets
             n == Len(sets)
             hops(name) == name \in {"ipv6-unicast-hops", "ipv6-multicast-hops"}
             by(name) == {i \in DOMAIN sets :
                            sets[i].ok /\ (sets[i].name = name \/ (hops(name) /\ hops(sets[i].name)))}
  <1>1. sets \in Seq(SetCall) /\ n \in Nat /\ DOMAIN sets = 1 .. n
    BY DEF OptionsInv, OptionsType
  <1>2. ASSUME NEW name \in Gettable(options.class), by(name) # {}
        PROVE  opt_meth_getoption(name) = sets[CHOOSE i \in by(name) : \A j \in by(name) : j <= i].value
    <2>1. name \in Names \ Memberships
      <3>1. name \in tcpOptget \/ name \in udpOptget
        BY DEF Gettable
      <3> QED
        BY <3>1 DEF Names, tcpOptget, udpOptget, tcpOptset, udpOptset, Memberships
    <2>2. \A i \in 1 .. n : i \in by(name) <=> sets[i].ok /\ Alike(name, sets[i].name)
      BY <1>1 DEF Alike
    <2>3. by(name) \in SUBSET (0 .. n)
      BY <1>1
    <2>4. \E i \in by(name) : \A j \in by(name) : j <= i
      BY <1>1, <1>2, <2>3, GreatestNat
    <2> DEFINE i == CHOOSE i \in by(name) : \A j \in by(name) : j <= i
    <2>5. i \in by(name) /\ \A j \in by(name) : j <= i
      <3> DEFINE found == by(name)
      <3>1. \E k \in found : \A j \in found : j <= k
        BY <2>4, Zenon
      <3>2. i = CHOOSE k \in found : \A j \in found : j <= k
        OBVIOUS
      <3> HIDE DEF found, i
      <3>3. i \in found /\ \A j \in found : j <= i
        BY <3>1, <3>2, ZenonT(60)
      <3> QED
        BY <3>3, Zenon DEF found
    <2>6. i \in 1 .. n
      BY <1>1, <2>5
    <2> HIDE DEF i
    <2>7. LastCall(name, i)
      BY <2>2, <2>5, <2>6 DEF LastCall
    <2>8. options.kernel[SystemOption(name)] = sets[i].value
      BY <2>1, <2>6, <2>7 DEF OptionsInv
    <2> QED
      BY <2>8 DEF i, opt_meth_getoption
  <1>3. \A i \in DOMAIN sets : sets[i].ok => sets[i].name \in Settable(options.class)
    BY <1>1 DEF OptionsInv
  <1> QED
    BY <1>2, <1>3 DEF OptionsReadBack

\* Whatever is set and refused, in any order and with any arguments: each
\* option reads as it was last set by its name, and none of another class of
\* object is ever set.
THEOREM OptionsKeepTheirValues == OptionsSpec => []OptionsReadBack
  <1>1. OptionsInit => OptionsInv
    BY OptionsInvInit
  <1>2. OptionsInv /\ [OptionsNext]_options => OptionsInv'
    BY OptionsInvStep
  <1>3. OptionsInv => OptionsReadBack
    BY OptionsRead
  <1> QED
    BY <1>1, <1>2, <1>3, PTL DEF OptionsSpec
=============================================================================
