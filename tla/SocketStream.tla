------------------------------ MODULE SocketStream ------------------------------
(* Buffered input and output on the connected stream sockets of LuaSocket:    *)
(* buffer.c over the system calls of usocket.c, the limits of timeout.c and   *)
(* socket.select (select.c). The Lua program makes one call at a time; each   *)
(* system call of it is a step, between which the peers act and time passes.  *)
EXTENDS Integers, Sequences, SequencesExt, FiniteSets

CONSTANTS
  Socks,        \* connected sockets
  Stream,       \* for each, what its peer sends
  Message,      \* for each, what the program sends
  Patterns,     \* what receive is asked for: a length, Line or All
  Timeouts,     \* limits the program sets, -1 for none
  BUF_SIZE, STEPSIZE,
  SendRoom,     \* bytes the system takes before the peer reads
  MaxTime, MaxCalls

ASSUME StreamAssumption ==
  /\ \A s \in Socks : Stream[s] \in Seq(Range(Stream[s])) /\ Message[s] \in Seq(Range(Message[s]))
  /\ Patterns \subseteq {-1, -2} \cup Nat
  /\ Timeouts \subseteq {-1} \cup Nat
  /\ BUF_SIZE \in Nat \ {0} /\ STEPSIZE \in Nat \ {0} /\ SendRoom \in Nat

\* The patterns "*l" and "*a", and no pattern.
Line == -1
All == -2
NoPattern == -3

CR == "cr"
LF == "lf"
None == -1

VARIABLES
  kern,     \* for each socket: [in, sent, eof, out, wire, open], see the peer below
  sock,     \* for each object: [buf, block, total, start]
  op,       \* the call in progress
  now,      \* gettimeofday
  done,     \* for each socket, the receives completed: [pat, res, upto]
  rest,     \* and the partial result the program passes to the next: [pat, b]
  given,    \* what send said is sent
  calls     \* the calls made

streamVars == <<kern, sock, op, now, done, rest, given, calls>>

Idle == [name |-> "idle", pc |-> "idle"]
Least(a, b) == IF a < b THEN a ELSE b
Most(a, b) == IF a > b THEN a ELSE b
Readable(s) == kern[s].in # <<>> \/ kern[s].eof
Writable(s) == Len(kern[s].out) < SendRoom \/ kern[s].eof

-----------------------------------------------------------------------------
(* timeout.c *)

\* The time left for a system call after one that failed.
\* Fault: the limit of the whole call starts again.
RetryWithAll(tm) == IF tm.total < 0 THEN tm.block ELSE tm.total
timeout_getretry(tm) ==
  LET total == Most(tm.total - now + tm.start, 0)
      block == Most(tm.block - now + tm.start, 0)
  IN  CASE tm.block < 0 /\ tm.total < 0   -> None
        [] tm.block < 0 /\ tm.total >= 0  -> total
        [] tm.block >= 0 /\ tm.total < 0  -> block
        [] tm.block >= 0 /\ tm.total >= 0 -> Least(tm.block, total)
timeout_iszero(tm) == tm.block = 0
timeout_markstart(s) == sock' = [sock EXCEPT ![s].start = now]

timeout_meth_settimeout(s, mode, t) ==
  /\ op = Idle
  /\ sock' = CASE mode = "b"        -> [sock EXCEPT ![s].block = t]
               [] mode \in {"r", "t"} -> [sock EXCEPT ![s].total = t]
  /\ UNCHANGED <<kern, op, now, done, rest, given>>

-----------------------------------------------------------------------------
(* Waiting *)

\* poll is called with the time left (socket_waitfd), select with its own.
Until(tm) == LET t == timeout_getretry(tm) IN IF t < 0 THEN None ELSE now + t
Waits(tm, pc) == op' = [op EXCEPT !.pc = pc, !.until = Until(tm)]
Expired == op.until >= 0 /\ now >= op.until
Fails(err) == op' = [op EXCEPT !.pc = "done", !.err = err]

socket_waitfd(s, ready, call) ==
  \/ ready /\ op' = [op EXCEPT !.pc = call]
  \/ ~ready /\ Expired /\ Fails("timeout")
  \/ ~ready /\ ~Expired /\ Waits(sock[s], op.pc)          \* EINTR
\* What follows EAGAIN.
TryAgain(s, pc) == IF timeout_iszero(sock[s]) THEN Fails("timeout") ELSE Waits(sock[s], pc)

-----------------------------------------------------------------------------
(* receive *)

Size(pat) == IF pat < 0 THEN 0 ELSE pat

\* A call that failed is made again with what it left as the prefix.
NoRest == [pat |-> NoPattern, b |-> <<>>]
ReceiveCall(s, pat) ==
  LET prefix == rest[s].b
      enough == Size(pat) # 0 /\ prefix # <<>> /\ Size(pat) <= Len(prefix)
  IN  [name |-> "receive", s |-> s, pat |-> pat, b |-> prefix, total |-> 0, err |-> "",
       until |-> None, since |-> now, pc |-> IF enough THEN "done" ELSE "get"]
buffer_meth_receive(s, pat) ==
  /\ op = Idle /\ rest[s].pat \in {NoPattern, pat}
  /\ op' = ReceiveCall(s, pat)
  /\ timeout_markstart(s)
  /\ UNCHANGED <<kern, now, done, rest, given>>

\* Of a line, carriage returns and the end do not go to the result.
Text(bytes) ==
  LET kept[i \in Nat] == IF i = 0 THEN <<>>
                         ELSE IF bytes[i] \in {CR, LF} THEN kept[i - 1] ELSE Append(kept[i - 1], bytes[i])
  IN  kept[Len(bytes)]

\* What a pattern takes from the buffer, and whether that is all it wants.
LineEnd(buf) == SelectInSeq(buf, LAMBDA c : c = LF)
recvraw(buf, wanted) == LET n == Least(Len(buf), wanted - op.total)
                        IN  [n |-> n, b |-> SubSeq(buf, 1, n), end |-> op.total + n >= wanted]
recvall(buf) == [n |-> Len(buf), b |-> buf, end |-> FALSE]
\* Fault: the line ends where the buffer does.
LineOfBuffer(buf) == LET n == IF LineEnd(buf) > 0 THEN LineEnd(buf) ELSE Len(buf)
                     IN  [n |-> n, b |-> Text(SubSeq(buf, 1, n)), end |-> TRUE]
recvline(buf) == LET n == IF LineEnd(buf) > 0 THEN LineEnd(buf) ELSE Len(buf)
                 IN  [n |-> n, b |-> Text(SubSeq(buf, 1, n)), end |-> LineEnd(buf) > 0]

\* The bytes of the buffer, when there are any, go to the result.
\* (op.total counts from the prefix on, as wanted does.)
buffer_get ==
  /\ op.name = "receive" /\ op.pc = "get"
  /\ LET s == op.s
         buf == sock[s].buf
         prefix == Len(rest[s].b)
         got == CASE op.pat = Line -> recvline(buf)
                  [] op.pat = All  -> recvall(buf)
                  [] OTHER         -> recvraw(buf, op.pat - prefix)
     IN  IF buf = <<>> THEN /\ op' = [op EXCEPT !.pc = "recv"]
                            /\ UNCHANGED sock
         ELSE /\ op' = [op EXCEPT !.b = @ \o got.b, !.total = @ + got.n,
                                  !.pc = IF got.end THEN "done" ELSE "get"]
              /\ sock' = [sock EXCEPT ![s].buf = SubSeq(buf, got.n + 1, Len(buf))]
  /\ UNCHANGED <<kern, now, done, rest, given>>

\* A closed connection ends "*a" well when something came.
socket_recv ==
  /\ op.name = "receive" /\ op.pc = "recv"
  /\ LET s == op.s n == Least(Len(kern[s].in), BUF_SIZE) IN
     \/ /\ kern[s].open /\ kern[s].in # <<>>
        /\ sock' = [sock EXCEPT ![s].buf = SubSeq(kern[s].in, 1, n)]
        /\ kern' = [kern EXCEPT ![s].in = SubSeq(@, n + 1, Len(@))]
        /\ op' = [op EXCEPT !.pc = "get"]
     \/ /\ ~kern[s].open \/ (kern[s].in = <<>> /\ kern[s].eof)
        /\ Fails(IF op.pat = All /\ op.total > 0 THEN "" ELSE "closed")
        /\ UNCHANGED <<kern, sock>>
     \/ /\ kern[s].open /\ kern[s].in = <<>> /\ ~kern[s].eof
        /\ TryAgain(s, "wait")
        /\ UNCHANGED <<kern, sock>>
  /\ UNCHANGED <<now, done, rest, given>>

WaitToRead ==
  /\ op.name = "receive" /\ op.pc = "wait"
  /\ socket_waitfd(op.s, Readable(op.s), "recv")
  /\ UNCHANGED <<kern, sock, now, done, rest, given>>

\* How far the stream has been read: what came, but for what still waits.
Upto(s) == kern[s].sent - Len(kern[s].in) - Len(sock[s].buf)
ReturnReceive ==
  /\ op.name = "receive" /\ op.pc = "done"
  /\ LET s == op.s IN
     /\ done' = IF op.err = "" THEN [done EXCEPT ![s] = Append(@, [pat |-> op.pat, res |-> op.b, upto |-> Upto(s)])] ELSE done
     /\ rest' = [rest EXCEPT ![s] = IF op.err = "" THEN NoRest ELSE [pat |-> op.pat, b |-> op.b]]
     /\ op' = Idle
     /\ UNCHANGED <<kern, sock, now, given>>

-----------------------------------------------------------------------------
(* send *)

\* The program sends the rest of its message, from the index send returned on.
buffer_meth_send(s) ==
  /\ op = Idle /\ given[s] < Len(Message[s])
  /\ op' = [name |-> "send", s |-> s, start |-> given[s] + 1, total |-> 0, err |-> "", until |-> None,
            since |-> now, pc |-> "send"]
  /\ timeout_markstart(s)
  /\ UNCHANGED <<kern, now, done, rest, given>>

\* What sendraw offers next: at most STEPSIZE bytes after those sent.
\* Fault: each step starts from the beginning of the data.
OfferFromStart(s) == SubSeq(Message[s], op.start, Least(Len(Message[s]), op.start + STEPSIZE - 1))
sendraw(s) == SubSeq(Message[s], op.start + op.total,
                     Least(Len(Message[s]), op.start + op.total + STEPSIZE - 1))

\* A peer that has closed may still take bytes before the error comes.
socket_send ==
  /\ op.name = "send" /\ op.pc = "send"
  /\ LET s == op.s offer == sendraw(s) room == SendRoom - Len(kern[s].out) IN
     \/ \E put \in 1 .. Least(Len(offer), room) :
          /\ kern[s].open
          /\ put < Len(offer) => put = room
          /\ kern' = [kern EXCEPT ![s].out = @ \o SubSeq(offer, 1, put)]
          /\ op' = [op EXCEPT !.total = @ + put,
                              !.pc = IF op.start + op.total + put > Len(Message[s]) THEN "done" ELSE "send"]
     \/ (~kern[s].open \/ kern[s].eof) /\ Fails("closed") /\ UNCHANGED kern
     \/ kern[s].open /\ room = 0 /\ ~kern[s].eof /\ TryAgain(s, "wait") /\ UNCHANGED kern
  /\ UNCHANGED <<sock, now, done, rest, given>>

WaitToWrite ==
  /\ op.name = "send" /\ op.pc = "wait"
  /\ socket_waitfd(op.s, Writable(op.s), "send")
  /\ UNCHANGED <<kern, sock, now, done, rest, given>>

\* The index of the last byte sent is returned, with an error or without.
ReturnSend ==
  /\ op.name = "send" /\ op.pc = "done"
  /\ given' = [given EXCEPT ![op.s] = op.total + op.start - 1]
  /\ op' = Idle
  /\ UNCHANGED <<kern, sock, now, done, rest>>

-----------------------------------------------------------------------------
(* select *)

Given(tab) == {s \in tab : kern[s].open}                  \* getfd # SOCKET_INVALID
\* Fault: what is buffered does not count.
NoneDirty(rtab) == {}
check_dirty(rtab) == {s \in Given(rtab) : sock[s].buf # <<>>}

global_select(rtab, wtab, t) ==
  /\ op = Idle
  /\ LET dirty == check_dirty(rtab) IN
     op' = [name |-> "select", rset |-> Given(rtab) \ dirty, wset |-> Given(wtab), dirty |-> dirty, rtab |-> rtab,
            block |-> IF dirty # {} THEN 0 ELSE t, total |-> None, start |-> now, err |-> "",
            until |-> None, since |-> now, pc |-> "select"]
  /\ UNCHANGED <<kern, sock, now, done, rest, given>>

\* The system's select, called with the time left; it waits in pc "wait".
socket_select ==
  /\ op.name = "select" /\ op.pc \in {"select", "wait"}
  /\ LET r == {s \in op.rset : Readable(s)}
         w == {s \in op.wset : Writable(s)}
         out == (op.pc = "select" /\ timeout_getretry(op) = 0) \/ Expired
     IN  \/ r \cup w # {} /\ op' = [op EXCEPT !.pc = "done", !.rset = r, !.wset = w]
         \/ /\ r \cup w = {} /\ out
            /\ op' = [op EXCEPT !.pc = "done", !.rset = {}, !.wset = {},
                                !.err = IF op.dirty = {} THEN "timeout" ELSE ""]
         \/ r \cup w = {} /\ ~out /\ Waits(op, "wait")
  /\ UNCHANGED <<kern, sock, now, done, rest, given>>

ReturnSelect ==
  /\ op.name = "select" /\ op.pc = "done"
  /\ op' = Idle
  /\ UNCHANGED <<kern, sock, now, done, rest, given>>

\* close shuts the system's socket; the buffer keeps what it holds.
CloseStream(s) ==
  /\ op = Idle
  /\ kern' = [kern EXCEPT ![s].open = FALSE]
  /\ UNCHANGED <<sock, op, now, done, rest, given>>

-----------------------------------------------------------------------------
(* The peers, and time *)

PeerSends(s) == /\ ~kern[s].eof /\ kern[s].sent < Len(Stream[s])
                /\ kern' = [kern EXCEPT ![s].sent = @ + 1, ![s].in = Append(@, Stream[s][kern[s].sent + 1])]
PeerReads(s) == /\ kern[s].out # <<>>
                /\ kern' = [kern EXCEPT ![s].out = <<>>, ![s].wire = @ \o kern[s].out]
PeerCloses(s) == /\ ~kern[s].eof
                 /\ kern' = [kern EXCEPT ![s].eof = TRUE]
Peer == \E s \in Socks : /\ PeerSends(s) \/ PeerReads(s) \/ PeerCloses(s)
                         /\ UNCHANGED <<sock, op, now, done, rest, given, calls>>

\* A wait that is over does not last.
Tick == /\ now < MaxTime
        /\ ~(op.pc = "wait" /\ Expired)
        /\ now' = now + 1
        /\ UNCHANGED <<kern, sock, op, done, rest, given, calls>>

-----------------------------------------------------------------------------
StreamInit ==
  /\ kern = [s \in Socks |-> [in |-> <<>>, sent |-> 0, eof |-> FALSE, out |-> <<>>, wire |-> <<>>, open |-> TRUE]]
  /\ sock = [s \in Socks |-> [buf |-> <<>>, block |-> None, total |-> None, start |-> 0]]
  /\ op = Idle /\ now = 0 /\ calls = 0
  /\ done = [s \in Socks |-> <<>>] /\ rest = [s \in Socks |-> NoRest] /\ given = [s \in Socks |-> 0]

Call == /\ calls < MaxCalls
        /\ calls' = calls + 1
        /\ \E s \in Socks :
             \/ \E pat \in Patterns : buffer_meth_receive(s, pat)
             \/ buffer_meth_send(s)
             \/ CloseStream(s)
             \/ \E mode \in {"b", "t"}, t \in Timeouts : timeout_meth_settimeout(s, mode, t)
             \/ \E wtab \in {{}, {s}}, t \in Timeouts : global_select(Socks, wtab, t)
Proceed == /\ \/ buffer_get \/ socket_recv \/ WaitToRead \/ ReturnReceive
              \/ socket_send \/ WaitToWrite \/ ReturnSend
              \/ socket_select \/ ReturnSelect
           /\ UNCHANGED calls
StreamNext == Call \/ Proceed \/ Peer \/ Tick

StreamSpec == StreamInit /\ [][StreamNext]_streamVars

-----------------------------------------------------------------------------
(* Properties *)

\* What a receive should return of the stream that is left: the bytes up to
\* the length, up to the line's end, or all.
PartOf(stream, pat) == CASE pat = Line -> [n |-> LineEnd(stream), res |-> Text(SubSeq(stream, 1, LineEnd(stream)))]
                         [] pat = All  -> [n |-> Len(stream), res |-> stream]
                         [] OTHER      -> [n |-> pat, res |-> SubSeq(stream, 1, pat)]

\* Whatever pieces the bytes arrive in, and however often a receive times out
\* and is called again with its partial result, the receives that succeed
\* return the stream cut by their patterns, each from where the one before
\* ended: nothing lost, repeated or torn (buffer.c recvraw, recvline, recvall);
\* a socket the program has closed has only what its buffer held.
ReceivesCutTheStream ==
  \A s \in Socks : \A i \in DOMAIN done[s] :
    LET from == IF i = 1 THEN 0 ELSE done[s][i - 1].upto
        part == PartOf(SubSeq(Stream[s], from + 1, kern[s].sent), done[s][i].pat)
    IN  kern[s].open => done[s][i].res = part.res /\ done[s][i].upto = from + part.n

\* A program that goes on after the index send returned has the system take
\* every byte of its message once, in order (buffer.c sendraw, meth_send).
SendsEachByteOnce ==
  \A s \in Socks :
    LET taken == kern[s].wire \o kern[s].out
    IN  /\ IsPrefix(taken, Message[s])
        /\ Len(taken) = IF op.name = "send" /\ op.s = s THEN op.start + op.total - 1 ELSE given[s]

\* No call waits past its limit, which for the total one counts from the start
\* of the call however many system calls it makes; and none times out before
\* (timeout.c, usocket.c).
LimitsHold ==
  (op.name \in {"receive", "send"}) =>
    LET tm == sock[op.s]
        passed == now - op.since
        endsBy(limit) == op.until >= 0 /\ (op.until - op.since <= limit \/ op.until <= now)
    IN  /\ op.pc = "wait" => /\ tm.total >= 0 => endsBy(tm.total)
                             /\ tm.total < 0 /\ tm.block >= 0 => endsBy(tm.block)
        /\ op.err = "timeout" => \/ tm.block >= 0 /\ passed >= tm.block
                                 \/ tm.total >= 0 /\ passed >= tm.total

\* select never waits while one of its sockets holds bytes in its buffer, and
\* returns the sockets a receive on which would return something (select.c).
SelectKnowsTheBuffers ==
  op.name = "select" =>
    LET full == {s \in op.rtab : kern[s].open /\ sock[s].buf # <<>>} IN
    /\ op.pc = "wait" => full = {}
    /\ op.pc = "done" => /\ full \subseteq op.dirty
                         /\ \A s \in op.dirty \cup op.rset : sock[s].buf # <<>> \/ Readable(s)
=============================================================================
