----------------------------- MODULE SocketObjects -----------------------------
(* The socket objects of LuaSocket and the descriptors behind them: tcp.c,    *)
(* udp.c, unixstream.c, unixdgram.c, the address loops of inet.c and the      *)
(* system calls of usocket.c. A call on an object is one step, but connect    *)
(* and bind take a step for each address of the host, between which           *)
(* connections under way come about or are refused.                           *)
EXTENDS Integers, Sequences, FiniteSets

CONSTANTS
  Objs,       \* objects a program may hold
  Fds,        \* descriptors, numbers
  Hosts,      \* for each host name, the families of its addresses, in order
  MaxSockCalls

INVALID == -1

\* A host that resolves has at least one address.
ASSUME SocketObjectsAssumption ==
  /\ Fds \subseteq Nat
  /\ "none" \notin Objs
  /\ \A host \in DOMAIN Hosts : Hosts[host] \in Seq({"inet", "inet6"}) /\ Hosts[host] # <<>>

Kinds == {"tcp", "udp", "unixstream", "unixdgram"}
Streams == {"tcp", "unixstream"}
Inet == {"tcp", "udp"}

VARIABLES
  obj,      \* for each object NoObj or [kind, class, family, fd, zero]
  file,     \* for each descriptor NoFile or [family, type, state, nonblock]
  act,      \* the bind or connect in progress
  last,     \* what the last call returned: [name, o, err]
  socketCalls

objectVars == <<obj, file, act, last, socketCalls>>

NoObj == [kind |-> "none", class |-> "none", family |-> "none", fd |-> INVALID, zero |-> FALSE]
NoFile == [family |-> "none", type |-> "none", state |-> "closed", nonblock |-> FALSE]
NoAct == [name |-> "none", o |-> "none", todo |-> <<>>, current |-> "none"]
Live(o) == obj[o] # NoObj
Free == {d \in Fds : file[d] = NoFile}
Result(name, o, err) == last' = [name |-> name, o |-> o, err |-> err]
Type(o) == IF obj[o].kind \in Streams THEN "stream" ELSE "dgram"

-----------------------------------------------------------------------------
(* The system *)

\* socket() takes the lowest free descriptor, or fails.
socket_create(files, family, type) ==
  LET free == {d \in Fds : files[d] = NoFile} IN
  {[fd |-> INVALID, file |-> files]} \cup
  {[fd |-> d, file |-> [files EXCEPT ![d] = [family |-> family, type |-> type, state |-> "fresh",
                                             nonblock |-> FALSE]]] :
     d \in {d \in free : \A e \in free : d <= e}}
\* Fault: the descriptor is only forgotten.
Forget(files, fd) == files
socket_destroy(files, fd) == IF fd = INVALID THEN files ELSE [files EXCEPT ![fd] = NoFile]
socket_setnonblocking(files, fd) == IF fd = INVALID THEN files ELSE [files EXCEPT ![fd].nonblock = TRUE]

\* bind leaves the socket non-blocking whether it succeeds or not.
socket_bind(files, fd) ==
  IF fd = INVALID THEN {[err |-> "system", file |-> files]}
  ELSE {[err |-> "system", file |-> socket_setnonblocking(files, fd)]} \cup
       IF files[fd].state # "fresh" THEN {}
       ELSE {[err |-> "", file |-> [socket_setnonblocking(files, fd) EXCEPT ![fd].state = "bound"]]}

\* A connection that takes time is waited for until the limit; one already
\* under way or made is an error.
socket_connect(files, fd, zero) ==
  LET to(state, err) == [err |-> err, file |-> [files EXCEPT ![fd].state = state]] IN
  IF fd = INVALID THEN {[err |-> "closed", file |-> files]}
  ELSE CASE files[fd].type = "dgram"                -> {to("connected", ""), to(files[fd].state, "refused")}
         [] files[fd].type = "stream" /\ files[fd].state \in {"fresh", "bound"} ->
              {to("connected", ""), to(files[fd].state, "refused"), to("connecting", "timeout")}
         [] OTHER                                   -> {to(files[fd].state, "system")}

-----------------------------------------------------------------------------
(* Creating objects *)

Begins == /\ act = NoAct /\ socketCalls < MaxSockCalls
          /\ socketCalls' = socketCalls + 1

\* With no family given, the socket is made on first use.
tcp_create(o, kind, family) ==
  /\ Begins /\ ~Live(o) /\ kind \in Inet
  /\ LET new(fd) == [kind |-> kind, class |-> IF kind = "tcp" THEN "master" ELSE "unconnected",
                     family |-> family, fd |-> fd, zero |-> FALSE]
     IN  IF family = "unspec" THEN /\ obj' = [obj EXCEPT ![o] = new(INVALID)]
                                   /\ Result("create", o, "")
                                   /\ UNCHANGED file
         ELSE \E c \in socket_create(file, family, IF kind = "tcp" THEN "stream" ELSE "dgram") :
                /\ file' = socket_setnonblocking(c.file, c.fd)
                /\ obj' = IF c.fd = INVALID THEN obj ELSE [obj EXCEPT ![o] = new(c.fd)]
                /\ Result("create", o, IF c.fd = INVALID THEN "system" ELSE "")
  /\ UNCHANGED act

unix_create(o, kind) ==
  /\ Begins /\ ~Live(o) /\ kind \notin Inet
  /\ \E c \in socket_create(file, "unix", IF kind = "unixstream" THEN "stream" ELSE "dgram") :
       /\ file' = socket_setnonblocking(c.file, c.fd)
       /\ obj' = IF c.fd = INVALID THEN obj
                 ELSE [obj EXCEPT ![o] = [kind |-> kind, family |-> "unix", fd |-> c.fd, zero |-> FALSE,
                                          class |-> IF kind = "unixstream" THEN "master" ELSE "unconnected"]]
       /\ Result("create", o, IF c.fd = INVALID THEN "system" ELSE "")
  /\ UNCHANGED act

settimeout(o, zero) ==
  /\ Begins /\ Live(o)
  /\ obj' = [obj EXCEPT ![o].zero = zero]
  /\ Result("settimeout", o, "")
  /\ UNCHANGED <<file, act>>

-----------------------------------------------------------------------------
(* bind and connect, address by address (inet_trybind, inet_tryconnect) *)

\* The addresses of a host, those of one family if the object has one.
Resolved(host, family) ==
  LET addresses == Hosts[host] IN
  IF family = "unspec" THEN addresses
  ELSE [i \in 1 .. Cardinality({j \in DOMAIN addresses : addresses[j] = family}) |-> family]

\* A TCP object is a client whatever came of the attempt; a datagram object is
\* connected when it succeeded; connect() of the library keeps no failed object.
Finished(name, o, fd, family, files, err) ==
  LET class == CASE name = "connect" /\ obj[o].kind = "tcp"             -> "client"
                 [] name = "connect" /\ obj[o].kind = "udp" /\ err = "" -> "connected"
                 [] name = "global_connect" /\ err = ""                 -> "client"
                 [] OTHER                                              -> obj[o].class
      drop == name = "global_connect" /\ err # ""
  IN  /\ obj' = IF drop THEN [obj EXCEPT ![o] = NoObj]
                ELSE [obj EXCEPT ![o].fd = fd, ![o].family = family, ![o].class = class]
      /\ file' = IF drop THEN socket_destroy(files, fd) ELSE files
      /\ act' = NoAct
      /\ Result(name, o, err)

Resolves(name, o, host) ==
  LET addresses == Resolved(host, obj[o].family) IN
  IF addresses = <<>> THEN Finished(name, o, obj[o].fd, obj[o].family, file, "host")
  ELSE /\ act' = [name |-> name, o |-> o, todo |-> addresses, current |-> obj[o].family]
       /\ UNCHANGED <<obj, file, last>>
meth_connect(o, host) ==
  /\ Begins /\ obj[o].kind \in Inet
  /\ Resolves("connect", o, host)
meth_bind(o, host) ==
  /\ Begins /\ obj[o].kind \in Inet /\ obj[o].class \in {"master", "unconnected"}
  /\ Resolves("bind", o, host)
\* The socket of the object is made, and its family set, by the first address.
global_connect(o, host) ==
  /\ Begins /\ ~Live(o)
  /\ obj' = [obj EXCEPT ![o] = [kind |-> "tcp", class |-> "none", family |-> "unspec", fd |-> INVALID, zero |-> FALSE]]
  /\ act' = [name |-> "global_connect", o |-> o, todo |-> Resolved(host, "unspec"), current |-> "unspec"]
  /\ UNCHANGED <<file, last>>

\* The socket for the next address: the one there is when the family is the same.
SocketFor(o, family) ==
  IF act.current = family /\ obj[o].fd # INVALID THEN {[fd |-> obj[o].fd, file |-> file]}
  ELSE {[c EXCEPT !.file = socket_setnonblocking(@, c.fd)] :
          c \in socket_create(socket_destroy(file, obj[o].fd), family, Type(o))}
TryAddress ==
  /\ act # NoAct
  /\ LET o == act.o
         family == Head(act.todo)
         left == Tail(act.todo)
         \* a failed attempt goes on to the next address, if there is one
         fails(fd, current, files, err) ==
           IF left = <<>> THEN Finished(act.name, o, fd, obj[o].family, files, err)
           ELSE /\ act' = [act EXCEPT !.todo = left, !.current = current]
                /\ obj' = [obj EXCEPT ![o].fd = fd]
                /\ file' = files
                /\ UNCHANGED last
     IN  \E c \in SocketFor(o, family) :
           IF c.fd = INVALID THEN fails(INVALID, act.current, c.file, "system")
           ELSE \E r \in IF act.name = "bind" THEN socket_bind(c.file, c.fd)
                         ELSE socket_connect(c.file, c.fd, obj[o].zero) :
                  IF r.err = "" \/ (act.name # "bind" /\ obj[o].zero)
                  THEN Finished(act.name, o, c.fd, family, r.file, r.err)
                  ELSE fails(c.fd, family, r.file, r.err)
  /\ UNCHANGED socketCalls

\* A local socket that cannot be bound or connected is closed.
unix_trybind(o) ==
  /\ Begins /\ obj[o].family = "unix" /\ obj[o].class \in {"master", "unconnected"}
  /\ \E r \in socket_bind(file, obj[o].fd) :
       /\ file' = IF r.err = "" THEN r.file ELSE socket_destroy(r.file, obj[o].fd)
       /\ obj' = IF r.err = "" THEN obj ELSE [obj EXCEPT ![o].fd = INVALID]
       /\ Result("bind", o, r.err)
  /\ UNCHANGED act
unix_tryconnect(o) ==
  /\ Begins /\ obj[o].family = "unix" /\ (obj[o].kind = "unixdgram" \/ obj[o].class = "master")
  /\ \E r \in socket_connect(file, obj[o].fd, obj[o].zero) :
       /\ file' = IF r.err = "" THEN r.file ELSE socket_destroy(r.file, obj[o].fd)
       /\ obj' = [obj EXCEPT ![o].fd = IF r.err = "" THEN @ ELSE INVALID,
                             ![o].class = IF r.err # "" THEN @
                                          ELSE IF obj[o].kind = "unixstream" THEN "client" ELSE "connected"]
       /\ Result("connect", o, r.err)
  /\ UNCHANGED act

-----------------------------------------------------------------------------
(* Other calls *)

\* Fault: what listen() returns is not looked at.
ListenUnchecked(o) == /\ Begins /\ obj[o].class = "master"
                      /\ obj' = [obj EXCEPT ![o].class = "server"]
                      /\ Result("listen", o, "")
                      /\ UNCHANGED <<file, act>>
meth_listen(o) ==
  /\ Begins /\ obj[o].class = "master"
  /\ \/ /\ obj[o].fd # INVALID /\ file[obj[o].fd].state \in {"fresh", "bound", "listening"}
        /\ file' = [file EXCEPT ![obj[o].fd].state = "listening"]
        /\ obj' = [obj EXCEPT ![o].class = "server"]
        /\ Result("listen", o, "")
     \/ Result("listen", o, "system") /\ UNCHANGED <<obj, file>>
  /\ UNCHANGED act

meth_accept(o, client) ==
  /\ Begins /\ obj[o].class = "server" /\ ~Live(client)
  /\ \E c \in IF obj[o].fd = INVALID THEN {[fd |-> INVALID, file |-> file]}
              ELSE socket_create(file, file[obj[o].fd].family, "stream") :
       IF c.fd = INVALID THEN Result("accept", client, "timeout") /\ UNCHANGED <<obj, file>>
       ELSE /\ file' = socket_setnonblocking([c.file EXCEPT ![c.fd].state = "connected"], c.fd)
            /\ obj' = [obj EXCEPT ![client] = [kind |-> obj[o].kind, class |-> "client", family |-> obj[o].family,
                                               fd |-> c.fd, zero |-> FALSE]]
            /\ Result("accept", client, "")
  /\ UNCHANGED act

\* close, and the collection of an object nobody holds any more.
meth_close(o) ==
  /\ Begins /\ Live(o)
  /\ file' = socket_destroy(file, obj[o].fd)
  /\ obj' \in {[obj EXCEPT ![o].fd = INVALID], [obj EXCEPT ![o] = NoObj]}
  /\ Result("close", o, "")
  /\ UNCHANGED act

\* The first datagram of an object without family gives it one.
meth_sendto(o, host) ==
  /\ Begins /\ obj[o].class = "unconnected"
  /\ LET families == IF obj[o].kind = "udp" THEN Resolved(host, obj[o].family) ELSE <<"unix">>
         first == obj[o].family = "unspec" /\ obj[o].fd = INVALID
     IN  IF families = <<>> THEN Result("sendto", o, "host") /\ UNCHANGED <<obj, file>>
         ELSE \E c \in IF ~first THEN {[fd |-> obj[o].fd, file |-> file, family |-> obj[o].family]}
                       ELSE UNION {{[fd |-> c.fd, file |-> socket_setnonblocking(c.file, c.fd),
                                     family |-> IF c.fd = INVALID THEN "unspec" ELSE families[i]] :
                                      c \in socket_create(file, families[i], "dgram")} : i \in DOMAIN families} :
                /\ file' = c.file
                /\ obj' = [obj EXCEPT ![o].fd = c.fd, ![o].family = c.family]
                /\ \E err \in IF c.fd = INVALID THEN {"closed"} ELSE {"", "refused", "timeout"} :
                     Result("sendto", o, err)
  /\ UNCHANGED act

\* setpeername("*") undoes the connection, if there is a socket to undo it of.
meth_setpeername(o) ==
  /\ Begins /\ obj[o].kind = "udp"
  /\ obj' = [obj EXCEPT ![o].class = "unconnected"]
  /\ file' = IF obj[o].fd = INVALID \/ obj[o].family = "unspec" THEN file
             ELSE [file EXCEPT ![obj[o].fd].state = "bound"]
  /\ Result("setpeername", o, "")
  /\ UNCHANGED act

\* A datagram object whose socket is closed receives an empty datagram.
meth_receive(o) ==
  /\ Begins /\ obj[o].kind \notin Streams /\ Live(o)
  /\ \E err \in IF obj[o].fd = INVALID THEN {""} ELSE {"", "timeout"} : Result("receive", o, err)
  /\ UNCHANGED <<obj, file, act>>

\* A connection under way is made, or refused.
Completes == \E d \in Fds :
  /\ file[d].state = "connecting"
  /\ \E state \in {"connected", "fresh"} : file' = [file EXCEPT ![d].state = state]
  /\ UNCHANGED <<obj, act, last, socketCalls>>

-----------------------------------------------------------------------------
ObjectsInit == /\ obj = [o \in Objs |-> NoObj] /\ file = [d \in Fds |-> NoFile]
               /\ act = NoAct /\ last = [name |-> "none", o |-> "none", err |-> ""] /\ socketCalls = 0

ObjectsNext ==
  \/ \E o \in Objs :
       \/ \E kind \in Inet, family \in {"unspec", "inet", "inet6"} : tcp_create(o, kind, family)
       \/ \E kind \in Kinds : unix_create(o, kind)
       \/ \E zero \in BOOLEAN : settimeout(o, zero)
       \/ \E host \in DOMAIN Hosts : \/ meth_connect(o, host)
                                     \/ meth_bind(o, host)
                                     \/ global_connect(o, host)
                                     \/ meth_sendto(o, host)
       \/ unix_trybind(o)
       \/ unix_tryconnect(o)
       \/ meth_listen(o)
       \/ \E client \in Objs : meth_accept(o, client)
       \/ meth_close(o)
       \/ meth_setpeername(o)
       \/ meth_receive(o)
  \/ TryAddress
  \/ Completes

ObjectsSpec == ObjectsInit /\ [][ObjectsNext]_objectVars

-----------------------------------------------------------------------------
(* Properties *)

\* Every open descriptor is that of exactly one object, whatever failed on the
\* way and however often a socket was replaced for an address of another
\* family; it has the family its object says, or the object says none; and it
\* never blocks a call, which would void the limits on time (inet.c, tcp.c,
\* udp.c, unixstream.c, unixdgram.c).
SocketsAreOwned ==
  /\ \A d \in Fds : file[d] # NoFile => Cardinality({o \in Objs : obj[o].fd = d}) = 1
  /\ \A o \in Objs : LET d == obj[o].fd IN
       d # INVALID => /\ file[d] # NoFile
                      /\ act.o # o => obj[o].family \in {"unspec", file[d].family}
                      /\ file[d].nonblock

\* A call that returns success has left the socket in the state it is for.
ResultsAreTrue ==
  (last.name # "none" /\ last.err = "" /\ act = NoAct /\ Live(last.o)) =>
    LET o == last.o d == obj[o].fd IN
    CASE last.name \in {"connect", "global_connect", "accept"} ->
           d # INVALID /\ file[d].state = "connected" /\ obj[o].class \in {"client", "connected"}
      [] last.name = "bind"   -> d # INVALID /\ file[d].state = "bound"
      [] last.name = "listen" -> d # INVALID /\ file[d].state = "listening" /\ obj[o].class = "server"
      [] last.name = "sendto" -> d # INVALID
      [] OTHER                -> TRUE
=============================================================================
