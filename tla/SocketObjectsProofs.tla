-------------------------- MODULE SocketObjectsProofs --------------------------
(* Proofs about SocketObjects for any objects, descriptors and hosts.         *)
EXTENDS SocketObjects, FiniteSetTheorems, TLAPS

-----------------------------------------------------------------------------
(* Objects and the descriptors they own *)

Families == {"none", "unspec", "inet", "inet6", "unix"}
Classes == {"none", "master", "server", "client", "unconnected", "connected"}
States == {"closed", "fresh", "bound", "listening", "connecting", "connected"}
ObjType == [kind : Kinds \cup {"none"}, class : Classes, family : Families, fd : Fds \cup {INVALID}, zero : BOOLEAN]
FileType == [family : Families, type : {"none", "stream", "dgram"}, state : States, nonblock : BOOLEAN]

LEMMA NothingTyped == NoObj \in ObjType /\ NoFile \in FileType
  <1>1. NoObj \in ObjType
    BY DEF NoObj, ObjType, Families, Classes
  <1>2. NoFile \in FileType
    BY DEF NoFile, FileType, Families, States
  <1> QED
    BY <1>1, <1>2

\* Objects os and files fs belong together: an open descriptor is non-blocking
\* and is that of an object; no two objects have the same one.
Own(os, fs) ==
  /\ \A d \in Fds : fs[d] # NoFile => \E o \in Objs : os[o].fd = d
  /\ \A o \in Objs : os[o].fd # INVALID => fs[os[o].fd].nonblock
  /\ \A o, p \in Objs : os[o].fd = os[p].fd /\ os[o].fd # INVALID => o = p

Typed(os, fs) == os \in [Objs -> ObjType] /\ fs \in [Fds -> FileType]

\* One descriptor changes its state: it keeps its family and stays non-blocking.
Changes(fs, gs, fd) ==
  /\ gs \in [Fds -> FileType]
  /\ \A e \in Fds : e # fd => gs[e] = fs[e]
  /\ fd # INVALID => gs[fd].family = fs[fd].family /\ (fs[fd].nonblock => gs[fd].nonblock)

\* The descriptors of objects have the families they had.
SameFamilies(os, fs, gs) == \A p \in Objs : os[p].fd # INVALID => gs[os[p].fd].family = fs[os[p].fd].family

LEMMA OwnChanges ==
  ASSUME NEW os, NEW fs, NEW gs, NEW o \in Objs, Typed(os, fs), Own(os, fs), Changes(fs, gs, os[o].fd)
  PROVE  Own(os, gs) /\ SameFamilies(os, fs, gs)
  <1>1. \A p \in Objs : os[p].fd # INVALID => os[p].fd \in Fds
    BY DEF Typed, ObjType
  <1>2. \A d \in Fds : gs[d] # NoFile => \E p \in Objs : os[p].fd = d
    BY DEF Own, Changes
  <1>3. \A p \in Objs : os[p].fd # INVALID => gs[os[p].fd].nonblock
    BY <1>1 DEF Own, Changes
  <1>4. SameFamilies(os, fs, gs)
    BY <1>1 DEF Own, Changes, SameFamilies
  <1> QED
    BY <1>2, <1>3, <1>4 DEF Own

\* Objects may change all but their descriptors.
LEMMA OwnSame ==
  ASSUME NEW os, NEW fs, NEW us, Own(os, fs), \A o \in Objs : us[o].fd = os[o].fd
  PROVE  Own(us, fs)
  BY DEF Own

\* socket_destroy takes the descriptor of o from it.
LEMMA OwnDrop ==
  ASSUME NEW os, NEW fs, NEW us, NEW o \in Objs, Typed(os, fs), Own(os, fs),
         us[o].fd = INVALID, \A p \in Objs : p # o => us[p].fd = os[p].fd
  PROVE  Own(us, socket_destroy(fs, os[o].fd))
  <1> DEFINE gs == socket_destroy(fs, os[o].fd)
  <1>1. CASE os[o].fd = INVALID
    BY <1>1 DEF Own, socket_destroy
  <1>2. CASE os[o].fd # INVALID
    <2>1. os[o].fd \in Fds
      BY <1>2 DEF Typed, ObjType
    <2>2. gs = [fs EXCEPT ![os[o].fd] = NoFile]
      BY <1>2 DEF socket_destroy
    <2>3. \A p \in Objs : us[p].fd # INVALID => p # o /\ us[p].fd \in Fds /\ us[p].fd # os[o].fd
      BY <1>2 DEF Own, Typed, ObjType
    <2>4. \A d \in Fds : gs[d] # NoFile => \E p \in Objs : us[p].fd = d
      <3> SUFFICES ASSUME NEW d \in Fds, gs[d] # NoFile PROVE \E p \in Objs : us[p].fd = d
        OBVIOUS
      <3>1. d # os[o].fd /\ fs[d] # NoFile
        BY <2>1, <2>2 DEF Typed
      <3>2. PICK p \in Objs : os[p].fd = d
        BY <3>1 DEF Own
      <3> QED
        BY <3>1, <3>2
    <2>5. \A p \in Objs : us[p].fd # INVALID => gs[us[p].fd].nonblock
      BY <2>1, <2>2, <2>3 DEF Own, Typed
    <2>6. \A p, q \in Objs : us[p].fd = us[q].fd /\ us[p].fd # INVALID => p = q
      BY <2>3 DEF Own
    <2> QED
      BY <2>4, <2>5, <2>6 DEF Own
  <1> QED
    BY <1>1, <1>2

\* A new descriptor goes to an object that has none.
LEMMA OwnMake ==
  ASSUME NEW os, NEW fs, NEW us, NEW gs, NEW o \in Objs, NEW d \in Fds, Typed(os, fs), Own(os, fs),
         os[o].fd = INVALID, fs[d] = NoFile, us[o].fd = d, \A p \in Objs : p # o => us[p].fd = os[p].fd,
         \A e \in Fds : e # d => gs[e] = fs[e], gs[d].nonblock
  PROVE  Own(us, gs)
  <1>1. d # INVALID /\ \A p \in Objs : os[p].fd # d
    BY SocketObjectsAssumption DEF Own, INVALID, NoFile
  <1>2. \A e \in Fds : gs[e] # NoFile => \E p \in Objs : us[p].fd = e
    <2> SUFFICES ASSUME NEW e \in Fds, gs[e] # NoFile, e # d PROVE \E p \in Objs : us[p].fd = e
      OBVIOUS
    <2>1. PICK p \in Objs : os[p].fd = e
      BY DEF Own
    <2>2. p # o
      BY <2>1, SocketObjectsAssumption DEF INVALID
    <2> QED
      BY <2>1, <2>2
  <1>3. \A p \in Objs : us[p].fd # INVALID => gs[us[p].fd].nonblock
    <2> SUFFICES ASSUME NEW p \in Objs, us[p].fd # INVALID, p # o PROVE gs[us[p].fd].nonblock
      OBVIOUS
    <2>1. os[p].fd \in Fds /\ os[p].fd # d
      BY <1>1 DEF Typed, ObjType
    <2> QED
      BY <2>1 DEF Own
  <1>4. \A p, q \in Objs : us[p].fd = us[q].fd /\ us[p].fd # INVALID => p = q
    BY <1>1 DEF Own
  <1> QED
    BY <1>2, <1>3, <1>4 DEF Own

\* What socket() yields.
LEMMA CreateYields ==
  ASSUME NEW fs \in [Fds -> FileType], NEW family \in Families, NEW type \in {"stream", "dgram"},
         NEW c \in socket_create(fs, family, type)
  PROVE  /\ c = [fd |-> c.fd, file |-> c.file]
         /\ \/ c.fd = INVALID /\ c.file = fs
            \/ /\ c.fd \in Fds /\ fs[c.fd] = NoFile
               /\ c.file \in [Fds -> FileType]
               /\ \A e \in Fds : e # c.fd => c.file[e] = fs[e]
               /\ c.file[c.fd].family = family
  <1> DEFINE Goal == /\ c = [fd |-> c.fd, file |-> c.file]
                     /\ \/ c.fd = INVALID /\ c.file = fs
                        \/ /\ c.fd \in Fds /\ fs[c.fd] = NoFile
                           /\ c.file \in [Fds -> FileType]
                           /\ \A e \in Fds : e # c.fd => c.file[e] = fs[e]
                           /\ c.file[c.fd].family = family
  <1>1. CASE c = [fd |-> INVALID, file |-> fs]
    BY <1>1
  <1>2. ASSUME NEW d \in Fds, fs[d] = NoFile,
               c = [fd |-> d, file |-> [fs EXCEPT ![d] = [family |-> family, type |-> type, state |-> "fresh",
                                                          nonblock |-> FALSE]]]
        PROVE  Goal
    <2> DEFINE r == [family |-> family, type |-> type, state |-> "fresh", nonblock |-> FALSE]
               gs == [fs EXCEPT ![d] = r]
    <2>1. r \in FileType /\ r.family = family
      BY DEF FileType, Families, States
    <2>2. c = [fd |-> d, file |-> gs]
      BY <1>2
    <2> HIDE DEF r
    <2>3. gs \in [Fds -> FileType] /\ (\A e \in Fds : e # d => gs[e] = fs[e]) /\ gs[d] = r
      BY <2>1
    <2> HIDE DEF gs
    <2>4. c.fd = d /\ c.file = gs
      BY <2>2
    <2> QED
      BY <1>2, <2>1, <2>2, <2>3, <2>4
  <1>3. \/ c = [fd |-> INVALID, file |-> fs]
        \/ \E d \in Fds : fs[d] = NoFile /\
             c = [fd |-> d, file |-> [fs EXCEPT ![d] = [family |-> family, type |-> type, state |-> "fresh",
                                                        nonblock |-> FALSE]]]
    BY DEF socket_create
  <1> HIDE DEF Goal
  <1>4. Goal
    BY <1>1, <1>2, <1>3 DEF Goal
  <1> QED
    BY <1>4 DEF Goal

-----------------------------------------------------------------------------
(* The inductive invariant *)

ActType == [name : {"connect", "bind", "global_connect"}, o : Objs, todo : Seq(Families \ {"unspec"}),
            current : Families]

TypeInv == /\ obj \in [Objs -> ObjType] /\ file \in [Fds -> FileType]
           /\ act = NoAct \/ act \in ActType

\* An object that no call is at work on has the family of its socket, or none.
FamilyInv == \A o \in Objs : obj[o].fd # INVALID /\ act.o # o => obj[o].family \in {"unspec", file[obj[o].fd].family}

\* A call at work has an address to try, of its object's family if that has
\* one, and knows the family of the socket it has.
ActInv ==
  act # NoAct =>
    /\ act.todo # <<>>
    /\ \A i \in 1 .. Len(act.todo) : obj[act.o].family \in {"unspec", act.todo[i]}
    /\ obj[act.o].fd # INVALID => act.current \in {"unspec", file[obj[act.o].fd].family}

SocketInv == TypeInv /\ Own(obj, file) /\ FamilyInv /\ ActInv

LEMMA SocketInvInit == ObjectsInit => SocketInv
  <1> SUFFICES ASSUME ObjectsInit PROVE SocketInv
    OBVIOUS
  <1> USE DEF ObjectsInit
  <1>1. TypeInv
    BY NothingTyped DEF TypeInv
  <1>2. \A o \in Objs : obj[o].fd = INVALID
    BY DEF NoObj
  <1>3. Own(obj, file)
    BY <1>2 DEF Own
  <1> QED
    BY <1>1, <1>2, <1>3 DEF SocketInv, FamilyInv, ActInv

\* The invariant says what SocketsAreOwned counts.
LEMMA OwnedByOne == SocketInv => SocketsAreOwned
  <1> SUFFICES ASSUME SocketInv PROVE SocketsAreOwned
    OBVIOUS
  <1> USE DEF SocketInv
  <1>1. ASSUME NEW d \in Fds, file[d] # NoFile PROVE Cardinality({o \in Objs : obj[o].fd = d}) = 1
    <2>1. PICK o \in Objs : obj[o].fd = d
      BY <1>1 DEF Own
    <2>2. d # INVALID
      BY SocketObjectsAssumption DEF INVALID
    <2>3. {p \in Objs : obj[p].fd = d} = {o}
      BY <2>1, <2>2 DEF Own
    <2> QED
      BY <2>3, FS_Singleton
  <1>2. ASSUME NEW o \in Objs, obj[o].fd # INVALID
        PROVE  /\ file[obj[o].fd] # NoFile
               /\ act.o # o => obj[o].family \in {"unspec", file[obj[o].fd].family}
               /\ file[obj[o].fd].nonblock
    BY <1>2 DEF Own, FamilyInv, NoFile
  <1> QED
    BY <1>1, <1>2 DEF SocketsAreOwned

-----------------------------------------------------------------------------
(* The steps *)

LEMMA ResolvedTyped ==
  ASSUME NEW host \in DOMAIN Hosts, NEW family \in Families
  PROVE  /\ Resolved(host, family) \in Seq(Families \ {"unspec"})
         /\ \A i \in 1 .. Len(Resolved(host, family)) : family \in {"unspec", Resolved(host, family)[i]}
         /\ family = "unspec" => Resolved(host, family) # <<>>
  <1>1. CASE family = "unspec"
    <2>1. Resolved(host, family) = Hosts[host]
      BY <1>1 DEF Resolved
    <2> QED
      BY <1>1, <2>1, SocketObjectsAssumption DEF Families
  <1>2. CASE family # "unspec"
    <2> DEFINE n == Cardinality({j \in DOMAIN Hosts[host] : Hosts[host][j] = family})
    <2>1. n \in Nat
      <3>1. IsFiniteSet(DOMAIN Hosts[host])
        <4>1. DOMAIN Hosts[host] = 1 .. Len(Hosts[host]) /\ Len(Hosts[host]) \in Nat
          BY SocketObjectsAssumption
        <4> QED
          BY <4>1, FS_Interval
      <3>2. IsFiniteSet({j \in DOMAIN Hosts[host] : Hosts[host][j] = family})
        BY <3>1, FS_Subset
      <3> QED
        BY <3>2, FS_CardinalityType
    <2>2. Resolved(host, family) = [i \in 1 .. n |-> family]
      BY <1>2 DEF Resolved
    <2> HIDE DEF n
    <2> QED
      BY <1>2, <2>1, <2>2
  <1> QED
    BY <1>1, <1>2

\* Nothing is under way while a call begins.
LEMMA NothingUnderWay == NoAct.o = "none" /\ \A o \in Objs : NoAct.o # o
  BY SocketObjectsAssumption DEF NoAct

\* A step that leaves no call under way preserves the invariant when it
\* preserves its parts.
LEMMA QuietStep ==
  ASSUME Typed(obj', file'), Own(obj', file'), act' = NoAct,
         \A o \in Objs : obj'[o].fd # INVALID => obj'[o].family \in {"unspec", file'[obj'[o].fd].family}
  PROVE  SocketInv'
  BY DEF SocketInv, TypeInv, Typed, FamilyInv, ActInv

\* What SocketInv says when no call is under way.
LEMMA Quiet ==
  ASSUME SocketInv, act = NoAct
  PROVE  /\ Typed(obj, file) /\ Own(obj, file)
         /\ \A o \in Objs : obj[o].fd # INVALID => obj[o].family \in {"unspec", file[obj[o].fd].family}
  BY NothingUnderWay DEF SocketInv, TypeInv, Typed, FamilyInv

\* One descriptor, that of object o, changes its state, and objects what is not
\* their descriptor or family.
LEMMA StateStep ==
  ASSUME SocketInv, act = NoAct, act' = NoAct, NEW o \in Objs, obj' \in [Objs -> ObjType],
         \A p \in Objs : obj'[p].fd = obj[p].fd /\ obj'[p].family = obj[p].family,
         Changes(file, file', obj[o].fd)
  PROVE  SocketInv'
  <1>1. Typed(obj, file) /\ Own(obj, file)
        /\ \A p \in Objs : obj[p].fd # INVALID => obj[p].family \in {"unspec", file[obj[p].fd].family}
    BY Quiet
  <1>2. Own(obj, file') /\ SameFamilies(obj, file, file')
    BY <1>1, OwnChanges
  <1>3. Own(obj', file')
    BY <1>2, OwnSame
  <1>4. Typed(obj', file')
    BY DEF Typed, Changes
  <1> QED
    BY <1>1, <1>2, <1>3, <1>4, QuietStep DEF SameFamilies

\* o loses its descriptor, which is closed.
LEMMA DropStep ==
  ASSUME SocketInv, act = NoAct, act' = NoAct, NEW o \in Objs,
         obj' \in [Objs -> ObjType], obj'[o].fd = INVALID, \A p \in Objs : p # o => obj'[p] = obj[p],
         NEW gs \in [Fds -> FileType], \A e \in Fds : e # obj[o].fd => gs[e] = file[e],
         file' = socket_destroy(gs, obj[o].fd)
  PROVE  SocketInv'
  <1>1. Typed(obj, file) /\ Own(obj, file)
        /\ \A p \in Objs : obj[p].fd # INVALID => obj[p].family \in {"unspec", file[obj[p].fd].family}
    BY Quiet
  <1>2. file' = socket_destroy(file, obj[o].fd)
    <2>1. CASE obj[o].fd = INVALID
      <3>1. INVALID \notin Fds
        BY SocketObjectsAssumption DEF INVALID
      <3> QED
        BY <1>1, <2>1, <3>1 DEF Typed, socket_destroy
    <2>2. CASE obj[o].fd # INVALID
      BY <1>1, <2>2 DEF Typed, socket_destroy
    <2> QED
      BY <2>1, <2>2
  <1>3. Own(obj', file')
    BY <1>1, <1>2, OwnDrop
  <1>4. file' \in [Fds -> FileType] /\ \A e \in Fds : e # obj[o].fd => file'[e] = file[e]
    BY <1>1, <1>2, NothingTyped DEF Typed, socket_destroy
  <1>5. \A p \in Objs : obj'[p].fd # INVALID => p # o /\ obj[p].fd \in Fds /\ obj[p].fd # obj[o].fd
    BY <1>1 DEF Typed, ObjType, Own
  <1>6. \A p \in Objs : obj'[p].fd # INVALID => obj'[p].family \in {"unspec", file'[obj'[p].fd].family}
    BY <1>1, <1>4, <1>5
  <1> QED
    BY <1>3, <1>4, <1>6, QuietStep DEF Typed

-----------------------------------------------------------------------------
(* The system calls *)

LEMMA NonblockingChanges ==
  ASSUME NEW fs \in [Fds -> FileType], NEW fd \in Fds \cup {INVALID}
  PROVE  Changes(fs, socket_setnonblocking(fs, fd), fd)
  BY DEF Changes, socket_setnonblocking, FileType

LEMMA BindChanges ==
  ASSUME NEW fs \in [Fds -> FileType], NEW fd \in Fds \cup {INVALID}, NEW r \in socket_bind(fs, fd)
  PROVE  Changes(fs, r.file, fd)
  <1>1. CASE fd = INVALID
    BY <1>1 DEF socket_bind, Changes
  <1>2. CASE fd # INVALID
    <2> DEFINE gs == socket_setnonblocking(fs, fd)
               bound == [gs EXCEPT ![fd].state = "bound"]
    <2>1. Changes(fs, gs, fd)
      BY NonblockingChanges
    <2>2. r = [err |-> "system", file |-> gs] \/ r = [err |-> "", file |-> bound]
      <3> HIDE DEF gs
      <3>1. CASE fs[fd].state = "fresh"
        BY <1>2, <3>1 DEF socket_bind, gs
      <3>2. CASE fs[fd].state # "fresh"
        BY <1>2, <3>2 DEF socket_bind, gs
      <3> QED
        BY <3>1, <3>2
    <2> HIDE DEF gs
    <2>3. Changes(gs, bound, fd)
      <3>1. gs \in [Fds -> FileType] /\ "bound" \in States
        BY <2>1 DEF Changes, States
      <3>2. bound \in [Fds -> FileType] /\ \A e \in Fds : e # fd => bound[e] = gs[e]
        BY <1>2, <3>1 DEF FileType
      <3>3. bound[fd].family = gs[fd].family /\ bound[fd].nonblock = gs[fd].nonblock
        BY <1>2, <3>1 DEF FileType
      <3> QED
        BY <3>2, <3>3 DEF Changes
    <2>4. Changes(fs, bound, fd)
      <3> HIDE DEF bound
      <3> QED
        BY <1>2, <2>1, <2>3 DEF Changes
    <2> HIDE DEF bound
    <2>5. CASE r = [err |-> "system", file |-> gs]
      BY <2>1, <2>5
    <2>6. CASE r = [err |-> "", file |-> bound]
      BY <2>4, <2>6
    <2> QED
      BY <2>2, <2>5, <2>6
  <1> QED
    BY <1>1, <1>2

LEMMA ConnectChanges ==
  ASSUME NEW fs \in [Fds -> FileType], NEW fd \in Fds \cup {INVALID}, NEW zero, NEW r \in socket_connect(fs, fd, zero)
  PROVE  Changes(fs, r.file, fd)
  <1>1. CASE fd = INVALID
    <2>1. socket_connect(fs, fd, zero) = {[err |-> "closed", file |-> fs]}
      BY <1>1 DEF socket_connect
    <2>2. r = [err |-> "closed", file |-> fs]
      BY <2>1
    <2> QED
      BY <1>1, <2>2 DEF Changes
  <1>2. CASE fd # INVALID
    <2> DEFINE stream == fs[fd].state \in {"fresh", "bound"} /\ fs[fd].type = "stream"
               at(state) == [fs EXCEPT ![fd].state = state]
    <2>1. \/ r = [err |-> "", file |-> at("connected")]
          \/ r = [err |-> "timeout", file |-> at("connecting")]
          \/ r = [err |-> "refused", file |-> at(fs[fd].state)]
          \/ r = [err |-> "system", file |-> at(fs[fd].state)]
      <3>1. CASE stream
        BY <1>2, <3>1 DEF socket_connect
      <3>2. CASE ~stream /\ fs[fd].type = "dgram"
        BY <1>2, <3>2 DEF socket_connect
      <3>3. CASE ~stream /\ fs[fd].type # "dgram"
        BY <1>2, <3>3 DEF socket_connect
      <3> QED
        BY <3>1, <3>2, <3>3
    <2>2. \A state \in States : Changes(fs, at(state), fd)
      BY <1>2 DEF Changes, FileType, States
    <2>3. fs[fd].state \in States /\ "connected" \in States /\ "connecting" \in States
      BY <1>2 DEF FileType, States
    <2> HIDE DEF at
    <2>4. CASE r = [err |-> "", file |-> at("connected")]
      BY <2>2, <2>3, <2>4
    <2>5. CASE r = [err |-> "timeout", file |-> at("connecting")]
      BY <2>2, <2>3, <2>5
    <2>6. CASE r = [err |-> "refused", file |-> at(fs[fd].state)]
      BY <2>2, <2>3, <2>6
    <2>7. CASE r = [err |-> "system", file |-> at(fs[fd].state)]
      BY <2>2, <2>3, <2>7
    <2> QED
      BY <2>1, <2>4, <2>5, <2>6, <2>7
  <1> QED
    BY <1>1, <1>2

-----------------------------------------------------------------------------
(* bind and connect, address by address *)

\* Object o, at which a call is at work, may have descriptor fd of files fs as
\* its socket, one of the given family.
MayHave(o, fd, fs, family) ==
  /\ fd \in Fds \cup {INVALID} /\ fs \in [Fds -> FileType]
  /\ Own([obj EXCEPT ![o].fd = fd], fs)
  /\ fd # INVALID => family \in {"unspec", fs[fd].family}
  /\ \A p \in Objs : p # o /\ obj[p].fd # INVALID => obj[p].family \in {"unspec", fs[obj[p].fd].family}

LEMMA WithDescriptor ==
  ASSUME obj \in [Objs -> ObjType], NEW o \in Objs, NEW fd \in Fds \cup {INVALID}
  PROVE  /\ [obj EXCEPT ![o].fd = fd] \in [Objs -> ObjType]
         /\ [obj EXCEPT ![o].fd = fd][o].fd = fd
         /\ \A p \in Objs : p # o => [obj EXCEPT ![o].fd = fd][p] = obj[p]
  BY DEF ObjType

LEMMA ChangesMayHave ==
  ASSUME obj \in [Objs -> ObjType], NEW o \in Objs, NEW fd, NEW fs, NEW gs, NEW family,
         MayHave(o, fd, fs, family), Changes(fs, gs, fd)
  PROVE  MayHave(o, fd, gs, family)
  <1> DEFINE os == [obj EXCEPT ![o].fd = fd]
  <1>1. os[o].fd = fd /\ (\A p \in Objs : p # o => os[p] = obj[p]) /\ Typed(os, fs)
    BY WithDescriptor DEF MayHave, Typed
  <1>2. Own(os, fs) /\ Changes(fs, gs, os[o].fd)
    BY <1>1 DEF MayHave
  <1> HIDE DEF os
  <1>3. Own(os, gs) /\ SameFamilies(os, fs, gs)
    BY <1>1, <1>2, OwnChanges
  <1>4. fd # INVALID => family \in {"unspec", gs[fd].family}
    BY DEF MayHave, Changes
  <1>5. \A p \in Objs : p # o /\ obj[p].fd # INVALID => obj[p].family \in {"unspec", gs[obj[p].fd].family}
    BY <1>1, <1>3 DEF MayHave, SameFamilies
  <1> QED
    BY <1>3, <1>4, <1>5 DEF MayHave, Changes, os

LEMMA FinishedInv ==
  ASSUME obj \in [Objs -> ObjType], NEW name, NEW o \in Objs, NEW fd, NEW family \in Families, NEW files, NEW err,
         MayHave(o, fd, files, family), Finished(name, o, fd, family, files, err)
  PROVE  SocketInv'
  <1> DEFINE os == [obj EXCEPT ![o].fd = fd]
  <1>1. os[o].fd = fd /\ (\A p \in Objs : p # o => os[p] = obj[p]) /\ Typed(os, files) /\ Own(os, files)
    BY WithDescriptor DEF MayHave, Typed
  <1>2. act' = NoAct
    BY DEF Finished
  <1>3. \A p \in Objs : p # o /\ obj[p].fd # INVALID => obj[p].family \in {"unspec", files[obj[p].fd].family}
    BY DEF MayHave
  <1>4. CASE name = "global_connect" /\ err # ""
    <2>1. obj' = [obj EXCEPT ![o] = NoObj] /\ file' = socket_destroy(files, os[o].fd)
      BY <1>1, <1>4 DEF Finished
    <2>2. obj' \in [Objs -> ObjType] /\ obj'[o].fd = INVALID /\ \A p \in Objs : p # o => obj'[p] = obj[p]
      BY <2>1, NothingTyped DEF NoObj
    <2> HIDE DEF os
    <2>3. Own(obj', file')
      BY <1>1, <2>1, <2>2, OwnDrop
    <2>4. file' \in [Fds -> FileType] /\ \A e \in Fds : e # fd => file'[e] = files[e]
      BY <1>1, <2>1, NothingTyped DEF Typed, socket_destroy
    <2>5. \A p \in Objs : obj'[p].fd # INVALID => p # o /\ obj[p].fd \in Fds /\ obj[p].fd # fd
      BY <1>1, <2>2 DEF Own, Typed, ObjType
    <2>6. \A p \in Objs : obj'[p].fd # INVALID => obj'[p].family \in {"unspec", file'[obj'[p].fd].family}
      BY <1>3, <2>2, <2>4, <2>5
    <2> QED
      BY <1>2, <2>2, <2>3, <2>4, <2>6, QuietStep DEF Typed
  <1>5. CASE ~(name = "global_connect" /\ err # "")
    <2>1. file' = files
      BY <1>5 DEF Finished
    <2>2. PICK class \in Classes : obj' = [obj EXCEPT ![o].fd = fd, ![o].family = family, ![o].class = class]
      <3>1. obj[o].class \in Classes
        BY DEF ObjType
      <3> QED
        BY <1>5, <3>1 DEF Finished, Classes
    <2> DEFINE new == [obj[o] EXCEPT !.fd = fd, !.family = family, !.class = class]
    <2>3. obj' = [obj EXCEPT ![o] = new]
      BY <2>2
    <2>4. new \in ObjType /\ new.fd = fd /\ new.family = family
      BY DEF MayHave, ObjType
    <2> HIDE DEF new
    <2>5. obj' \in [Objs -> ObjType] /\ obj'[o] = new /\ \A p \in Objs : p # o => obj'[p] = obj[p]
      BY <2>3, <2>4
    <2> HIDE DEF os
    <2>6. \A p \in Objs : obj'[p].fd = os[p].fd
      BY <1>1, <2>4, <2>5
    <2>7. Own(obj', files)
      BY <1>1, <2>6, OwnSame
    <2>8. \A p \in Objs : obj'[p].fd # INVALID => obj'[p].family \in {"unspec", file'[obj'[p].fd].family}
      BY <1>3, <2>1, <2>4, <2>5 DEF MayHave
    <2> QED
      BY <1>1, <1>2, <2>1, <2>5, <2>7, <2>8, QuietStep DEF Typed
  <1> QED
    BY <1>4, <1>5

\* An address is tried on a socket of its family, that of the object or a new
\* one in its place.
LEMMA SocketForAddress ==
  ASSUME SocketInv, act # NoAct, NEW family \in Families \ {"unspec"}, NEW c \in SocketFor(act.o, family)
  PROVE  MayHave(act.o, c.fd, c.file, family)
  <1> DEFINE o == act.o
             kept == act.current = family /\ obj[o].fd # INVALID
             bare == [obj EXCEPT ![o].fd = INVALID]
             closed == socket_destroy(file, obj[o].fd)
             type == Type(o)
  <1>1. o \in Objs /\ Typed(obj, file) /\ Own(obj, file)
    BY DEF SocketInv, TypeInv, ActType, Typed
  <1>2. \A p \in Objs : p # o /\ obj[p].fd # INVALID => obj[p].family \in {"unspec", file[obj[p].fd].family}
    BY <1>1 DEF SocketInv, FamilyInv
  <1>3. \A p \in Objs : obj[p].fd # INVALID => obj[p].fd \in Fds /\ file[obj[p].fd] # NoFile
    BY <1>1 DEF Typed, ObjType, Own, NoFile
  <1>4. CASE kept
    <2>1. SocketFor(o, family) = {[fd |-> obj[o].fd, file |-> file]}
      BY <1>4 DEF SocketFor
    <2>2. c = [fd |-> obj[o].fd, file |-> file]
      BY <2>1
    <2>3. obj[o].fd \in Fds /\ file[obj[o].fd].family = family
      BY <1>1, <1>3, <1>4 DEF SocketInv, ActInv
    <2>4. [obj EXCEPT ![o].fd = obj[o].fd] = obj
      BY <1>1 DEF Typed, ObjType
    <2> HIDE DEF o
    <2> QED
      BY <1>1, <1>2, <2>2, <2>3, <2>4 DEF MayHave, Typed, o
  <1>5. CASE ~kept
    <2>1. bare \in [Objs -> ObjType] /\ bare[o].fd = INVALID /\ \A p \in Objs : p # o => bare[p] = obj[p]
      BY <1>1, WithDescriptor DEF Typed
    <2>2. Own(bare, closed)
      <3> HIDE DEF bare, o
      <3> QED
        BY <1>1, <2>1, OwnDrop
    <2>3. closed \in [Fds -> FileType] /\ \A e \in Fds : e # obj[o].fd => closed[e] = file[e]
      BY <1>1, NothingTyped DEF Typed, socket_destroy
    <2>4. \A p \in Objs : p # o /\ obj[p].fd # INVALID =>
            obj[p].fd \in Fds /\ closed[obj[p].fd] = file[obj[p].fd]
      BY <1>1, <1>3, <2>3 DEF Own
    <2>5. type \in {"stream", "dgram"}
      BY DEF Type
    <2>6. PICK s \in socket_create(closed, family, type) : c = [s EXCEPT !.file = socket_setnonblocking(@, s.fd)]
      <3> HIDE DEF closed
      <3> QED
        BY <1>5 DEF SocketFor, closed
    <2> HIDE DEF bare, closed, type
    <2>7. s = [fd |-> s.fd, file |-> s.file]
      BY <2>3, <2>5, CreateYields
    <2>8. c.fd = s.fd /\ c.file = socket_setnonblocking(s.file, s.fd)
      BY <2>6, <2>7
    <2>9. CASE s.fd = INVALID /\ s.file = closed
      <3>1. c.fd = INVALID /\ c.file = closed
        BY <2>8, <2>9 DEF socket_setnonblocking
      <3>2. Own([obj EXCEPT ![o].fd = INVALID], closed)
        BY <2>2 DEF bare
      <3> HIDE DEF o
      <3> QED
        BY <1>2, <2>3, <2>4, <3>1, <3>2 DEF MayHave, o
    <2>10. CASE /\ s.fd \in Fds /\ closed[s.fd] = NoFile
                /\ s.file \in [Fds -> FileType]
                /\ \A e \in Fds : e # s.fd => s.file[e] = closed[e]
                /\ s.file[s.fd].family = family
      <3> DEFINE os == [obj EXCEPT ![o].fd = s.fd]
                 gs == socket_setnonblocking(s.file, s.fd)
      <3>1. s.fd # INVALID
        BY <2>10, SocketObjectsAssumption DEF INVALID
      <3>2. /\ gs \in [Fds -> FileType] /\ gs[s.fd].nonblock /\ gs[s.fd].family = family
            /\ \A e \in Fds : e # s.fd => gs[e] = closed[e]
        BY <2>10, <3>1 DEF socket_setnonblocking, FileType
      <3>3. os[o].fd = s.fd /\ \A p \in Objs : p # o => os[p].fd = bare[p].fd
        BY <1>1, <2>1, <2>10, WithDescriptor DEF Typed
      <3> HIDE DEF os, gs, o
      <3>4. Typed(bare, closed)
        BY <2>1, <2>3 DEF Typed
      <3>5. Own(os, gs)
        BY <1>1, <2>1, <2>2, <2>10, <3>2, <3>3, <3>4, OwnMake, SMTT(45)
      <3>6. \A p \in Objs : p # o /\ obj[p].fd # INVALID => obj[p].fd # s.fd
        BY <1>3, <2>4, <2>10
      <3>7. \A p \in Objs : p # o /\ obj[p].fd # INVALID => obj[p].family \in {"unspec", gs[obj[p].fd].family}
        BY <1>2, <2>4, <3>2, <3>6
      <3>8. MayHave(o, s.fd, gs, family)
        BY <2>10, <3>2, <3>5, <3>7 DEF MayHave, os
      <3> QED
        BY <2>8, <3>8 DEF o, gs
    <2> QED
      BY <2>3, <2>5, <2>6, <2>9, <2>10, CreateYields
  <1> QED
    BY <1>4, <1>5

\* A call that goes on with the next address.
LEMMA GoesOn ==
  ASSUME SocketInv, act # NoAct, NEW fd, NEW files, NEW current \in Families,
         MayHave(act.o, fd, files, current), Tail(act.todo) # <<>>,
         act' = [act EXCEPT !.todo = Tail(act.todo), !.current = current],
         obj' = [obj EXCEPT ![act.o].fd = fd], file' = files,
         fd # INVALID => obj[act.o].family \in {"unspec", files[fd].family}
  PROVE  SocketInv'
  <1> DEFINE o == act.o
  <1>1. o \in Objs /\ obj \in [Objs -> ObjType] /\ act \in ActType /\ act.todo # <<>>
    BY DEF SocketInv, TypeInv, ActType, ActInv
  <1>2. /\ fd \in Fds \cup {INVALID} /\ files \in [Fds -> FileType] /\ Own(obj', file')
        /\ fd # INVALID => current \in {"unspec", files[fd].family}
        /\ \A p \in Objs : p # o /\ obj[p].fd # INVALID => obj[p].family \in {"unspec", files[obj[p].fd].family}
    BY DEF MayHave
  <1>3. obj' \in [Objs -> ObjType] /\ obj'[o].fd = fd /\ \A p \in Objs : p # o => obj'[p] = obj[p]
    BY <1>1, <1>2, WithDescriptor
  <1>4. obj'[o].family = obj[o].family
    BY <1>1
  <1>5. /\ Tail(act.todo) \in Seq(Families \ {"unspec"})
        /\ Len(Tail(act.todo)) = Len(act.todo) - 1
        /\ \A i \in 1 .. Len(Tail(act.todo)) : Tail(act.todo)[i] = act.todo[i + 1] /\ i + 1 \in 1 .. Len(act.todo)
    <2> DEFINE todo == act.todo
    <2>1. todo \in Seq(Families \ {"unspec"}) /\ todo # <<>>
      BY <1>1 DEF ActType
    <2> HIDE DEF todo
    <2>2. /\ Tail(todo) \in Seq(Families \ {"unspec"})
          /\ Len(Tail(todo)) = Len(todo) - 1
          /\ \A i \in 1 .. Len(Tail(todo)) : Tail(todo)[i] = todo[i + 1] /\ i + 1 \in 1 .. Len(todo)
      BY <2>1
    <2> QED
      BY <2>2 DEF todo
  <1>6. act' \in ActType /\ act'.o = o /\ act'.todo = Tail(act.todo) /\ act'.current = current
    BY <1>1, <1>5 DEF ActType
  <1>7. TypeInv'
    BY <1>2, <1>3, <1>6 DEF TypeInv
  <1>8. FamilyInv'
    BY <1>2, <1>3, <1>6 DEF FamilyInv
  <1>9. ActInv'
    <2>1. \A i \in 1 .. Len(act'.todo) : obj'[o].family \in {"unspec", act'.todo[i]}
      BY <1>4, <1>5, <1>6 DEF SocketInv, ActInv
    <2>2. obj'[o].fd # INVALID => act'.current \in {"unspec", file'[obj'[o].fd].family}
      BY <1>2, <1>3, <1>6
    <2> QED
      BY <1>6, <2>1, <2>2 DEF ActInv
  <1> QED
    BY <1>2, <1>7, <1>8, <1>9 DEF SocketInv

LEMMA TryAddressStep ==
  ASSUME SocketInv, TryAddress
  PROVE  SocketInv'
  <1> DEFINE o == act.o
             family == Head(act.todo)
             fails(fd, current, files, err) ==
               IF Tail(act.todo) = <<>> THEN Finished(act.name, o, fd, obj[o].family, files, err)
               ELSE /\ act' = [act EXCEPT !.todo = Tail(act.todo), !.current = current]
                    /\ obj' = [obj EXCEPT ![o].fd = fd]
                    /\ file' = files
                    /\ UNCHANGED last
  <1>1. act # NoAct /\ o \in Objs /\ obj \in [Objs -> ObjType] /\ act \in ActType
    BY DEF SocketInv, TypeInv, ActType, TryAddress
  <1>2. family \in Families \ {"unspec"} /\ obj[o].family \in {"unspec", family} /\ obj[o].family \in Families
    <2>1. act.todo \in Seq(Families \ {"unspec"}) /\ act.todo # <<>>
      BY <1>1 DEF SocketInv, ActInv, ActType
    <2>2. family = act.todo[1] /\ 1 \in 1 .. Len(act.todo)
      BY <2>1
    <2>3. act.todo[1] \in Families \ {"unspec"}
      BY <2>1, <2>2
    <2>4. obj[o].family \in {"unspec", act.todo[1]}
      BY <1>1, <2>2 DEF SocketInv, ActInv
    <2> QED
      BY <1>1, <2>2, <2>3, <2>4 DEF ObjType
  <1>3. PICK c \in SocketFor(o, family) :
          IF c.fd = INVALID THEN fails(INVALID, act.current, c.file, "system")
          ELSE \E r \in IF act.name = "bind" THEN socket_bind(c.file, c.fd)
                        ELSE socket_connect(c.file, c.fd, obj[o].zero) :
                 IF r.err = "" \/ (act.name # "bind" /\ obj[o].zero)
                 THEN Finished(act.name, o, c.fd, family, r.file, r.err)
                 ELSE fails(c.fd, family, r.file, r.err)
    BY DEF TryAddress
  <1> HIDE DEF family
  <1>4. MayHave(o, c.fd, c.file, family)
    BY <1>1, <1>2, SocketForAddress
  \* a failed attempt ends the call, or the next one has what it left
  <1>5. ASSUME NEW fd, NEW current \in Families, NEW files, NEW err, fails(fd, current, files, err),
               MayHave(o, fd, files, family), fd # INVALID => current = family
        PROVE  SocketInv'
    <2>1. fd # INVALID => family = files[fd].family
      BY <1>2, <1>5 DEF MayHave
    <2>2. MayHave(o, fd, files, obj[o].family) /\ MayHave(o, fd, files, current)
      BY <1>2, <1>5, <2>1 DEF MayHave
    <2>3. CASE Tail(act.todo) = <<>>
      <3>1. Finished(act.name, o, fd, obj[o].family, files, err)
        BY <1>5, <2>3
      <3> QED
        BY <1>1, <1>2, <2>2, <3>1, FinishedInv
    <2>4. CASE Tail(act.todo) # <<>>
      <3>1. /\ act' = [act EXCEPT !.todo = Tail(act.todo), !.current = current]
            /\ obj' = [obj EXCEPT ![o].fd = fd] /\ file' = files
        BY <1>5, <2>4
      <3>2. fd # INVALID => obj[o].family \in {"unspec", files[fd].family}
        BY <1>2, <2>1
      <3> QED
        BY <1>1, <1>5, <2>2, <2>4, <3>1, <3>2, GoesOn
    <2> QED
      BY <2>3, <2>4
  <1>6. CASE c.fd = INVALID
    <2>1. fails(INVALID, act.current, c.file, "system")
      BY <1>3, <1>6
    <2>2. act.current \in Families
      BY <1>1 DEF ActType
    <2> HIDE DEF fails
    <2>3. MayHave(o, INVALID, c.file, family)
      BY <1>4, <1>6
    <2> QED
      BY <1>5, <2>1, <2>2, <2>3
  <1>7. CASE c.fd # INVALID
    <2>1. PICK r \in IF act.name = "bind" THEN socket_bind(c.file, c.fd)
                     ELSE socket_connect(c.file, c.fd, obj[o].zero) :
            IF r.err = "" \/ (act.name # "bind" /\ obj[o].zero)
            THEN Finished(act.name, o, c.fd, family, r.file, r.err)
            ELSE fails(c.fd, family, r.file, r.err)
      BY <1>3, <1>7
    <2> HIDE DEF fails
    <2>2. c.file \in [Fds -> FileType] /\ c.fd \in Fds \cup {INVALID}
      BY <1>4 DEF MayHave
    <2>3. Changes(c.file, r.file, c.fd)
      <3>1. CASE act.name = "bind"
        BY <2>2, <3>1, BindChanges
      <3>2. CASE act.name # "bind"
        BY <2>2, <3>2, ConnectChanges
      <3> QED
        BY <3>1, <3>2
    <2>4. MayHave(o, c.fd, r.file, family)
      BY <1>1, <1>4, <2>3, ChangesMayHave
    <2>5. CASE r.err = "" \/ (act.name # "bind" /\ obj[o].zero)
      <3>1. Finished(act.name, o, c.fd, family, r.file, r.err)
        BY <2>1, <2>5
      <3> QED
        BY <1>1, <1>2, <2>4, <3>1, FinishedInv
    <2>6. CASE ~(r.err = "" \/ (act.name # "bind" /\ obj[o].zero))
      <3>1. fails(c.fd, family, r.file, r.err)
        BY <2>1, <2>6
      <3> QED
        BY <1>2, <1>5, <2>4, <3>1
    <2> QED
      BY <2>5, <2>6
  <1> QED
    BY <1>6, <1>7

\* An object that has its socket, or none, and its family may keep them.
LEMMA HasItsOwn ==
  ASSUME SocketInv, act = NoAct, NEW o \in Objs
  PROVE  MayHave(o, obj[o].fd, file, obj[o].family)
  <1>1. Typed(obj, file) /\ Own(obj, file)
        /\ \A p \in Objs : obj[p].fd # INVALID => obj[p].family \in {"unspec", file[obj[p].fd].family}
    BY Quiet
  <1>2. [obj EXCEPT ![o].fd = obj[o].fd] = obj /\ obj[o].fd \in Fds \cup {INVALID}
    BY <1>1 DEF Typed, ObjType
  <1> QED
    BY <1>1, <1>2 DEF MayHave, Typed

LEMMA ResolvesStep ==
  ASSUME SocketInv, act = NoAct, NEW name \in {"connect", "bind"}, NEW o \in Objs, NEW host \in DOMAIN Hosts,
         Resolves(name, o, host)
  PROVE  SocketInv'
  <1> DEFINE addresses == Resolved(host, obj[o].family)
  <1>1. Typed(obj, file) /\ Own(obj, file)
        /\ \A p \in Objs : obj[p].fd # INVALID => obj[p].family \in {"unspec", file[obj[p].fd].family}
    BY Quiet
  <1>2. obj[o].family \in Families
    BY <1>1 DEF Typed, ObjType
  <1>3. CASE addresses = <<>>
    <2>1. Finished(name, o, obj[o].fd, obj[o].family, file, "host")
      BY <1>3 DEF Resolves
    <2>2. MayHave(o, obj[o].fd, file, obj[o].family)
      BY HasItsOwn
    <2> QED
      BY <1>1, <1>2, <2>1, <2>2, FinishedInv DEF Typed
  <1>4. CASE addresses # <<>>
    <2>1. /\ act' = [name |-> name, o |-> o, todo |-> addresses, current |-> obj[o].family]
          /\ obj' = obj /\ file' = file
      BY <1>4 DEF Resolves
    <2>2. /\ addresses \in Seq(Families \ {"unspec"})
          /\ \A i \in 1 .. Len(addresses) : obj[o].family \in {"unspec", addresses[i]}
      BY <1>2, ResolvedTyped
    <2> HIDE DEF addresses
    <2>3. act' \in ActType /\ act'.o = o /\ act'.todo = addresses /\ act'.current = obj[o].family
      BY <1>2, <2>1, <2>2 DEF ActType
    <2>4. TypeInv' /\ Own(obj', file')
      BY <1>1, <2>1, <2>3 DEF TypeInv, Typed
    <2>5. FamilyInv'
      BY <1>1, <2>1 DEF FamilyInv
    <2>6. ActInv'
      BY <1>1, <1>4, <2>1, <2>2, <2>3 DEF ActInv
    <2> QED
      BY <2>4, <2>5, <2>6 DEF SocketInv
  <1> QED
    BY <1>3, <1>4

LEMMA GlobalConnectStep ==
  ASSUME SocketInv, NEW o \in Objs, NEW host \in DOMAIN Hosts, global_connect(o, host)
  PROVE  SocketInv'
  <1> DEFINE addresses == Resolved(host, "unspec")
             new == [kind |-> "tcp", class |-> "none", family |-> "unspec", fd |-> INVALID, zero |-> FALSE]
  <1>1. act = NoAct /\ obj[o] = NoObj /\ obj' = [obj EXCEPT ![o] = new] /\ file' = file
        /\ act' = [name |-> "global_connect", o |-> o, todo |-> addresses, current |-> "unspec"]
    BY DEF global_connect, Begins, Live
  <1>2. Typed(obj, file) /\ Own(obj, file)
        /\ \A p \in Objs : obj[p].fd # INVALID => obj[p].family \in {"unspec", file[obj[p].fd].family}
    BY <1>1, Quiet
  <1>3. addresses \in Seq(Families \ {"unspec"}) /\ addresses # <<>>
    <2>1. "unspec" \in Families
      BY DEF Families
    <2> QED
      BY <2>1, ResolvedTyped
  <1>4. new \in ObjType /\ new.fd = INVALID /\ new.family = "unspec"
    BY DEF ObjType, Families, Classes, Kinds
  <1>5. obj[o].fd = INVALID
    BY <1>1 DEF NoObj
  <1> HIDE DEF addresses, new
  <1>6. obj' \in [Objs -> ObjType] /\ obj'[o] = new /\ \A p \in Objs : p # o => obj'[p] = obj[p]
    BY <1>1, <1>2, <1>4 DEF Typed
  <1>7. act' \in ActType /\ act'.o = o /\ act'.todo = addresses
    BY <1>1, <1>3 DEF ActType, Families
  <1>8. \A p \in Objs : obj'[p].fd = obj[p].fd
    BY <1>4, <1>5, <1>6
  <1>9. Own(obj', file)
    BY <1>2, <1>8, OwnSame
  <1>10. FamilyInv'
    BY <1>1, <1>2, <1>6, <1>7 DEF FamilyInv
  <1>11. ActInv'
    BY <1>3, <1>4, <1>6, <1>7 DEF ActInv
  <1> QED
    BY <1>1, <1>2, <1>6, <1>7, <1>9, <1>10, <1>11 DEF SocketInv, TypeInv, Typed

\* What becomes of a connection under way concerns its descriptor's state only.
LEMMA CompletesStep ==
  ASSUME SocketInv, Completes
  PROVE  SocketInv'
  <1>1. PICK d \in Fds : file[d].state = "connecting" /\ obj' = obj /\ act' = act
                         /\ \E state \in {"connected", "fresh"} : file' = [file EXCEPT ![d].state = state]
    BY DEF Completes
  <1>2. Typed(obj, file) /\ Own(obj, file)
    BY DEF SocketInv, TypeInv, Typed
  <1>3. PICK o \in Objs : obj[o].fd = d
    BY <1>1, <1>2 DEF Own, NoFile
  <1>4. Changes(file, file', d)
    BY <1>1, <1>2 DEF Changes, Typed, FileType, States
  <1>5. Changes(file, file', obj[o].fd)
    BY <1>3, <1>4
  <1>6. Own(obj, file') /\ SameFamilies(obj, file, file')
    BY <1>2, <1>5, OwnChanges
  <1>7. TypeInv'
    BY <1>1, <1>4 DEF SocketInv, TypeInv, Changes
  <1>8. FamilyInv'
    BY <1>1, <1>6 DEF SocketInv, FamilyInv, SameFamilies
  <1>9. ActInv'
    <2>1. act # NoAct => act.o \in Objs
      BY DEF SocketInv, TypeInv, ActType
    <2> QED
      BY <1>1, <1>6, <2>1 DEF SocketInv, ActInv, SameFamilies
  <1> QED
    BY <1>1, <1>6, <1>7, <1>8, <1>9 DEF SocketInv

-----------------------------------------------------------------------------
(* Calls of one step *)

\* A call begins when none is under way and leaves none.
Call == SocketInv /\ act = NoAct /\ act' = NoAct

\* Files that do not change, and objects whose descriptors do not.
LEMMA KeepStep ==
  ASSUME Call, obj' \in [Objs -> ObjType], file' = file,
         \A p \in Objs : obj'[p].fd = obj[p].fd /\ (obj[p].fd # INVALID => obj'[p].family = obj[p].family)
  PROVE  SocketInv'
  <1>1. Typed(obj, file) /\ Own(obj, file)
        /\ \A p \in Objs : obj[p].fd # INVALID => obj[p].family \in {"unspec", file[obj[p].fd].family}
    BY Quiet DEF Call
  <1>2. \A p \in Objs : obj'[p].fd = obj[p].fd
    OBVIOUS
  <1>3. Own(obj', file)
    BY <1>1, <1>2, OwnSame
  <1> QED
    BY <1>1, <1>3, QuietStep DEF Typed, Call

\* A socket made for object o, which has none, and set to non-blocking.
LEMMA CreateStep ==
  ASSUME Call, NEW o \in Objs, NEW new \in ObjType, NEW family \in Families, NEW type \in {"stream", "dgram"},
         NEW c \in socket_create(file, family, type), obj[o].fd = INVALID, new.fd = c.fd,
         c.fd # INVALID => new.family \in {"unspec", family},
         NEW fs, Changes(c.file, fs, c.fd), file' = socket_setnonblocking(fs, c.fd),
         obj' = [obj EXCEPT ![o] = new]
  PROVE  SocketInv'
  <1> DEFINE gs == socket_setnonblocking(fs, c.fd)
  <1>1. Typed(obj, file) /\ Own(obj, file) /\ act' = NoAct
        /\ \A p \in Objs : obj[p].fd # INVALID => obj[p].family \in {"unspec", file[obj[p].fd].family}
    BY Quiet DEF Call
  <1>2. /\ c.fd \in Fds \cup {INVALID} /\ (c.fd # INVALID => c.file[c.fd].family = family)
        /\ \/ c.fd = INVALID /\ c.file = file
           \/ c.fd \in Fds /\ file[c.fd] = NoFile /\ \A e \in Fds : e # c.fd => c.file[e] = file[e]
    BY <1>1, CreateYields DEF Typed
  <1>3. fs \in [Fds -> FileType] /\ (\A e \in Fds : e # c.fd => fs[e] = c.file[e])
        /\ (c.fd # INVALID => fs[c.fd].family = family)
    BY <1>2 DEF Changes
  <1>4. Changes(fs, gs, c.fd)
    BY <1>2, <1>3, NonblockingChanges
  <1>5. c.fd # INVALID => gs[c.fd].nonblock
    BY <1>2, <1>3 DEF socket_setnonblocking, FileType
  <1>6. file' = gs
    OBVIOUS
  <1> HIDE DEF gs
  <1>7. gs \in [Fds -> FileType] /\ (\A e \in Fds : e # c.fd => gs[e] = c.file[e])
        /\ (c.fd # INVALID => gs[c.fd].family = family)
    BY <1>2, <1>3, <1>4 DEF Changes
  <1>8. obj' \in [Objs -> ObjType] /\ obj'[o] = new /\ \A p \in Objs : p # o => obj'[p] = obj[p]
    BY <1>1 DEF Typed
  <1>9. Typed(obj', gs)
    BY <1>7, <1>8 DEF Typed
  <1>10. CASE c.fd = INVALID /\ c.file = file
    <2>1. gs = file
      <3>1. INVALID \notin Fds
        BY SocketObjectsAssumption DEF INVALID
      <3> QED
        BY <1>1, <1>7, <1>10, <3>1 DEF Typed
    <2>2. \A p \in Objs : obj'[p].fd = obj[p].fd
      BY <1>8, <1>10
    <2>3. Own(obj', gs)
      BY <1>1, <2>1, <2>2, OwnSame
    <2> QED
      BY <1>1, <1>6, <1>8, <1>9, <1>10, <2>1, <2>3, QuietStep
  <1>11. CASE c.fd \in Fds /\ file[c.fd] = NoFile /\ \A e \in Fds : e # c.fd => c.file[e] = file[e]
    <2>1. c.fd # INVALID
      BY <1>11, SocketObjectsAssumption DEF INVALID
    <2>2. obj'[o].fd = c.fd /\ (\A p \in Objs : p # o => obj'[p].fd = obj[p].fd)
      BY <1>8
    <2>3. gs[c.fd].nonblock /\ \A e \in Fds : e # c.fd => gs[e] = file[e]
      BY <1>5, <1>7, <1>11, <2>1
    <2>4. Own(obj', gs)
      <3> DEFINE us == obj'
                 d == c.fd
      <3>1. us[o].fd = d /\ \A p \in Objs : p # o => us[p].fd = obj[p].fd
        BY <2>2
      <3>2. d \in Fds /\ file[d] = NoFile /\ gs[d].nonblock /\ \A e \in Fds : e # d => gs[e] = file[e]
        BY <1>11, <2>3
      <3>3. Typed(obj, file) /\ Own(obj, file) /\ obj[o].fd = INVALID
        BY <1>1
      <3> HIDE DEF us, d
      <3>4. Own(us, gs)
        BY <3>1, <3>2, <3>3, OwnMake
      <3> QED
        BY <3>4 DEF us
    <2>5. \A p \in Objs : p # o /\ obj[p].fd # INVALID => obj[p].fd \in Fds /\ obj[p].fd # c.fd
      BY <1>1, <1>11 DEF Own, Typed, ObjType, NoFile
    <2>6. \A p \in Objs : obj'[p].fd # INVALID => obj'[p].family \in {"unspec", gs[obj'[p].fd].family}
      BY <1>1, <1>7, <1>8, <2>1, <2>3, <2>5
    <2> QED
      BY <1>1, <1>6, <1>9, <2>4, <2>6, QuietStep
  <1> QED
    BY <1>2, <1>10, <1>11

LEMMA tcp_createStep ==
  ASSUME SocketInv, NEW o \in Objs, NEW kind \in Inet, NEW family \in {"unspec", "inet", "inet6"},
         tcp_create(o, kind, family)
  PROVE  SocketInv'
  <1> DEFINE new(fd) == [kind |-> kind, class |-> IF kind = "tcp" THEN "master" ELSE "unconnected",
                         family |-> family, fd |-> fd, zero |-> FALSE]
             type == IF kind = "tcp" THEN "stream" ELSE "dgram"
  <1>1. Call /\ obj[o] = NoObj
    BY DEF tcp_create, Begins, Live, Call
  <1>2. Typed(obj, file)
    BY <1>1, Quiet DEF Call
  <1>3. obj[o].fd = INVALID
    BY <1>1 DEF NoObj
  <1>4. \A fd \in Fds \cup {INVALID} : new(fd) \in ObjType /\ new(fd).fd = fd /\ new(fd).family = family
    BY DEF ObjType, Kinds, Classes, Families, Inet
  <1>5. CASE family = "unspec"
    <2>1. obj' = [obj EXCEPT ![o] = new(INVALID)] /\ file' = file
      BY <1>5 DEF tcp_create
    <2> HIDE DEF new
    <2>2. obj' \in [Objs -> ObjType] /\ \A p \in Objs : obj'[p].fd = obj[p].fd
      BY <1>2, <1>3, <1>4, <2>1 DEF Typed
    <2>3. \A p \in Objs : obj[p].fd # INVALID => obj'[p] = obj[p]
      BY <1>2, <1>3, <2>1 DEF Typed
    <2> QED
      BY <1>1, <2>1, <2>2, <2>3, KeepStep
  <1>6. CASE family # "unspec"
    <2>1. PICK c \in socket_create(file, family, type) :
            /\ file' = socket_setnonblocking(c.file, c.fd)
            /\ obj' = IF c.fd = INVALID THEN obj ELSE [obj EXCEPT ![o] = new(c.fd)]
      BY <1>6 DEF tcp_create
    <2>2. type \in {"stream", "dgram"} /\ family \in Families
      BY DEF Families
    <2> HIDE DEF new, type
    <2>3. c.fd \in Fds \cup {INVALID} /\ c.file \in [Fds -> FileType]
      BY <1>2, <2>2, CreateYields DEF Typed
    <2> DEFINE made == IF c.fd = INVALID THEN obj[o] ELSE new(c.fd)
    <2>4. obj' = [obj EXCEPT ![o] = made]
      BY <1>2, <2>1 DEF Typed
    <2>5. made \in ObjType /\ made.fd = c.fd /\ (c.fd # INVALID => made.family \in {"unspec", family})
      BY <1>2, <1>3, <1>4, <2>3 DEF Typed
    <2>6. Changes(c.file, c.file, c.fd)
      BY <2>3 DEF Changes
    <2>7. file' = socket_setnonblocking(c.file, c.fd)
      BY <2>1
    <2> HIDE DEF made
    <2> QED
      BY <1>1, <1>3, <2>2, <2>4, <2>5, <2>6, <2>7, CreateStep
  <1> QED
    BY <1>5, <1>6

LEMMA unix_createStep ==
  ASSUME SocketInv, NEW o \in Objs, NEW kind \in Kinds, unix_create(o, kind)
  PROVE  SocketInv'
  <1> DEFINE type == IF kind = "unixstream" THEN "stream" ELSE "dgram"
             new(fd) == [kind |-> kind, family |-> "unix", fd |-> fd, zero |-> FALSE,
                         class |-> IF kind = "unixstream" THEN "master" ELSE "unconnected"]
  <1>1. Call /\ obj[o] = NoObj
    BY DEF unix_create, Begins, Live, Call
  <1>2. Typed(obj, file) /\ obj[o].fd = INVALID
    BY <1>1, Quiet DEF Call, NoObj
  <1>3. \A fd \in Fds \cup {INVALID} : new(fd) \in ObjType /\ new(fd).fd = fd /\ new(fd).family = "unix"
    BY DEF ObjType, Kinds, Classes, Families
  <1>4. PICK c \in socket_create(file, "unix", type) :
          /\ file' = socket_setnonblocking(c.file, c.fd)
          /\ obj' = IF c.fd = INVALID THEN obj ELSE [obj EXCEPT ![o] = new(c.fd)]
    BY DEF unix_create
  <1>5. type \in {"stream", "dgram"} /\ "unix" \in Families
    BY DEF Families
  <1> HIDE DEF new, type
  <1>6. c.fd \in Fds \cup {INVALID} /\ c.file \in [Fds -> FileType]
    BY <1>2, <1>5, CreateYields DEF Typed
  <1> DEFINE made == IF c.fd = INVALID THEN obj[o] ELSE new(c.fd)
  <1>7. obj' = [obj EXCEPT ![o] = made]
    BY <1>2, <1>4 DEF Typed
  <1>8. made \in ObjType /\ made.fd = c.fd /\ (c.fd # INVALID => made.family \in {"unspec", "unix"})
    BY <1>2, <1>3, <1>6 DEF Typed
  <1>9. Changes(c.file, c.file, c.fd)
    BY <1>6 DEF Changes
  <1> HIDE DEF made
  <1> QED
    BY <1>1, <1>2, <1>4, <1>5, <1>7, <1>8, <1>9, CreateStep

\* Calls that change neither descriptors nor families.
LEMMA settimeoutStep ==
  ASSUME SocketInv, NEW o \in Objs, NEW zero \in BOOLEAN, settimeout(o, zero)
  PROVE  SocketInv'
  <1>1. Call /\ obj' = [obj EXCEPT ![o].zero = zero] /\ file' = file
    BY DEF settimeout, Begins, Call
  <1>2. obj \in [Objs -> ObjType]
    BY <1>1, Quiet DEF Call, Typed
  <1>3. obj' \in [Objs -> ObjType] /\ \A p \in Objs : obj'[p].fd = obj[p].fd /\ obj'[p].family = obj[p].family
    BY <1>1, <1>2 DEF ObjType
  <1> QED
    BY <1>1, <1>3, KeepStep

LEMMA meth_receiveStep ==
  ASSUME SocketInv, NEW o \in Objs, meth_receive(o)
  PROVE  SocketInv'
  <1>1. Call /\ obj' = obj /\ file' = file
    BY DEF meth_receive, Begins, Call
  <1>2. obj \in [Objs -> ObjType]
    BY <1>1, Quiet DEF Call, Typed
  <1> QED
    BY <1>1, <1>2, KeepStep

LEMMA meth_setpeernameStep ==
  ASSUME SocketInv, NEW o \in Objs, meth_setpeername(o)
  PROVE  SocketInv'
  <1>1. /\ Call /\ obj' = [obj EXCEPT ![o].class = "unconnected"]
        /\ file' = IF obj[o].fd = INVALID \/ obj[o].family = "unspec" THEN file
                   ELSE [file EXCEPT ![obj[o].fd].state = "bound"]
    BY DEF meth_setpeername, Begins, Call
  <1>2. Typed(obj, file)
    BY <1>1, Quiet DEF Call
  <1>3. obj' \in [Objs -> ObjType] /\ \A p \in Objs : obj'[p].fd = obj[p].fd /\ obj'[p].family = obj[p].family
    BY <1>1, <1>2 DEF Typed, ObjType, Classes
  <1>4. Changes(file, file', obj[o].fd)
    <2>1. CASE file' = file
      BY <1>2, <2>1 DEF Changes, Typed
    <2>2. CASE obj[o].fd # INVALID /\ file' = [file EXCEPT ![obj[o].fd].state = "bound"]
      BY <1>2, <2>2 DEF Changes, Typed, ObjType, FileType, States
    <2> QED
      BY <1>1, <2>1, <2>2
  <1> QED
    BY <1>1, <1>3, <1>4, StateStep DEF Call

LEMMA meth_listenStep ==
  ASSUME SocketInv, NEW o \in Objs, meth_listen(o)
  PROVE  SocketInv'
  <1>1. Call
    BY DEF meth_listen, Begins, Call
  <1>2. Typed(obj, file)
    BY <1>1, Quiet DEF Call
  <1>3. CASE obj' = obj /\ file' = file
    <2>1. obj' \in [Objs -> ObjType]
      BY <1>2, <1>3 DEF Typed
    <2> QED
      BY <1>1, <1>3, <2>1, KeepStep
  <1>4. CASE /\ obj[o].fd # INVALID /\ file' = [file EXCEPT ![obj[o].fd].state = "listening"]
             /\ obj' = [obj EXCEPT ![o].class = "server"]
    <2>1. obj' \in [Objs -> ObjType] /\ \A p \in Objs : obj'[p].fd = obj[p].fd /\ obj'[p].family = obj[p].family
      BY <1>2, <1>4 DEF Typed, ObjType, Classes
    <2>2. Changes(file, file', obj[o].fd)
      BY <1>2, <1>4, SMTT(45) DEF Changes, Typed, ObjType, FileType, States
    <2> QED
      BY <1>1, <2>1, <2>2, StateStep DEF Call
  <1> QED
    BY <1>3, <1>4 DEF meth_listen

\* Calls that close a socket.
LEMMA meth_closeStep ==
  ASSUME SocketInv, NEW o \in Objs, meth_close(o)
  PROVE  SocketInv'
  <1>1. /\ Call /\ file' = socket_destroy(file, obj[o].fd)
        /\ \/ obj' = [obj EXCEPT ![o].fd = INVALID]
           \/ obj' = [obj EXCEPT ![o] = NoObj]
    BY DEF meth_close, Begins, Call
  <1>2. Typed(obj, file)
    BY <1>1, Quiet DEF Call
  <1>3. obj' \in [Objs -> ObjType] /\ obj'[o].fd = INVALID /\ \A p \in Objs : p # o => obj'[p] = obj[p]
    <2>1. CASE obj' = [obj EXCEPT ![o].fd = INVALID]
      BY <1>2, <2>1, WithDescriptor DEF Typed
    <2>2. CASE obj' = [obj EXCEPT ![o] = NoObj]
      BY <1>2, <2>2, NothingTyped DEF Typed, NoObj
    <2> QED
      BY <1>1, <2>1, <2>2
  <1> QED
    BY <1>1, <1>2, <1>3, DropStep DEF Call, Typed

LEMMA unix_trybindStep ==
  ASSUME SocketInv, NEW o \in Objs, unix_trybind(o)
  PROVE  SocketInv'
  <1>1. Call
    BY DEF unix_trybind, Begins, Call
  <1>2. Typed(obj, file) /\ obj[o].fd \in Fds \cup {INVALID}
    BY <1>1, Quiet DEF Call, Typed, ObjType
  <1>3. PICK r \in socket_bind(file, obj[o].fd) :
          /\ file' = IF r.err = "" THEN r.file ELSE socket_destroy(r.file, obj[o].fd)
          /\ obj' = IF r.err = "" THEN obj ELSE [obj EXCEPT ![o].fd = INVALID]
    BY DEF unix_trybind
  <1>4. Changes(file, r.file, obj[o].fd)
    BY <1>2, BindChanges DEF Typed
  <1>5. CASE r.err = ""
    <2>1. obj' = obj /\ file' = r.file
      BY <1>3, <1>5
    <2> QED
      BY <1>1, <1>2, <1>4, <2>1, StateStep DEF Call, Typed
  <1>6. CASE r.err # ""
    <2>1. obj' = [obj EXCEPT ![o].fd = INVALID] /\ file' = socket_destroy(r.file, obj[o].fd)
      BY <1>3, <1>6
    <2>2. obj' \in [Objs -> ObjType] /\ obj'[o].fd = INVALID /\ \A p \in Objs : p # o => obj'[p] = obj[p]
      BY <1>2, <2>1, WithDescriptor DEF Typed
    <2>3. r.file \in [Fds -> FileType] /\ \A e \in Fds : e # obj[o].fd => r.file[e] = file[e]
      BY <1>4 DEF Changes
    <2> QED
      BY <1>1, <2>1, <2>2, <2>3, DropStep DEF Call
  <1> QED
    BY <1>5, <1>6

LEMMA unix_tryconnectStep ==
  ASSUME SocketInv, NEW o \in Objs, unix_tryconnect(o)
  PROVE  SocketInv'
  <1>1. Call
    BY DEF unix_tryconnect, Begins, Call
  <1>2. Typed(obj, file) /\ obj[o].fd \in Fds \cup {INVALID} /\ obj[o].class \in Classes
    BY <1>1, Quiet DEF Call, Typed, ObjType
  <1>3. PICK r \in socket_connect(file, obj[o].fd, obj[o].zero) :
          /\ file' = IF r.err = "" THEN r.file ELSE socket_destroy(r.file, obj[o].fd)
          /\ obj' = [obj EXCEPT ![o].fd = IF r.err = "" THEN @ ELSE INVALID,
                                ![o].class = IF r.err # "" THEN @
                                             ELSE IF obj[o].kind = "unixstream" THEN "client" ELSE "connected"]
    BY DEF unix_tryconnect
  <1>4. Changes(file, r.file, obj[o].fd)
    BY <1>2, ConnectChanges DEF Typed
  <1>5. CASE r.err = ""
    <2> DEFINE class == IF obj[o].kind = "unixstream" THEN "client" ELSE "connected"
               new == [obj[o] EXCEPT !.fd = obj[o].fd, !.class = class]
    <2>1. file' = r.file /\ obj' = [obj EXCEPT ![o] = new]
      BY <1>3, <1>5
    <2>2. class \in Classes
      BY DEF Classes
    <2> HIDE DEF class
    <2>3. new \in ObjType /\ new.fd = obj[o].fd /\ new.family = obj[o].family
      BY <1>2, <2>2 DEF Typed, ObjType
    <2> HIDE DEF new
    <2>4. obj' \in [Objs -> ObjType] /\ \A p \in Objs : obj'[p].fd = obj[p].fd /\ obj'[p].family = obj[p].family
      BY <1>2, <2>1, <2>3 DEF Typed
    <2> QED
      BY <1>1, <1>4, <2>1, <2>4, StateStep DEF Call
  <1>6. CASE r.err # ""
    <2>1. /\ file' = socket_destroy(r.file, obj[o].fd)
          /\ obj' = [obj EXCEPT ![o].fd = INVALID, ![o].class = obj[o].class]
      BY <1>3, <1>6
    <2>2. obj' \in [Objs -> ObjType] /\ obj'[o].fd = INVALID /\ \A p \in Objs : p # o => obj'[p] = obj[p]
      BY <1>2, <2>1, ZenonT(60) DEF Typed, ObjType
    <2>3. r.file \in [Fds -> FileType] /\ \A e \in Fds : e # obj[o].fd => r.file[e] = file[e]
      BY <1>4 DEF Changes
    <2> QED
      BY <1>1, <2>1, <2>2, <2>3, DropStep DEF Call
  <1> QED
    BY <1>5, <1>6

\* Calls that may make a socket.
LEMMA meth_acceptStep ==
  ASSUME SocketInv, NEW o \in Objs, NEW client \in Objs, meth_accept(o, client)
  PROVE  SocketInv'
  <1>1. Call /\ obj[client] = NoObj
    BY DEF meth_accept, Begins, Live, Call
  <1>2. /\ Typed(obj, file) /\ obj[client].fd = INVALID
        /\ \A p \in Objs : obj[p].fd # INVALID => obj[p].family \in {"unspec", file[obj[p].fd].family}
    BY <1>1, Quiet DEF Call, NoObj
  <1>3. CASE obj' = obj /\ file' = file
    BY <1>1, <1>2, <1>3, KeepStep DEF Typed
  <1>4. CASE ~(obj' = obj /\ file' = file)
    <2> DEFINE fs(c) == [c.file EXCEPT ![c.fd].state = "connected"]
               new(c) == [kind |-> obj[o].kind, class |-> "client", family |-> obj[o].family,
                          fd |-> c.fd, zero |-> FALSE]
               family == file[obj[o].fd].family
    <2>1. PICK c \in IF obj[o].fd = INVALID THEN {[fd |-> INVALID, file |-> file]}
                     ELSE socket_create(file, family, "stream") :
            IF c.fd = INVALID THEN Result("accept", client, "timeout") /\ UNCHANGED <<obj, file>>
            ELSE /\ file' = socket_setnonblocking(fs(c), c.fd)
                 /\ obj' = [obj EXCEPT ![client] = new(c)]
                 /\ Result("accept", client, "")
      BY DEF meth_accept
    <2>2. c.fd # INVALID /\ file' = socket_setnonblocking(fs(c), c.fd) /\ obj' = [obj EXCEPT ![client] = new(c)]
      BY <1>4, <2>1
    <2>3. obj[o].fd # INVALID
      <3>1. CASE obj[o].fd = INVALID
        <4>1. c = [fd |-> INVALID, file |-> file]
          BY <3>1
        <4> QED
          BY <2>2, <4>1
      <3> QED
        BY <3>1
    <2>4. c \in socket_create(file, family, "stream")
      BY <2>3
    <2>5. family \in Families /\ obj[o].family \in {"unspec", family}
      BY <1>2, <2>3 DEF Typed, ObjType, FileType
    <2> HIDE DEF family
    <2>6. c.fd \in Fds /\ c.file \in [Fds -> FileType]
      BY <1>2, <2>2, <2>4, <2>5, CreateYields DEF Typed
    <2>7. Changes(c.file, fs(c), c.fd)
      BY <2>6 DEF Changes, FileType, States
    <2>8. new(c) \in ObjType /\ new(c).fd = c.fd /\ new(c).family \in {"unspec", family}
      BY <1>2, <2>5, <2>6 DEF Typed, ObjType, Classes
    <2> HIDE DEF new, fs
    <2> QED
      BY <1>1, <1>2, <2>2, <2>4, <2>5, <2>7, <2>8, CreateStep
  <1> QED
    BY <1>3, <1>4

LEMMA meth_sendtoStep ==
  ASSUME SocketInv, NEW o \in Objs, NEW host \in DOMAIN Hosts, meth_sendto(o, host)
  PROVE  SocketInv'
  <1> DEFINE families == IF obj[o].kind = "udp" THEN Resolved(host, obj[o].family) ELSE <<"unix">>
             first == obj[o].family = "unspec" /\ obj[o].fd = INVALID
             made(i) == {[fd |-> s.fd, file |-> socket_setnonblocking(s.file, s.fd),
                          family |-> IF s.fd = INVALID THEN "unspec" ELSE families[i]] :
                            s \in socket_create(file, families[i], "dgram")}
  <1>1. Call
    BY DEF meth_sendto, Begins, Call
  <1>2. Typed(obj, file)
    BY <1>1, Quiet DEF Call
  <1>3. CASE obj' = obj /\ file' = file
    BY <1>1, <1>2, <1>3, KeepStep DEF Typed
  <1>4. CASE ~(obj' = obj /\ file' = file)
    <2>1. PICK c \in IF ~first THEN {[fd |-> obj[o].fd, file |-> file, family |-> obj[o].family]}
                     ELSE UNION {made(i) : i \in DOMAIN families} :
            file' = c.file /\ obj' = [obj EXCEPT ![o].fd = c.fd, ![o].family = c.family]
      BY <1>4 DEF meth_sendto
    <2>2. CASE ~first
      <3>1. c = [fd |-> obj[o].fd, file |-> file, family |-> obj[o].family]
        BY <2>2
      <3>2. file' = file /\ obj' = [obj EXCEPT ![o].fd = obj[o].fd, ![o].family = obj[o].family]
        BY <2>1, <3>1
      <3>3. obj' = obj
        BY <1>2, <3>2 DEF Typed, ObjType
      <3> QED
        BY <1>4, <3>2, <3>3
    <2>3. CASE first
      <3>1. PICK i \in DOMAIN families : c \in made(i)
        BY <2>3
      <3> DEFINE family == families[i]
      <3>2. family \in Families
        <4>1. CASE obj[o].kind = "udp"
          <5> DEFINE rs == Resolved(host, "unspec")
          <5>1. families = rs
            BY <2>3, <4>1
          <5>2. rs \in Seq(Families \ {"unspec"})
            <6>1. "unspec" \in Families
              BY DEF Families
            <6> QED
              BY <6>1, ResolvedTyped
          <5> HIDE DEF rs, families
          <5> QED
            BY <3>1, <5>1, <5>2
        <4>2. CASE obj[o].kind # "udp"
          BY <3>1, <4>2 DEF Families
        <4> QED
          BY <4>1, <4>2
      <3> HIDE DEF families
      <3>3. PICK s \in socket_create(file, family, "dgram") :
              c = [fd |-> s.fd, file |-> socket_setnonblocking(s.file, s.fd),
                   family |-> IF s.fd = INVALID THEN "unspec" ELSE family]
        BY <3>1
      <3> DEFINE label == IF s.fd = INVALID THEN "unspec" ELSE family
                 new == [obj[o] EXCEPT !.fd = s.fd, !.family = label]
                 gs == socket_setnonblocking(s.file, s.fd)
      <3>4. c = [fd |-> s.fd, file |-> gs, family |-> label]
        BY <3>3
      <3> HIDE DEF label, gs, family
      <3>5. c.fd = s.fd /\ c.file = gs /\ c.family = label
        BY <3>4
      <3>6. file' = gs /\ obj' = [obj EXCEPT ![o] = new]
        BY <2>1, <3>5
      <3>7. s.fd \in Fds \cup {INVALID} /\ s.file \in [Fds -> FileType]
        BY <1>2, <3>2, CreateYields DEF Typed
      <3>8. label \in Families /\ label \in {"unspec", family}
        BY <3>2 DEF label, Families
      <3>9. new \in ObjType /\ new.fd = s.fd /\ new.family = label
        BY <1>2, <3>7, <3>8 DEF Typed, ObjType
      <3>10. Changes(s.file, s.file, s.fd)
        BY <3>7 DEF Changes
      <3>11. obj[o].fd = INVALID
        BY <2>3
      <3>12. file' = socket_setnonblocking(s.file, s.fd)
        BY <3>6 DEF gs
      <3> HIDE DEF new
      <3> QED
        BY <1>1, <3>2, <3>6, <3>8, <3>9, <3>10, <3>11, <3>12, CreateStep
    <2> QED
      BY <2>2, <2>3
  <1> QED
    BY <1>3, <1>4

-----------------------------------------------------------------------------
LEMMA SocketInvStep == SocketInv /\ [ObjectsNext]_objectVars => SocketInv'
  <1> SUFFICES ASSUME SocketInv, [ObjectsNext]_objectVars PROVE SocketInv'
    OBVIOUS
  <1>1. ASSUME NEW o \in Objs, NEW kind \in Inet, NEW family \in {"unspec", "inet", "inet6"},
               tcp_create(o, kind, family)
        PROVE  SocketInv'
    BY <1>1, tcp_createStep
  <1>2. ASSUME NEW o \in Objs, NEW kind \in Kinds, unix_create(o, kind) PROVE SocketInv'
    BY <1>2, unix_createStep
  <1>3. ASSUME NEW o \in Objs, NEW zero \in BOOLEAN, settimeout(o, zero) PROVE SocketInv'
    BY <1>3, settimeoutStep
  <1>4. ASSUME NEW o \in Objs, NEW host \in DOMAIN Hosts, meth_connect(o, host) PROVE SocketInv'
    BY <1>4, ResolvesStep DEF meth_connect, Begins
  <1>5. ASSUME NEW o \in Objs, NEW host \in DOMAIN Hosts, meth_bind(o, host) PROVE SocketInv'
    BY <1>5, ResolvesStep DEF meth_bind, Begins
  <1>6. ASSUME NEW o \in Objs, NEW host \in DOMAIN Hosts, global_connect(o, host) PROVE SocketInv'
    BY <1>6, GlobalConnectStep
  <1>7. ASSUME NEW o \in Objs, NEW host \in DOMAIN Hosts, meth_sendto(o, host) PROVE SocketInv'
    BY <1>7, meth_sendtoStep
  <1>8. ASSUME NEW o \in Objs, unix_trybind(o) PROVE SocketInv'
    BY <1>8, unix_trybindStep
  <1>9. ASSUME NEW o \in Objs, unix_tryconnect(o) PROVE SocketInv'
    BY <1>9, unix_tryconnectStep
  <1>10. ASSUME NEW o \in Objs, meth_listen(o) PROVE SocketInv'
    BY <1>10, meth_listenStep
  <1>11. ASSUME NEW o \in Objs, NEW client \in Objs, meth_accept(o, client) PROVE SocketInv'
    BY <1>11, meth_acceptStep
  <1>12. ASSUME NEW o \in Objs, meth_close(o) PROVE SocketInv'
    BY <1>12, meth_closeStep
  <1>13. ASSUME NEW o \in Objs, meth_setpeername(o) PROVE SocketInv'
    BY <1>13, meth_setpeernameStep
  <1>14. ASSUME NEW o \in Objs, meth_receive(o) PROVE SocketInv'
    BY <1>14, meth_receiveStep
  <1>15. CASE TryAddress
    BY <1>15, TryAddressStep
  <1>16. CASE Completes
    BY <1>16, CompletesStep
  <1>17. CASE UNCHANGED objectVars
    <2>1. obj' = obj /\ file' = file /\ act' = act
      BY <1>17 DEF objectVars
    <2> QED
      BY <2>1 DEF SocketInv, TypeInv, FamilyInv, ActInv
  <1> QED
    BY <1>1, <1>2, <1>3, <1>4, <1>5, <1>6, <1>7, <1>8, <1>9, <1>10, <1>11, <1>12, <1>13, <1>14, <1>15, <1>16, <1>17
       DEF ObjectsNext

\* Whatever calls a program makes and whatever fails on the way, no descriptor
\* is leaked, shared by two objects or left blocking (tcp.c, udp.c,
\* unixstream.c, unixdgram.c, inet.c, usocket.c).
THEOREM NoDescriptorLost == ObjectsSpec => []SocketsAreOwned
  <1>1. SocketInv /\ [ObjectsNext]_objectVars => SocketInv'
    BY SocketInvStep
  <1> QED
    BY SocketInvInit, <1>1, OwnedByOne, PTL DEF ObjectsSpec

-----------------------------------------------------------------------------
(* What a successful call says of its object's socket *)

\* The state a successful call of that name is for.
Serves(name, x, fs) ==
  /\ name \in {"connect", "global_connect", "accept"} =>
       x.fd # INVALID /\ fs[x.fd].state = "connected" /\ x.class \in {"client", "connected"}
  /\ name = "bind" => x.fd # INVALID /\ fs[x.fd].state = "bound"
  /\ name = "listen" => x.fd # INVALID /\ fs[x.fd].state = "listening" /\ x.class = "server"
  /\ name = "sendto" => x.fd # INVALID

\* Only an object of the Internet families is connected address by address.
ResultInv ==
  /\ last.name = "none" \/ last.o \in Objs
  /\ act.name = "connect" => obj[act.o].kind \in Inet
  /\ last.name # "none" /\ last.err = "" /\ act = NoAct /\ Live(last.o) => Serves(last.name, obj[last.o], file)

Promising == {"connect", "global_connect", "accept", "bind", "listen", "sendto"}

LEMMA NothingNamed == NoAct.name = "none" /\ NoAct.name # "connect"
  BY DEF NoAct

\* A call that fails, or that is for no state, says nothing.
LEMMA SaysNothing ==
  ASSUME act' = NoAct, NEW o \in Objs, NEW name, NEW err, Result(name, o, err), name \notin Promising \/ err # ""
  PROVE  ResultInv'
  BY NothingNamed DEF Result, ResultInv, Serves, Promising

\* One that succeeds has left its object and the socket as it should.
LEMMA SaysWhatIs ==
  ASSUME act' = NoAct, NEW o \in Objs, NEW name, NEW err, Result(name, o, err), Serves(name, obj'[o], file')
  PROVE  ResultInv'
  BY NothingNamed DEF Result, ResultInv

LEMMA BindBinds ==
  ASSUME NEW fs \in [Fds -> FileType], NEW fd \in Fds \cup {INVALID}, NEW r \in socket_bind(fs, fd), r.err = ""
  PROVE  fd # INVALID /\ r.file[fd].state = "bound"
  <1>1. fd # INVALID
    <2>1. fd = INVALID => r = [err |-> "system", file |-> fs]
      BY DEF socket_bind
    <2>2. r = [err |-> "system", file |-> fs] => r.err = "system"
      OBVIOUS
    <2> QED
      BY <2>1, <2>2
  <1> DEFINE gs == socket_setnonblocking(fs, fd)
  <1>2. r = [err |-> "system", file |-> gs] \/ r = [err |-> "", file |-> [gs EXCEPT ![fd].state = "bound"]]
    BY <1>1 DEF socket_bind
  <1>3. gs \in [Fds -> FileType]
    BY <1>1 DEF socket_setnonblocking, FileType
  <1> DEFINE bound == [gs EXCEPT ![fd].state = "bound"]
  <1>4. bound[fd].state = "bound"
    BY <1>1, <1>3 DEF FileType
  <1> HIDE DEF gs, bound
  <1>5. r = [err |-> "system", file |-> gs] => r.err = "system"
    OBVIOUS
  <1>6. r = [err |-> "", file |-> bound]
    BY <1>2, <1>5 DEF bound
  <1> QED
    BY <1>1, <1>4, <1>6

LEMMA ConnectConnects ==
  ASSUME NEW fs \in [Fds -> FileType], NEW fd \in Fds \cup {INVALID}, NEW zero, NEW r \in socket_connect(fs, fd, zero),
         r.err = ""
  PROVE  fd # INVALID /\ r.file[fd].state = "connected"
  <1>1. fd # INVALID
    <2>1. fd = INVALID => r = [err |-> "closed", file |-> fs]
      BY DEF socket_connect
    <2>2. r = [err |-> "closed", file |-> fs] => r.err = "closed"
      OBVIOUS
    <2> QED
      BY <2>1, <2>2
  <1> DEFINE stream == fs[fd].state \in {"fresh", "bound"} /\ fs[fd].type = "stream"
             at(state) == [fs EXCEPT ![fd].state = state]
  <1>2. \/ r = [err |-> "", file |-> at("connected")]
        \/ r = [err |-> "timeout", file |-> at("connecting")]
        \/ r = [err |-> "refused", file |-> at(fs[fd].state)]
        \/ r = [err |-> "system", file |-> at(fs[fd].state)]
    <2>1. CASE stream
      BY <1>1, <2>1 DEF socket_connect
    <2>2. CASE ~stream /\ fs[fd].type = "dgram"
      BY <1>1, <2>2 DEF socket_connect
    <2>3. CASE ~stream /\ fs[fd].type # "dgram"
      BY <1>1, <2>3 DEF socket_connect
    <2> QED
      BY <2>1, <2>2, <2>3
  <1>3. at("connected")[fd].state = "connected"
    BY <1>1 DEF FileType
  <1> HIDE DEF at
  <1>4. \A e, f : [err |-> e, file |-> f].err = e /\ [err |-> e, file |-> f].file = f
    OBVIOUS
  <1>5. CASE r = [err |-> "", file |-> at("connected")]
    BY <1>1, <1>3, <1>4, <1>5
  <1>6. CASE r = [err |-> "timeout", file |-> at("connecting")]
    BY <1>4, <1>6
  <1>7. CASE r = [err |-> "refused", file |-> at(fs[fd].state)]
    BY <1>4, <1>7
  <1>8. CASE r = [err |-> "system", file |-> at(fs[fd].state)]
    BY <1>4, <1>8
  <1> QED
    BY <1>2, <1>5, <1>6, <1>7, <1>8

\* A call over addresses that ends well has left the socket connected or bound.
LEMMA FinishedResult ==
  ASSUME obj \in [Objs -> ObjType], NEW o \in Objs, NEW name \in {"connect", "bind", "global_connect"},
         NEW fd, NEW family, NEW files, NEW err, Finished(name, o, fd, family, files, err),
         name = "connect" => obj[o].kind \in Inet,
         err = "" => fd # INVALID /\ files[fd].state = IF name = "bind" THEN "bound" ELSE "connected"
  PROVE  ResultInv'
  <1>1. act' = NoAct /\ Result(name, o, err)
    BY DEF Finished
  <1>2. CASE err # ""
    BY <1>1, <1>2, SaysNothing
  <1>3. CASE err = ""
    <2> DEFINE class == CASE name = "connect" /\ obj[o].kind = "tcp"             -> "client"
                          [] name = "connect" /\ obj[o].kind = "udp" /\ err = "" -> "connected"
                          [] name = "global_connect" /\ err = ""                 -> "client"
                          [] OTHER                                              -> obj[o].class
    <2>1. obj' = [obj EXCEPT ![o].fd = fd, ![o].family = family, ![o].class = class] /\ file' = files
      BY <1>3 DEF Finished
    <2>3. name # "bind" => class \in {"client", "connected"}
      <3>1. CASE name = "connect" /\ obj[o].kind = "tcp"
        BY <3>1
      <3>2. CASE name = "connect" /\ obj[o].kind = "udp"
        BY <1>3, <3>2
      <3>3. CASE name = "global_connect"
        BY <1>3, <3>3
      <3>4. name = "connect" => obj[o].kind \in {"tcp", "udp"}
        BY DEF Inet
      <3> QED
        BY <3>1, <3>2, <3>3, <3>4
    <2> HIDE DEF class
    <2>4. obj'[o].fd = fd /\ obj'[o].class = class
      BY <2>1 DEF ObjType
    <2>5. Serves(name, obj'[o], file')
      BY <1>3, <2>1, <2>3, <2>4 DEF Serves
    <2> QED
      BY <1>1, <2>5, SaysWhatIs
  <1> QED
    BY <1>2, <1>3

LEMMA TryAddressResult ==
  ASSUME SocketInv, ResultInv, TryAddress
  PROVE  ResultInv'
  <1> DEFINE o == act.o
             name == act.name
             family == Head(act.todo)
             fails(fd, current, files, err) ==
               IF Tail(act.todo) = <<>> THEN Finished(act.name, o, fd, obj[o].family, files, err)
               ELSE /\ act' = [act EXCEPT !.todo = Tail(act.todo), !.current = current]
                    /\ obj' = [obj EXCEPT ![o].fd = fd]
                    /\ file' = files
                    /\ UNCHANGED last
  <1>1. act # NoAct /\ o \in Objs /\ obj \in [Objs -> ObjType] /\ act \in ActType
        /\ name \in {"connect", "bind", "global_connect"} /\ (name = "connect" => obj[o].kind \in Inet)
        /\ (last.name = "none" \/ last.o \in Objs)
    BY DEF SocketInv, TypeInv, ActType, TryAddress, ResultInv
  <1>2. family \in Families \ {"unspec"}
    <2>1. act.todo \in Seq(Families \ {"unspec"}) /\ act.todo # <<>>
      BY <1>1 DEF SocketInv, ActInv, ActType
    <2> QED
      BY <2>1
  <1>3. PICK c \in SocketFor(o, family) :
          IF c.fd = INVALID THEN fails(INVALID, act.current, c.file, "system")
          ELSE \E r \in IF act.name = "bind" THEN socket_bind(c.file, c.fd)
                        ELSE socket_connect(c.file, c.fd, obj[o].zero) :
                 IF r.err = "" \/ (act.name # "bind" /\ obj[o].zero)
                 THEN Finished(act.name, o, c.fd, family, r.file, r.err)
                 ELSE fails(c.fd, family, r.file, r.err)
    BY DEF TryAddress
  <1> HIDE DEF family
  <1>4. c.fd \in Fds \cup {INVALID} /\ c.file \in [Fds -> FileType]
    BY <1>1, <1>2, <1>3, SocketForAddress DEF MayHave
  <1>5. ASSUME NEW fd, NEW current, NEW files, NEW err, err # "", fails(fd, current, files, err)
        PROVE  ResultInv'
    <2>1. CASE Tail(act.todo) = <<>>
      <3>1. Finished(name, o, fd, obj[o].family, files, err)
        BY <1>5, <2>1
      <3> QED
        BY <1>1, <1>5, <3>1, FinishedResult
    <2>2. CASE Tail(act.todo) # <<>>
      <3>1. act' = [act EXCEPT !.todo = Tail(act.todo), !.current = current]
            /\ obj' = [obj EXCEPT ![o].fd = fd] /\ last' = last
        BY <1>5, <2>2
      <3>2. act'.name = name /\ act'.o = o /\ act'.name # NoAct.name
        BY <1>1, <3>1, NothingNamed DEF ActType
      <3>3. obj'[o].kind = obj[o].kind
        BY <1>1, <3>1 DEF ObjType
      <3> QED
        BY <1>1, <3>1, <3>2, <3>3 DEF ResultInv
    <2> QED
      BY <2>1, <2>2
  <1>6. CASE c.fd = INVALID
    <2>1. fails(INVALID, act.current, c.file, "system")
      BY <1>3, <1>6
    <2> HIDE DEF fails
    <2> QED
      BY <1>5, <2>1
  <1>7. CASE c.fd # INVALID
    <2>1. PICK r \in IF act.name = "bind" THEN socket_bind(c.file, c.fd)
                     ELSE socket_connect(c.file, c.fd, obj[o].zero) :
            IF r.err = "" \/ (act.name # "bind" /\ obj[o].zero)
            THEN Finished(act.name, o, c.fd, family, r.file, r.err)
            ELSE fails(c.fd, family, r.file, r.err)
      BY <1>3, <1>7
    <2> HIDE DEF fails
    <2>2. r.err = "" => c.fd # INVALID /\ r.file[c.fd].state = IF name = "bind" THEN "bound" ELSE "connected"
      <3>1. CASE name = "bind"
        BY <1>4, <2>1, <3>1, BindBinds
      <3>2. CASE name # "bind"
        BY <1>4, <2>1, <3>2, ConnectConnects
      <3> QED
        BY <3>1, <3>2
    <2>3. CASE r.err = "" \/ (act.name # "bind" /\ obj[o].zero)
      <3>1. Finished(name, o, c.fd, family, r.file, r.err)
        BY <2>1, <2>3
      <3> QED
        BY <1>1, <2>2, <3>1, FinishedResult
    <2>4. CASE ~(r.err = "" \/ (act.name # "bind" /\ obj[o].zero))
      BY <1>5, <2>1, <2>4
    <2> QED
      BY <2>3, <2>4
  <1> QED
    BY <1>6, <1>7

LEMMA ResolvesResult ==
  ASSUME SocketInv, ResultInv, act = NoAct, NEW name \in {"connect", "bind"}, NEW o \in Objs,
         NEW host, Resolves(name, o, host), obj[o].kind \in Inet
  PROVE  ResultInv'
  <1>1. obj \in [Objs -> ObjType]
    BY DEF SocketInv, TypeInv
  <1> DEFINE addresses == Resolved(host, obj[o].family)
  <1>2. CASE addresses = <<>>
    <2>1. Finished(name, o, obj[o].fd, obj[o].family, file, "host")
      BY <1>2 DEF Resolves
    <2> QED
      BY <1>1, <2>1, FinishedResult
  <1>3. CASE addresses # <<>>
    <2>1. act' = [name |-> name, o |-> o, todo |-> addresses, current |-> obj[o].family]
          /\ obj' = obj /\ last' = last
      BY <1>3 DEF Resolves
    <2>2. act'.name = name /\ act'.o = o /\ act'.name # NoAct.name
      BY <2>1, NothingNamed
    <2> QED
      BY <2>1, <2>2 DEF ResultInv
  <1> QED
    BY <1>2, <1>3

LEMMA GlobalConnectResult ==
  ASSUME SocketInv, ResultInv, NEW o \in Objs, NEW host, global_connect(o, host)
  PROVE  ResultInv'
  <1>1. act'.name = "global_connect" /\ last' = last
    BY DEF global_connect
  <1> QED
    BY <1>1, NothingNamed DEF ResultInv

LEMMA meth_listenResult ==
  ASSUME SocketInv, ResultInv, NEW o \in Objs, meth_listen(o)
  PROVE  ResultInv'
  <1>1. act' = NoAct /\ Typed(obj, file)
    BY DEF meth_listen, Begins, SocketInv, TypeInv, Typed
  <1>2. CASE Result("listen", o, "system")
    BY <1>1, <1>2, SaysNothing
  <1>3. CASE /\ obj[o].fd # INVALID
             /\ file' = [file EXCEPT ![obj[o].fd].state = "listening"]
             /\ obj' = [obj EXCEPT ![o].class = "server"]
             /\ Result("listen", o, "")
    <2>1. obj[o].fd \in Fds
      BY <1>1, <1>3 DEF Typed, ObjType
    <2>2. obj'[o].fd = obj[o].fd /\ obj'[o].class = "server"
      BY <1>1, <1>3 DEF Typed, ObjType
    <2>3. file'[obj[o].fd].state = "listening"
      BY <1>1, <1>3, <2>1 DEF Typed, FileType
    <2>4. Serves("listen", obj'[o], file')
      BY <1>3, <2>2, <2>3 DEF Serves
    <2> QED
      BY <1>1, <1>3, <2>4, SaysWhatIs
  <1> QED
    BY <1>2, <1>3 DEF meth_listen

LEMMA meth_acceptResult ==
  ASSUME SocketInv, ResultInv, NEW o \in Objs, NEW client \in Objs, meth_accept(o, client)
  PROVE  ResultInv'
  <1>1. act' = NoAct /\ Typed(obj, file) /\ obj[o].fd \in Fds \cup {INVALID}
    BY DEF meth_accept, Begins, SocketInv, TypeInv, Typed, ObjType
  <1>2. PICK c \in IF obj[o].fd = INVALID THEN {[fd |-> INVALID, file |-> file]}
                   ELSE socket_create(file, file[obj[o].fd].family, "stream") :
          IF c.fd = INVALID THEN Result("accept", client, "timeout")
          ELSE /\ file' = socket_setnonblocking([c.file EXCEPT ![c.fd].state = "connected"], c.fd)
               /\ obj' = [obj EXCEPT ![client] = [kind |-> obj[o].kind, class |-> "client", family |-> obj[o].family,
                                                  fd |-> c.fd, zero |-> FALSE]]
               /\ Result("accept", client, "")
    BY DEF meth_accept
  <1>3. CASE c.fd = INVALID
    BY <1>1, <1>2, <1>3, SaysNothing
  <1>4. CASE c.fd # INVALID
    <2>1. obj[o].fd # INVALID
      <3>1. obj[o].fd = INVALID => c = [fd |-> INVALID, file |-> file]
        BY <1>2
      <3>2. c = [fd |-> INVALID, file |-> file] => c.fd = INVALID
        OBVIOUS
      <3> QED
        BY <1>4, <3>1, <3>2
    <2>2. c.fd \in Fds /\ c.file \in [Fds -> FileType]
      <3>1. file[obj[o].fd].family \in Families /\ file \in [Fds -> FileType]
        BY <1>1, <2>1 DEF Typed, FileType
      <3>2. c \in socket_create(file, file[obj[o].fd].family, "stream")
        BY <1>2, <2>1
      <3> QED
        BY <1>4, <3>1, <3>2, CreateYields
    <2>3. file'[c.fd].state = "connected"
      <3> DEFINE fs == [c.file EXCEPT ![c.fd].state = "connected"]
      <3>1. fs \in [Fds -> FileType] /\ fs[c.fd].state = "connected"
        BY <2>2 DEF FileType, States
      <3>2. file' = [fs EXCEPT ![c.fd].nonblock = TRUE]
        BY <1>2, <1>4 DEF socket_setnonblocking
      <3> HIDE DEF fs
      <3> QED
        BY <2>2, <3>1, <3>2 DEF FileType
    <2>4. obj'[client].fd = c.fd /\ obj'[client].class = "client"
      <3> DEFINE new == [kind |-> obj[o].kind, class |-> "client", family |-> obj[o].family, fd |-> c.fd, zero |-> FALSE]
      <3>1. obj' = [obj EXCEPT ![client] = new] /\ obj \in [Objs -> ObjType]
        BY <1>1, <1>2, <1>4 DEF Typed
      <3>2. new.fd = c.fd /\ new.class = "client"
        OBVIOUS
      <3> HIDE DEF new
      <3>3. obj'[client] = new
        BY <3>1
      <3> QED
        BY <3>2, <3>3
    <2>5. Serves("accept", obj'[client], file')
      BY <1>4, <2>3, <2>4 DEF Serves
    <2> QED
      BY <1>1, <1>2, <1>4, <2>5, SaysWhatIs
  <1> QED
    BY <1>3, <1>4

LEMMA meth_sendtoResult ==
  ASSUME SocketInv, ResultInv, NEW o \in Objs, NEW host \in DOMAIN Hosts, meth_sendto(o, host)
  PROVE  ResultInv'
  <1>1. act' = NoAct /\ obj \in [Objs -> ObjType]
    BY DEF meth_sendto, Begins, SocketInv, TypeInv
  <1>2. \/ Result("sendto", o, "host")
        \/ \E fd, family : /\ obj' = [obj EXCEPT ![o].fd = fd, ![o].family = family]
                           /\ \E err \in IF fd = INVALID THEN {"closed"} ELSE {"", "refused", "timeout"} :
                                Result("sendto", o, err)
    <2> DEFINE families == IF obj[o].kind = "udp" THEN Resolved(host, obj[o].family) ELSE <<"unix">>
               first == obj[o].family = "unspec" /\ obj[o].fd = INVALID
               made == IF ~first THEN {[fd |-> obj[o].fd, file |-> file, family |-> obj[o].family]}
                       ELSE UNION {{[fd |-> c.fd, file |-> socket_setnonblocking(c.file, c.fd),
                                     family |-> IF c.fd = INVALID THEN "unspec" ELSE families[i]] :
                                      c \in socket_create(file, families[i], "dgram")} : i \in DOMAIN families}
    <2>1. IF families = <<>> THEN Result("sendto", o, "host") /\ UNCHANGED <<obj, file>>
          ELSE \E c \in made :
                 /\ file' = c.file
                 /\ obj' = [obj EXCEPT ![o].fd = c.fd, ![o].family = c.family]
                 /\ \E err \in IF c.fd = INVALID THEN {"closed"} ELSE {"", "refused", "timeout"} :
                      Result("sendto", o, err)
      BY DEF meth_sendto
    <2> HIDE DEF families, made
    <2> QED
      BY <2>1
  <1>3. CASE Result("sendto", o, "host")
    BY <1>1, <1>3, SaysNothing
  <1>4. ASSUME NEW fd, NEW family, obj' = [obj EXCEPT ![o].fd = fd, ![o].family = family],
               NEW err \in IF fd = INVALID THEN {"closed"} ELSE {"", "refused", "timeout"}, Result("sendto", o, err)
        PROVE  ResultInv'
    <2>1. CASE err # ""
      BY <1>1, <1>4, <2>1, SaysNothing
    <2>2. CASE err = ""
      <3>1. fd # INVALID /\ obj'[o].fd = fd
        BY <1>1, <1>4, <2>2 DEF ObjType
      <3>2. Serves("sendto", obj'[o], file')
        BY <3>1 DEF Serves
      <3> QED
        BY <1>1, <1>4, <3>2, SaysWhatIs
    <2> QED
      BY <2>1, <2>2
  <1> QED
    BY <1>2, <1>3, <1>4

LEMMA unix_trybindResult ==
  ASSUME SocketInv, ResultInv, NEW o \in Objs, unix_trybind(o)
  PROVE  ResultInv'
  <1>1. act' = NoAct /\ file \in [Fds -> FileType] /\ obj[o].fd \in Fds \cup {INVALID}
    BY DEF unix_trybind, Begins, SocketInv, TypeInv, ObjType
  <1>2. PICK r \in socket_bind(file, obj[o].fd) :
          /\ file' = IF r.err = "" THEN r.file ELSE socket_destroy(r.file, obj[o].fd)
          /\ obj' = IF r.err = "" THEN obj ELSE [obj EXCEPT ![o].fd = INVALID]
          /\ Result("bind", o, r.err)
    BY DEF unix_trybind
  <1>3. CASE r.err = ""
    <2>1. obj' = obj /\ file' = r.file /\ obj[o].fd # INVALID /\ r.file[obj[o].fd].state = "bound"
      BY <1>1, <1>2, <1>3, BindBinds
    <2>2. Serves("bind", obj'[o], file')
      BY <2>1 DEF Serves
    <2> QED
      BY <1>1, <1>2, <2>2, SaysWhatIs
  <1>4. CASE r.err # ""
    BY <1>1, <1>2, <1>4, SaysNothing
  <1> QED
    BY <1>3, <1>4

LEMMA unix_tryconnectResult ==
  ASSUME SocketInv, ResultInv, NEW o \in Objs, unix_tryconnect(o)
  PROVE  ResultInv'
  <1>1. act' = NoAct /\ file \in [Fds -> FileType] /\ obj \in [Objs -> ObjType] /\ obj[o].fd \in Fds \cup {INVALID}
    BY DEF unix_tryconnect, Begins, SocketInv, TypeInv, ObjType
  <1>2. PICK r \in socket_connect(file, obj[o].fd, obj[o].zero) :
          /\ file' = IF r.err = "" THEN r.file ELSE socket_destroy(r.file, obj[o].fd)
          /\ obj' = [obj EXCEPT ![o].fd = IF r.err = "" THEN @ ELSE INVALID,
                                ![o].class = IF r.err # "" THEN @
                                             ELSE IF obj[o].kind = "unixstream" THEN "client" ELSE "connected"]
          /\ Result("connect", o, r.err)
    BY DEF unix_tryconnect
  <1>3. CASE r.err = ""
    <2> DEFINE class == IF obj[o].kind = "unixstream" THEN "client" ELSE "connected"
    <2>1. file' = r.file /\ obj[o].fd # INVALID /\ r.file[obj[o].fd].state = "connected"
      BY <1>1, <1>2, <1>3, ConnectConnects
    <2>2. obj' = [obj EXCEPT ![o].fd = obj[o].fd, ![o].class = class]
      BY <1>2, <1>3
    <2>3. class \in {"client", "connected"}
      OBVIOUS
    <2> HIDE DEF class
    <2>4. obj'[o].fd = obj[o].fd /\ obj'[o].class = class
      BY <1>1, <2>2 DEF ObjType
    <2>5. Serves("connect", obj'[o], file')
      BY <2>1, <2>3, <2>4 DEF Serves
    <2> QED
      BY <1>1, <1>2, <2>5, SaysWhatIs
  <1>4. CASE r.err # ""
    BY <1>1, <1>2, <1>4, SaysNothing
  <1> QED
    BY <1>3, <1>4

\* Only a connection under way changes by itself, and no call has said it is made.
LEMMA CompletesResult ==
  ASSUME SocketInv, ResultInv, Completes
  PROVE  ResultInv'
  <1>1. PICK d \in Fds : file[d].state = "connecting" /\
          \E state \in {"connected", "fresh"} : file' = [file EXCEPT ![d].state = state]
    BY DEF Completes
  <1>2. UNCHANGED <<obj, act, last>>
    BY DEF Completes
  <1>3. \A e \in Fds : e # d => file'[e] = file[e]
    BY <1>1 DEF SocketInv, TypeInv
  <1>4. ASSUME last.name # "none", last.err = "", act = NoAct, Live(last.o)
        PROVE  Serves(last.name, obj[last.o], file')
    <2>1. Serves(last.name, obj[last.o], file) /\ last.o \in Objs
      BY <1>4 DEF ResultInv
    <2>2. obj[last.o].fd # INVALID => obj[last.o].fd \in Fds
      BY <2>1 DEF SocketInv, TypeInv, ObjType
    <2> QED
      BY <1>1, <1>3, <2>1, <2>2 DEF Serves
  <1> QED
    BY <1>2, <1>4 DEF ResultInv, Live

LEMMA ResultInvStep == SocketInv /\ ResultInv /\ [ObjectsNext]_objectVars => ResultInv'
  <1> SUFFICES ASSUME SocketInv, ResultInv, [ObjectsNext]_objectVars PROVE ResultInv'
    OBVIOUS
  <1>1. ASSUME NEW o \in Objs, NEW kind \in Inet, NEW family, tcp_create(o, kind, family) PROVE ResultInv'
    <2>1. act' = NoAct /\ \E err : Result("create", o, err)
      BY <1>1 DEF tcp_create, Begins
    <2> QED
      BY <2>1, SaysNothing DEF Promising
  <1>2. ASSUME NEW o \in Objs, NEW kind \in Kinds, unix_create(o, kind) PROVE ResultInv'
    <2>1. act' = NoAct /\ \E err : Result("create", o, err)
      BY <1>2 DEF unix_create, Begins
    <2> QED
      BY <2>1, SaysNothing DEF Promising
  <1>3. ASSUME NEW o \in Objs, NEW zero \in BOOLEAN, settimeout(o, zero) PROVE ResultInv'
    BY <1>3, SaysNothing DEF settimeout, Begins, Promising
  <1>4. ASSUME NEW o \in Objs, NEW host, meth_connect(o, host) \/ meth_bind(o, host) PROVE ResultInv'
    BY <1>4, ResolvesResult DEF meth_connect, meth_bind, Begins
  <1>5. ASSUME NEW o \in Objs, meth_close(o) \/ meth_setpeername(o) \/ meth_receive(o) PROVE ResultInv'
    <2>1. act' = NoAct
      BY <1>5 DEF meth_close, meth_setpeername, meth_receive, Begins
    <2>2. CASE meth_close(o)
      BY <2>1, <2>2, SaysNothing DEF meth_close, Promising
    <2>3. CASE meth_setpeername(o)
      BY <2>1, <2>3, SaysNothing DEF meth_setpeername, Promising
    <2>4. CASE meth_receive(o)
      <3>1. \E err : Result("receive", o, err)
        BY <2>4 DEF meth_receive
      <3> QED
        BY <2>1, <3>1, SaysNothing DEF Promising
    <2> QED
      BY <1>5, <2>2, <2>3, <2>4
  <1>6. CASE UNCHANGED objectVars
    BY <1>6 DEF objectVars, ResultInv, Live
  <1> QED
    BY <1>1, <1>2, <1>3, <1>4, <1>5, <1>6, GlobalConnectResult, meth_sendtoResult, unix_trybindResult,
       unix_tryconnectResult, meth_listenResult, meth_acceptResult, TryAddressResult, CompletesResult DEF ObjectsNext

\* What a call that succeeds says of its socket holds until the next call:
\* connected, bound, listening, of the right class (tcp.c, udp.c,
\* unixstream.c, unixdgram.c, inet.c).
THEOREM CallsSayWhatIs == ObjectsSpec => []ResultsAreTrue
  <1>1. ObjectsInit => SocketInv /\ ResultInv
    <2> SUFFICES ASSUME ObjectsInit PROVE SocketInv /\ ResultInv
      OBVIOUS
    <2>1. last.name = "none" /\ act = NoAct
      BY DEF ObjectsInit
    <2> QED
      BY <2>1, SocketInvInit, NothingNamed DEF ResultInv
  <1>2. SocketInv /\ ResultInv /\ [ObjectsNext]_objectVars => SocketInv' /\ ResultInv'
    BY SocketInvStep, ResultInvStep
  <1>3. ResultInv => ResultsAreTrue
    BY DEF ResultInv, ResultsAreTrue, Serves
  <1> QED
    BY <1>1, <1>2, <1>3, PTL DEF ObjectsSpec
================================================================================
