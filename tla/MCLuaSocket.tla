------------------------------ MODULE MCLuaSocket ------------------------------
(* The parts of LuaSocket side by side: a behaviour moves one part, the others *)
(* stay as they begin.  The two stream sockets of SocketStream are objects as  *)
(* SocketObjects makes them.                                                   *)
EXTENDS SocketStream, SocketObjects, SocketOptions, Mime, TLC

VARIABLE part     \* the part that moves

socketVars == <<part, streamVars, objectVars, options, mime>>

--------------------------------------------------------------------------------
(* The peer of p sends a line and a rest without an end, that of q only closes.*)
MCStream == "p" :> <<"x", LF, "y">> @@ "q" :> <<>>
MCMessage == "p" :> <<1, 2>> @@ "q" :> <<>>
MCReceivePatterns == {0, 2, Line, All}
MCTimeouts == {-1, 0, 1}

(* A host with addresses of both families, and one with a single address.      *)
MCHosts == "both" :> <<"inet", "inet6", "inet">> @@ "four" :> <<"inet">>

(* Texts of up to four characters of those that filters treat apart, and some  *)
(* longer ones, with zeros and bytes above 127.                                *)
MCMimeTexts ==
  UNION {[1 .. n -> {Byte.cr, Byte.lf, Byte.space, Byte.eq, Byte.dot, 65}] : n \in 0 .. 4}
  \cup {<<0>>, <<0, 1>>, <<255, 0, 128>>, <<255, 254, 253, 252, 251>>, <<65, 0, Byte.tab, Byte.cr, Byte.lf>>,
        <<Byte.space, Byte.space, Byte.cr, Byte.lf, Byte.space>>, <<65, 66, 67, 68, 69, 70, Byte.eq, 71, 72>>}

(* Arguments of every Lua type; numbers that fit into 16 bits and not; tables  *)
(* for linger, multicast and membership.                                       *)
LOCAL NilArg == <<"nil", 0>>
LOCAL BoolArg(b) == <<"boolean", b>>
LOCAL NumArg(n) == <<"number", n>>
LOCAL StrArg(text) == <<"string", text>>
LOCAL TableArg(on, time, multi, interface) ==
  <<"table", [on |-> on, timeout |-> time, multiaddr |-> multi, interface |-> interface]>>
MCArguments ==
  {BoolArg(0), BoolArg(1), NumArg(2), NumArg(65537), StrArg("g"), StrArg("*"), StrArg("text"),
   TableArg(BoolArg(1), NumArg(65537), StrArg("g"), StrArg("g")),
   TableArg(NilArg, NumArg(1), StrArg("g"), NilArg),
   TableArg(BoolArg(0), NilArg, StrArg("h"), StrArg("*")),
   TableArg(BoolArg(0), NumArg(3), StrArg("*"), NumArg(1)),
   TableArg(NilArg, NilArg, StrArg("g"), NumArg(1))}

--------------------------------------------------------------------------------
(* A part at rest is in one of its initial states.                             *)
NoOptions == [class |-> "tcp", sets |-> <<>>, kernel |-> [o \in {SystemOption(name) : name \in tcpOptset \cup udpOptset} |-> <<>>]]
NoText == [filter |-> "eol", plain |-> <<>>, pos |-> 0, ctx |-> StartContext("eol"), out |-> <<>>, ended |-> FALSE,
           text |-> <<>>]

SocketInit ==
  /\ part \in {"stream", "objects", "options", "mime"}
  /\ StreamInit
  /\ ObjectsInit
  /\ IF part = "options" THEN OptionsInit ELSE options = NoOptions
  /\ IF part = "mime" THEN MimeInit ELSE mime = NoText

SocketNext ==
  /\ UNCHANGED part
  /\ \/ part = "stream" /\ StreamNext /\ UNCHANGED <<objectVars, options, mime>>
     \/ part = "objects" /\ ObjectsNext /\ UNCHANGED <<streamVars, options, mime>>
     \/ part = "options" /\ OptionsNext /\ UNCHANGED <<streamVars, objectVars, mime>>
     \/ part = "mime" /\ MimeNext /\ UNCHANGED <<streamVars, objectVars, options>>

SocketSpec == SocketInit /\ [][SocketNext]_socketVars
================================================================================
