------------------------------ MODULE SocketOptions ------------------------------
(* setoption and getoption of LuaSocket's objects (options.c and the option   *)
(* tables of tcp.c, udp.c, unixstream.c and unixdgram.c): the argument is     *)
(* checked, turned into the system's value and written to one option of the   *)
(* socket. An argument is <<type, value>>, the fields of a table arguments.   *)
EXTENDS Integers, Sequences, FiniteSets

CONSTANTS
  Arguments,  \* the arguments of setoption
  Addresses,  \* the strings that are addresses
  MaxSets     \* bound: options set

USHRT == 65536

VARIABLES
  options    \* [class, kernel, sets]: the socket's options and the calls made

-----------------------------------------------------------------------------
(* The names, by what they take *)

Booleans == {"keepalive", "reuseaddr", "reuseport", "tcp-nodelay", "dontroute", "broadcast", "ip-multicast-loop",
             "ipv6-multicast-loop", "ipv6-v6only"}
Numbers == {"tcp-keepidle", "tcp-keepcnt", "tcp-keepintvl", "recv-buffer-size", "send-buffer-size",
            "ip-multicast-ttl", "ipv6-unicast-hops", "ipv6-multicast-hops"}
Memberships == {"ip-add-membership", "ip-drop-membership", "ipv6-add-membership", "ipv6-drop-membership"}

tcpOptset == {"keepalive", "reuseaddr", "reuseport", "tcp-nodelay", "tcp-keepidle", "tcp-keepcnt", "tcp-keepintvl",
              "ipv6-v6only", "linger", "recv-buffer-size", "send-buffer-size"}
tcpOptget == tcpOptset \ {"ipv6-v6only"}
udpOptset == {"dontroute", "broadcast", "reuseaddr", "reuseport", "ip-multicast-if", "ip-multicast-ttl",
              "ip-multicast-loop", "ipv6-unicast-hops", "ipv6-multicast-hops", "ipv6-multicast-loop",
              "ipv6-v6only", "recv-buffer-size", "send-buffer-size"} \cup Memberships
udpOptget == udpOptset \ (Memberships \cup {"ip-multicast-ttl"})
Settable(class) == CASE class = "tcp"        -> tcpOptset
                     [] class = "udp"        -> udpOptset
                     [] class = "unixstream" -> {"keepalive", "reuseaddr", "linger"}
                     [] class = "unixdgram"  -> {"reuseaddr"}
Gettable(class) == IF class = "tcp" THEN tcpOptget ELSE IF class = "udp" THEN udpOptget ELSE {}

\* The system's option a name stands for. The multicast hops are the unicast
\* ones: both names of udp's tables have the same functions.
\* Fault: the buffer sizes are one option.
BuffersAlike(name) == IF name = "send-buffer-size" THEN "recv-buffer-size" ELSE name
SystemOption(name) == CASE name = "ipv6-multicast-hops"                             -> "ipv6-unicast-hops"
                        [] name \in {"ip-add-membership", "ip-drop-membership"}     -> "ip-membership"
                        [] name \in {"ipv6-add-membership", "ipv6-drop-membership"} -> "ipv6-membership"
                        [] OTHER                                                    -> name

-----------------------------------------------------------------------------
(* Values: <<>> when the argument is refused with an error *)

Address(a) == IF a[1] # "string" THEN <<>> ELSE IF a[2] = "*" THEN <<"any">>
              ELSE IF a[2] \in Addresses THEN <<a[2]>> ELSE <<>>
opt_setboolean(a) == IF a[1] = "boolean" THEN <<a[2]>> ELSE <<>>
\* What is no number counts as zero.
opt_setint(a) == IF a[1] = "number" THEN <<a[2]>> ELSE <<0>>
opt_set_linger(a) ==
  IF a[1] # "table" \/ a[2].on[1] # "boolean" \/ a[2].timeout[1] # "number" THEN <<>>
  ELSE <<a[2].on[2], a[2].timeout[2] % USHRT>>
opt_setmembership(a) ==
  IF a[1] # "table" \/ Address(a[2].multiaddr) \in {<<>>, <<"any">>} \/ Address(a[2].interface) = <<>> THEN <<>>
  ELSE Address(a[2].multiaddr) \o Address(a[2].interface)
opt_ip6_setmembership(a) ==
  IF a[1] # "table" \/ Address(a[2].multiaddr) \in {<<>>, <<"any">>} THEN <<>>
  ELSE CASE a[2].interface[1] = "nil"    -> Address(a[2].multiaddr) \o <<"default">>
         [] a[2].interface[1] = "number" -> Address(a[2].multiaddr) \o <<"numbered">>
         [] OTHER                        -> <<>>

OptionValue(name, a) == CASE name \in Booleans               -> opt_setboolean(a)
                          [] name \in Numbers                -> opt_setint(a)
                          [] name = "linger"                 -> opt_set_linger(a)
                          [] name = "ip-multicast-if"        -> Address(a)
                          [] name \in {"ip-add-membership", "ip-drop-membership"} -> opt_setmembership(a)
                          [] OTHER                           -> opt_ip6_setmembership(a)

-----------------------------------------------------------------------------
OptionsInit == \E class \in {"tcp", "udp", "unixstream", "unixdgram"} :
  options = [class |-> class, sets |-> <<>>,
             kernel |-> [o \in {SystemOption(name) : name \in tcpOptset \cup udpOptset} |-> <<>>]]

\* A group is joined once and left only by a member. The system may refuse any
\* option, and refuses them all on a closed socket.
opt_set(name, value) ==
  LET o == SystemOption(name)
      was == options.kernel[o]
      now == IF name \in {"ip-drop-membership", "ipv6-drop-membership"} THEN <<>> ELSE value
      possible == CASE name \in {"ip-add-membership", "ipv6-add-membership"}   -> was = <<>>
                    [] name \in {"ip-drop-membership", "ipv6-drop-membership"} -> was = value
                    [] OTHER -> TRUE
  IN  {[ok |-> FALSE, kernel |-> options.kernel]} \cup
      {[ok |-> TRUE, kernel |-> [options.kernel EXCEPT ![o] = now]] : ok \in {possible} \ {FALSE}}

opt_meth_setoption(name, a) ==
  LET value == OptionValue(name, a)
      refused == name \notin Settable(options.class) \/ value = <<>>
  IN  /\ Len(options.sets) < MaxSets
      /\ \E r \in IF refused THEN {[ok |-> FALSE, kernel |-> options.kernel]} ELSE opt_set(name, value) :
           options' = [options EXCEPT !.kernel = r.kernel,
                                      !.sets = Append(@, [name |-> name, value |-> value, ok |-> r.ok])]

opt_meth_getoption(name) == options.kernel[SystemOption(name)]

OptionsNext == \E name \in tcpOptset \cup udpOptset, a \in Arguments : opt_meth_setoption(name, a)

OptionsSpec == OptionsInit /\ [][OptionsNext]_options

-----------------------------------------------------------------------------
\* An option reads as it was last set by its name, whatever other options were
\* set or refused since, but for the two names of the hops; and no option of
\* another class of object can be set (options.c).
OptionsReadBack ==
  LET sets == options.sets
      hops(name) == name \in {"ipv6-unicast-hops", "ipv6-multicast-hops"}
      by(name) == {i \in DOMAIN sets : sets[i].ok /\ (sets[i].name = name \/ (hops(name) /\ hops(sets[i].name)))}
  IN  /\ \A name \in Gettable(options.class) :
           by(name) # {} => opt_meth_getoption(name)
                              = sets[CHOOSE i \in by(name) : \A j \in by(name) : j <= i].value
      /\ \A i \in DOMAIN sets : sets[i].ok => sets[i].name \in Settable(options.class)
=============================================================================
