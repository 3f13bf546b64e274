--------------------------- MODULE Ser2netImport ---------------------------
(***************************************************************************)
(* app/ser2net_import.py: a configuration of the classic ser2net becomes   *)
(* mappings.  The file is read entry by entry (_Yaml for ser2net.yaml, _V3 *)
(* for ser2net.conf); every connection passes through _listen_address, the *)
(* serial settings, the options and _finish, and _assemble decides at the  *)
(* end what is kept, renamed and switched off.  Texts are left out: an     *)
(* entry is a record of its parts, a token a key with its value, and a     *)
(* warning the connection's number in the file with what it is about.      *)
(***************************************************************************)
EXTENDS Naturals, Sequences, SequencesExt, FiniteSets

CONSTANTS
    YamlEntries,   \* entries a ser2net.yaml may have
    ConfEntries,   \* lines a ser2net.conf may have
    MaxEntries,    \* bound: entries of one file
    MaxTimer       \* MAX_TIMER_S: 30 days

VARIABLES
    siStage,       \* "choose", "yaml" or "conf" while reading, then "done"
    siLines,       \* entries read
    siDefaults,    \* serial_defaults and option_defaults, or _V3.defaults
    siNames,       \* _V3.devices and _V3.strings: name -> device or kind of text
    siConns,       \* conns
    siWarned,      \* warnings
    siOut,         \* the mappings
    siRead         \* every connection of the file with the defaults it was read under

siVars == <<siStage, siLines, siDefaults, siNames, siConns, siWarned, siOut, siRead>>

ClientIps == {"10.0.0.1", "10.0.0.2"}      \* entries of remaddr that are IP addresses

(* A fresh _Conn: the n-th connection of the file.                         *)
Conn(n, name) ==
    [n |-> n, name |-> name, on |-> TRUE, dev |-> "", speed |-> 9600, flow |-> {},
     port |-> 0, ip |-> "0.0.0.0", udp |-> FALSE, proto |-> "raw", max |-> 1, ro |-> FALSE,
     given |-> FALSE, allowed |-> {}, hold |-> FALSE, timer |-> 0, remctl |-> FALSE,
     notes |-> {}, skipped |-> FALSE]

Note(c, what) == [c EXCEPT !.notes = @ \cup {what}]
Skip(c)       == [c EXCEPT !.skipped = TRUE]

-----------------------------------------------------------------------------
(* Where it listens.                                                       *)

(* _bind_ip; "ipv6" stands for the family without a host, "name" for an    *)
(* address that cannot be bound here.                                      *)
BindIp(c, host) ==
    CASE host = ""          -> [c EXCEPT !.ip = "0.0.0.0"]
      [] host = "ipv6"      -> [c EXCEPT !.ip = "::"]
      [] host = "localhost" -> [c EXCEPT !.ip = "127.0.0.1"]
      [] host = "::1"       -> Note([c EXCEPT !.ip = "127.0.0.1"], "loopback")
      [] host = "name"      -> [c EXCEPT !.ip = "0.0.0.0", !.hold = TRUE]
      [] OTHER              -> [c EXCEPT !.ip = host]

(* _listen_address; port 0 is one that is missing or no port number.       *)
ListenAddress(c, host, port) ==
    IF port = 0 THEN Skip(c) ELSE BindIp([c EXCEPT !.port = port], host)

(* One layer above the transport, in _accepter.                            *)
Layer(c, l) ==
    CASE l \in {"telnet", "rfc2217"} -> [c EXCEPT !.proto = l]
      [] l = "mux"                   -> c
      [] OTHER                       -> Note(c, l)

Accepter(c, e) ==
    LET d == FoldLeft(Layer, c, e.layers)
    IN  CASE e.end = "udp"  -> ListenAddress([d EXCEPT !.udp = TRUE], e.host, e.port)
          [] e.end = "sctp" -> ListenAddress(Note(d, "sctp"), e.host, e.port)
          [] e.end = "tcp"  -> ListenAddress(d, e.host, e.port)
          [] OTHER          -> Skip(d)

-----------------------------------------------------------------------------
(* Serial settings and options.                                            *)

Flow(c, key, on) == [c EXCEPT !.flow = IF on THEN @ \cup {key} ELSE @ \ {key}]

(* _serial_option.                                                         *)
SerialOption(c, t) ==
    CASE t.key = "speed"                 -> [c EXCEPT !.speed = t.num]
      [] t.key \in {"rtscts", "xonxoff"} -> Flow(c, t.key, t.on)
      [] t.key = "rdonly"                -> [c EXCEPT !.ro = @ \/ t.on]
      [] OTHER                           -> Note(c, t.key)

(* _connector: the device and its settings, the defaults first.            *)
Connector(c, e) ==
    IF e.con # "serialdev" \/ e.dev = "" THEN Skip(c)
    ELSE FoldLeft(SerialOption, [c EXCEPT !.dev = e.dev],
                  SetToSeq({t \in siDefaults : t.cls = "serial"}) \o e.serial)

(* _remaddr; what is no IP address is noted and left out.                  *)
Remaddr(c, addrs) ==
    LET d == [c EXCEPT !.given = TRUE, !.allowed = @ \cup (addrs \cap ClientIps)]
    IN  IF addrs \subseteq ClientIps THEN d ELSE Note(d, "remaddr")

IdleTimeout(c, t) ==
    LET d == [c EXCEPT !.timer = IF t > MaxTimer THEN MaxTimer ELSE t]
    IN  IF t > MaxTimer THEN Note(d, "timeout") ELSE d

(* _option; a text with escapes that are not supported is noted by _convert*)
Option(c, t) ==
    CASE t.key = "timeout"         -> IdleTimeout(c, t.num)
      [] t.key = "max-connections" -> IF t.num >= 1 THEN [c EXCEPT !.max = t.num] ELSE Note(c, t.key)
      [] t.key = "remaddr"         -> Remaddr(c, t.addrs)
      [] t.key = "no-acc-to-con"   -> [c EXCEPT !.ro = @ \/ t.on]
      [] t.key = "banner"          -> IF t.on THEN Note(c, t.key) ELSE c
      [] OTHER                     -> Note(c, t.key)

(* _finish: what depends on the whole connection.                          *)
Finish(c) ==
    LET a == IF c.flow = {"rtscts", "xonxoff"}
             THEN Note([c EXCEPT !.flow = {"rtscts"}], "flow") ELSE c
        b == IF a.udp /\ a.proto # "raw" THEN Note([a EXCEPT !.proto = "raw"], "udp") ELSE a
        d == IF b.proto = "rfc2217" /\ b.max > 1 THEN Note([b EXCEPT !.max = 1], "max") ELSE b
        h == d.hold \/ (d.given /\ d.allowed = {})
    IN  IF h THEN Note([d EXCEPT !.hold = TRUE, !.on = FALSE], "held") ELSE d

-----------------------------------------------------------------------------
(* Reading the file.                                                       *)

Reading(stage) == siStage = stage /\ siLines < MaxEntries /\ siLines' = siLines + 1
Warn(what) == siWarned' = siWarned \cup {<<0, what>>}
N          == Len(siRead) + 1

(* What connection() and port() do at the end: keep it or say why not.     *)
Keep(e, c) ==
    /\ siRead' = Append(siRead, [e |-> e, d |-> siDefaults])
    /\ siConns' = IF c.skipped THEN siConns ELSE Append(siConns, c)
    /\ siWarned' = siWarned \cup ({c.n} \X (IF c.skipped THEN {"skipped"} ELSE c.notes))
    /\ UNCHANGED <<siStage, siDefaults, siNames, siOut>>

(* _Yaml.settings.                                                         *)
Settings(c, e) ==
    LET d == IF e.enable = "junk" THEN Note(c, "enable") ELSE c
    IN  FoldLeft(Option, [d EXCEPT !.on = e.enable = "on"],
                 SetToSeq({t \in siDefaults : t.cls = "option"}) \o e.opts)

(* _Yaml.connection.                                                       *)
SiConnection(e) ==
    /\ Reading("yaml") /\ e.k = "connection"
    /\ LET a == Accepter(Conn(N, <<e.name>>), e)
           b == IF e.name = "" THEN [a EXCEPT !.name = <<"ser2net", 0, a.port>>] ELSE a
           c == IF a.skipped THEN a ELSE Connector(b, e)
       IN  Keep(e, IF c.skipped THEN c ELSE Finish(Settings(c, e)))

(* _Yaml.default: a default for a serial device, for a connection, for     *)
(* another gensio (does not apply) or without an equivalent.               *)
SetDefault(t, cls) ==
    siDefaults' = {d \in siDefaults : d.key # t.key} \cup {[cls |-> cls] @@ t}

SerialKeys == {"speed", "rtscts", "xonxoff"}
OptionKeys == {"max-connections", "remaddr"}

SiDefault(e) ==
    /\ Reading("yaml") /\ e.k = "default"
    /\ LET serial == e.tok.key \in SerialKeys /\ e.cls \in {"", "serialdev"}
           option == e.tok.key \in OptionKeys /\ e.cls \in {"", "ser2net"}
       IN  \/ serial /\ SetDefault(e.tok, "serial") /\ UNCHANGED siWarned
           \/ option /\ SetDefault(e.tok, "option") /\ UNCHANGED siWarned
           \/ ~serial /\ ~option /\ e.cls # "ssl" /\ Warn("default") /\ UNCHANGED siDefaults
           \/ e.cls = "ssl" /\ UNCHANGED <<siDefaults, siWarned>>
    /\ UNCHANGED <<siStage, siNames, siConns, siOut, siRead>>

(* _Yaml.delete_default.                                                   *)
SiDeleteDefault(e) ==
    /\ Reading("yaml") /\ e.k = "delete_default"
    /\ siDefaults' = {d \in siDefaults : d.key # e.key}
    /\ UNCHANGED <<siStage, siNames, siConns, siWarned, siOut, siRead>>

(* What else _Yaml.entry meets is reported: rotators, admin, include.      *)
SiOther(e) ==
    /\ Reading("yaml") /\ e.k = "other" /\ Warn("other")
    /\ UNCHANGED <<siStage, siDefaults, siNames, siConns, siOut, siRead>>

(* _V3.default and _V3.token: the same options under their 3.x names.      *)
V3Token(c, t) ==
    CASE t.key = "remctl" -> [c EXCEPT !.remctl = t.on]
      [] t.key \in SerialKeys -> SerialOption(c, t)
      [] t.key \in OptionKeys -> Option(c, t)
      [] <<"text", t.key>> \in DOMAIN siNames ->
            IF siNames[<<"text", t.key>>] = "RS485CONF" THEN Note(c, "rs485") ELSE c
      [] OTHER -> Note(c, "unknown")

V3Default(c, t) == IF t.key = "remaddr" /\ t.addrs = {} THEN c ELSE V3Token(c, t)

(* _V3.settings.                                                           *)
V3Settings(c, e) ==
    LET a == [c EXCEPT !.on = e.state # "off",
                       !.proto = IF e.state = "telnet" THEN "telnet" ELSE "raw"]
        b == IdleTimeout(IF e.state = "rawlp" THEN Note(a, "rawlp") ELSE a, e.timeout)
        d == FoldLeft(V3Token, FoldLeft(V3Default, b, SetToSeq(siDefaults)), e.opts)
    IN  IF ~d.remctl THEN d
        ELSE IF e.state = "telnet" THEN [d EXCEPT !.proto = "rfc2217"] ELSE Note(d, "remctl")

(* _V3.port; "sol" is an IPMI connection, and a DEVICE line may name the   *)
(* device.                                                                 *)
SiPort(e) ==
    /\ Reading("conf") /\ e.k = "port"
    /\ LET dev  == IF <<"device", e.dev>> \in DOMAIN siNames THEN siNames[<<"device", e.dev>>] ELSE e.dev
           name == <<IF e.udp THEN "ser2net-udp" ELSE "ser2net", 0, e.port>>
           a    == ListenAddress([Conn(N, name) EXCEPT !.udp = e.udp, !.dev = dev], e.host, e.port)
       IN  Keep(e, IF a.skipped \/ dev \in {"", "sol"} THEN Skip(a) ELSE Finish(V3Settings(a, e)))

(* _V3.directive: DEFAULT, DEVICE and the named texts, the rest reported.  *)
SiDirective(e) ==
    /\ Reading("conf")
    /\ \/ /\ e.k = "DEFAULT"
          /\ IF e.tok.key \in SerialKeys \cup OptionKeys \cup {"remctl"}
             THEN SetDefault(e.tok, "conf") /\ UNCHANGED siWarned
             ELSE Warn("DEFAULT") /\ UNCHANGED siDefaults
          /\ UNCHANGED siNames
       \/ /\ e.k \in {"DEVICE", "RS485CONF", "LED"}
          /\ siNames' = (IF e.k = "DEVICE" THEN <<"device", e.name>> :> e.dev
                         ELSE <<"text", e.name>> :> e.k) @@ siNames
          /\ IF e.k = "LED" THEN Warn("LED") ELSE UNCHANGED siWarned
          /\ UNCHANGED siDefaults
       \/ e.k = "CONTROLPORT" /\ Warn("CONTROLPORT") /\ UNCHANGED <<siDefaults, siNames>>
    /\ UNCHANGED <<siStage, siConns, siOut, siRead>>

-----------------------------------------------------------------------------
(* _assemble.                                                              *)

(* MappingConfig.validate, for what an imported connection can get wrong.  *)
Validates(c) ==
    /\ c.dev # "" /\ c.speed > 0 /\ c.port > 0 /\ c.max >= 1 /\ c.timer <= MaxTimer
    /\ c.proto = "rfc2217" => ~c.udp /\ c.max = 1


(* _ip_overlaps of app/config.py.                                          *)
IpOverlaps(a, b) == a = b \/ {a, b} \cap {"0.0.0.0", "::"} # {}

Clash(a, b) == a.port = b.port /\ a.udp = b.udp /\ IpOverlaps(a.ip, b.ip)

(* First pass: what validates and listens where no earlier one does.       *)
Admit(acc, c) ==
    IF Validates(c) /\ \A i \in DOMAIN acc.kept : ~Clash(acc.kept[i], c)
    THEN [acc EXCEPT !.kept = Append(@, c)]
    ELSE [acc EXCEPT !.warned = @ \cup {<<c.n, "skipped">>}]

(* "a", "a (2)", "a (3)", ...: the first that is not used.                 *)
Unused(name, used) ==
    IF name \notin used THEN name
    ELSE Append(name, CHOOSE k \in 2 .. Cardinality(used) + 2 :
                        /\ Append(name, k) \notin used
                        /\ \A j \in 2 .. k - 1 : Append(name, j) \in used)

(* Second pass: unique names, one enabled mapping for each device.         *)
Place(acc, c) ==
    LET name  == Unused(c.name, {acc.out[i].name : i \in DOMAIN acc.out})
        taken == c.on /\ \E i \in DOMAIN acc.out : acc.out[i].on /\ acc.out[i].dev = c.dev
    IN  [out    |-> Append(acc.out, [c EXCEPT !.name = name, !.on = c.on /\ ~taken]),
         warned |-> acc.warned \cup (IF name # c.name THEN {<<c.n, "renamed">>} ELSE {})
                               \cup (IF taken THEN {<<c.n, "disabled">>} ELSE {})]

SiAssemble ==
    /\ siStage \in {"yaml", "conf"} /\ siRead # <<>>
    /\ LET first  == FoldLeft(Admit, [kept |-> <<>>, warned |-> siWarned], siConns)
           second == FoldLeft(Place, [out |-> <<>>, warned |-> first.warned], first.kept)
       IN  siOut' = second.out /\ siWarned' = second.warned
    /\ siStage' = "done"
    /\ UNCHANGED <<siLines, siDefaults, siNames, siConns, siRead>>

(* parse_ser2net_config tells the two kinds of file apart.                 *)
SiOpen ==
    /\ siStage = "choose" /\ siStage' \in {"yaml", "conf"}
    /\ UNCHANGED <<siLines, siDefaults, siNames, siConns, siWarned, siOut, siRead>>

SiInit ==
    /\ siStage = "choose" /\ siLines = 0 /\ siDefaults = {} /\ siNames = [x \in {} |-> ""]
    /\ siConns = <<>> /\ siWarned = {} /\ siOut = <<>> /\ siRead = <<>>

SiNext ==
    \/ SiOpen
    \/ \E e \in YamlEntries : SiConnection(e) \/ SiDefault(e) \/ SiDeleteDefault(e) \/ SiOther(e)
    \/ \E e \in ConfEntries : SiPort(e) \/ SiDirective(e)
    \/ SiAssemble

-----------------------------------------------------------------------------
(* Properties.                                                             *)

(* The interfaces of the host that an address stands for, in the file and  *)
(* in a mapping.                                                           *)
Interfaces(addr) ==
    CASE addr \in {"", "0.0.0.0"}            -> {"lo", "eth"}
      [] addr \in {"ipv6", "::"}             -> {"lo", "eth", "lo6", "eth6"}
      [] addr \in {"localhost", "127.0.0.1"} -> {"lo"}
      [] addr = "::1"                        -> {"lo6"}
      [] addr = "name"                       -> {}
      [] OTHER                               -> {"eth"}

FromOthers(addr) == Interfaces(addr) \ {"lo", "lo6"}

(* Whom the file lets in: the addresses of its remaddr options.            *)
Remaddrs(r) ==
    LET ts == {t \in r.d \cup {r.e.opts[i] : i \in DOMAIN r.e.opts} : t.key = "remaddr"}
    IN  IF r.e.k = "port" THEN {t \in ts : t.addrs # {}} ELSE ts

ReadOnlyIn(e) ==
    e.k = "connection" /\ \E i \in DOMAIN (e.serial \o e.opts) :
        LET t == (e.serial \o e.opts)[i] IN t.key \in {"rdonly", "no-acc-to-con"} /\ t.on

EnabledIn(e) == IF e.k = "port" THEN e.state # "off" ELSE e.enable = "on"

(* The mappings can be saved as they come: each one validates, names are   *)
(* unique, no two listen on one transport, port and interface, and no two  *)
(* enabled ones use one device.                                            *)
ImportValid ==
    /\ \A i \in DOMAIN siOut : Validates(siOut[i])
    /\ \A i, j \in DOMAIN siOut : i # j =>
         LET a == siOut[i]  b == siOut[j]
         IN  /\ a.name # b.name
             /\ a.on /\ b.on => a.dev # b.dev
             /\ <<a.port, a.udp>> = <<b.port, b.udp>> => Interfaces(a.ip) \cap Interfaces(b.ip) = {}

(* "Never wider than ser2net listened": an enabled mapping can be reached  *)
(* over no interface and by no client that the file kept out, and what the *)
(* file made read-only stays read-only.                                    *)
ImportNotWider ==
    \A i \in DOMAIN siOut :
        LET c == siOut[i]  r == siRead[c.n]
        IN  c.on => /\ EnabledIn(r.e)
                    /\ FromOthers(c.ip) \subseteq FromOthers(r.e.host)
                    /\ Remaddrs(r) # {} => /\ c.allowed # {}
                                           /\ c.allowed \subseteq UNION {t.addrs : t \in Remaddrs(r)}
                    /\ ReadOnlyIn(r.e) => c.ro

(* Nothing is lost silently: a connection of the file is a mapping or was  *)
(* reported as skipped, and one that came in switched off though the file  *)
(* had it on was reported, and has a reason.                               *)
ImportAccounted ==
    siStage = "done" =>
        /\ \A n \in DOMAIN siRead :
             (\E i \in DOMAIN siOut : siOut[i].n = n) <=> <<n, "skipped">> \notin siWarned
        /\ \A i \in DOMAIN siOut :
             LET c == siOut[i]
             IN  EnabledIn(siRead[c.n].e) /\ ~c.on =>
                   \/ c.hold /\ <<c.n, "held">> \in siWarned
                   \/ /\ <<c.n, "disabled">> \in siWarned
                      /\ \E j \in 1 .. i - 1 : siOut[j].on /\ siOut[j].dev = c.dev


=============================================================================
