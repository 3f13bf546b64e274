----------------------------- MODULE MCReaders -----------------------------
(***************************************************************************)
(* The parts that read what others wrote: configuration files, byte        *)
(* streams and messages.  They share no state, so a behaviour runs one of  *)
(* them, chosen at the start, and leaves the others where they begin.      *)
(***************************************************************************)
EXTENDS Ser2netImport, Importer, Streams, ModbusFrames, SparkplugCodec

VARIABLE reader

Num(key, n)   == [key |-> key, num |-> n]
Flag(key, on) == [key |-> key, on |-> on]
From(addrs)   == [key |-> "remaddr", addrs |-> addrs]

(* A plain connection, and every part of it varied.                        *)
Plain(name, port, dev) ==
    [k |-> "connection", name |-> name, layers |-> <<>>, end |-> "tcp", host |-> "", port |-> port,
     con |-> "serialdev", dev |-> dev, serial |-> <<>>, enable |-> "on", opts |-> <<>>]
Usual == Plain("a", 1, "d1")
OptionLists ==
    {<<Num("timeout", 9)>>, <<Num("max-connections", 0)>>, <<From({"10.0.0.1"})>>,
     <<From({"10.0.0.2", "host"})>>, <<From({"host"})>>, <<From({})>>,
     <<Flag("no-acc-to-con", TRUE)>>, <<Flag("banner", TRUE), Flag("chardelay-max", TRUE)>>}
Connections ==
    {Plain(n, p, d) : n \in {"a", ""}, p \in {1, 2}, d \in {"d1", "d2"}}
    \cup {[Usual EXCEPT !.end = x] : x \in {"udp", "sctp", "unix"}}
    \cup {[Usual EXCEPT !.host = x] : x \in {"ipv6", "localhost", "::1", "10.0.0.9", "name"}}
    \cup {[Usual EXCEPT !.port = 0], [Usual EXCEPT !.con = "net"], [Usual EXCEPT !.dev = ""]}
    \cup {[Usual EXCEPT !.enable = x] : x \in {"off", "junk"}}
    \cup {[Usual EXCEPT !.layers = <<"ssl", "telnet">>],
          [Usual EXCEPT !.layers = <<"rfc2217">>, !.end = "udp"],
          [Usual EXCEPT !.layers = <<"rfc2217">>, !.opts = <<Num("max-connections", 2)>>]}
    \cup {[Usual EXCEPT !.serial = x] :
            x \in {<<Num("speed", 0)>>, <<Flag("rtscts", TRUE), Flag("xonxoff", TRUE)>>,
                   <<Flag("rdonly", TRUE)>>}}
    \cup {[Usual EXCEPT !.opts = x, !.port = 2] : x \in OptionLists}
Yaml ==
    Connections
    \cup {[k |-> "default", cls |-> x, tok |-> t] :
            x \in {"", "serialdev", "ser2net", "ssl"}, t \in {Num("speed", 0), From({"10.0.0.2"})}}
    \cup {[k |-> "delete_default", key |-> "speed"], [k |-> "other"]}

Line(port, dev) ==
    [k |-> "port", udp |-> FALSE, host |-> "", port |-> port, state |-> "raw", timeout |-> 0,
     dev |-> dev, opts |-> <<>>]
Conf ==
    {Line(p, d) : p \in {0, 1, 2}, d \in {"d1", "d2", "sol", ""}}
    \cup {[Line(1, "d1") EXCEPT !.state = x, !.opts = o, !.udp = u] :
            x \in {"telnet", "off", "rawlp"}, u \in BOOLEAN,
            o \in {<<Flag("remctl", TRUE)>>, <<Flag("-", TRUE), Num("max-connections", 2)>>,
                   <<Flag("t", TRUE), From({"host"})>>}}
    \cup {[Line(2, "d1") EXCEPT !.host = x, !.timeout = 9] : x \in {"name", "localhost"}}
    \cup {[k |-> "DEFAULT", tok |-> t] :
            t \in {From({}), From({"10.0.0.1"}), Flag("remctl", TRUE), Flag("led-rx", TRUE)}}
    \cup {[k |-> "DEVICE", name |-> "d2", dev |-> "d1"], [k |-> "RS485CONF", name |-> "t"],
          [k |-> "LED", name |-> "t"], [k |-> "CONTROLPORT"]}

-----------------------------------------------------------------------------
Mapping(i, n, d) == [id |-> i, name |-> n, dev |-> d]
TwoMappings == <<Mapping(1, "A", "x"), Mapping(2, "B", "y")>>
FileMappings == {Mapping(i, n, d) : i \in {1, 3}, n \in {"A", "C"}, d \in {"x", "z"}}
Uploads == {<<m>> : m \in FileMappings}
           \cup {<<m, o>> : m \in FileMappings, o \in {Mapping(1, "C", "z"), Mapping(2, "A", "y"),
                                                       Mapping(3, "A", "z"), Mapping(3, "C", "x")}}
EditedMappings == {Mapping(1, "B", "x"), Mapping(3, "A", "w")}

-----------------------------------------------------------------------------
PatternAAB == <<"a", "a", "b">>

-----------------------------------------------------------------------------
Frame(t, u, p) == [txn |-> t, unit |-> u, pdu |-> p]
Bodies == {<<{}, {2}, {1, 7}>>}
FrameLists == {<<>>, <<Frame(5, 1, <<1>>)>>, <<Frame(2, 3, <<3, 0, 2>>), Frame(5, 1, <<>>)>>}
TailBytes == {<<>>, <<1, 2, 0, 1, 0, 2, 1, 1>>, <<1, 2, 0, 0, 3, 3, 1>>, <<1, 2, 0, 0, 0, 0, 1>>}
TcpBytes == {[frames |-> f, junk |-> j] : f \in FrameLists, j \in TailBytes} \ {[frames |-> <<>>, junk |-> <<>>]}
WriteSet == {[fc |-> c, addr |-> a, data |-> d] : c \in {5, 6, 16}, a \in {1, 6}, d \in {<<3>>, <<7>>}}
            \cup {[fc |-> 16, addr |-> a, data |-> <<3, 7>>] : a \in {1, 6}}
Scales == {<<1, 1>>, <<1, 2>>, <<2, 1>>, <<3, 2>>}
SomeValues == -140 .. 270

Metric(name, alias, d, v) ==
    [name |-> name, alias |-> alias, timestamp |-> alias, datatype |-> d, null |-> v = <<>>, value |-> v]
Values ==
    {<<1, <<n>>>> : n \in -3 .. 2} \cup {<<3, <<n>>>> : n \in {-17, -16, -1, 15, 16}}
    \cup {<<4, <<n>>>> : n \in {-128, -1, 127}} \cup {<<5, <<n>>>> : n \in {-1, 0, 3, 4}}
    \cup {<<7, <<n>>>> : n \in {0, 31, 32}} \cup {<<8, <<n>>>> : n \in {0, 255}}
    \cup {<<9, <<1, 7>>>>, <<10, <<7, 0, 1>>>>, <<11, <<0>>>>, <<11, <<1>>>>, <<12, <<3, 2>>>>,
          <<17, <<7>>>>, <<7, <<>>>>, <<0, <<>>>>, <<0, <<1>>>>, <<16, <<>>>>, <<11, <<2>>>>, <<12, <<7>>>>}
Messages ==
    {[timestamp |-> s, metrics |-> ms, seq |-> s, uuid |-> s, body |-> s] :
       s \in {<<>>, <<3>>, <<4>>},
       ms \in {<<Metric(<<1>>, <<>>, v[1], v[2])>> : v \in Values}
              \cup {<<Metric(<<>>, <<9>>, 1, <<-1>>), Metric(<<1, 2>>, <<0>>, v[1], v[2])>> :
                      v \in {<<5, <<3>>>>, <<12, <<2>>>>}}}
UnknownFields ==
    {Key(18, 0) \o Varint(5), Key(18, 2) \o <<2, 1, 1>>, Key(2, 5) \o <<1, 1>>,
     Key(18, 3) \o Key(1, 0) \o <<1>> \o Key(18, 4),
     Key(18, 3) \o Key(3, 3) \o Key(3, 4) \o Key(3, 0) \o <<2>> \o Key(18, 4)}
OtherEncoders ==
    {[d |-> d, n |-> n, form |-> f] : d \in {1, 3}, n \in -2 .. 1, f \in {"int", "long", "narrow"}}
    \cup {[d |-> d, n |-> n, form |-> f] : d \in {5, 7}, n \in 0 .. 3, f \in {"int", "long", "narrow"}}

-----------------------------------------------------------------------------
Init ==
    /\ reader \in {"ser2net", "import", "stream", "modbus", "sparkplug"}
    /\ SiInit /\ ImInit /\ StInit /\ MfInit /\ PcInit

Next ==
    \/ reader = "ser2net" /\ SiNext /\ UNCHANGED <<reader, imVars, stVars, mfVars, pcVars>>
    \/ reader = "import" /\ ImNext /\ UNCHANGED <<reader, siVars, stVars, mfVars, pcVars>>
    \/ reader = "stream" /\ StNext /\ UNCHANGED <<reader, siVars, imVars, mfVars, pcVars>>
    \/ reader = "modbus" /\ MfNext /\ UNCHANGED <<reader, siVars, imVars, stVars, pcVars>>
    \/ reader = "sparkplug" /\ PcNext /\ UNCHANGED <<reader, siVars, imVars, stVars, mfVars>>

(* What the codecs write they read back, and what they cannot read they    *)
(* refuse.                                                                 *)
CodecsExact == FramesExact /\ PayloadExact

=============================================================================
