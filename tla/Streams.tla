------------------------------ MODULE Streams ------------------------------
(***************************************************************************)
(* What reads a byte stream that arrives in chunks: TelnetSession of       *)
(* app/engine/protocols/telnet.py, _check_closeon of app/engine/bridge.py  *)
(* and feed of app/engine/mqtt_pub.py.  Each keeps state between chunks;   *)
(* where a chunk ends must not matter.  A byte is a name from a small set. *)
(***************************************************************************)
EXTENDS Naturals, Sequences, SequencesExt

CONSTANTS
    TelnetBytes,   \* bytes a telnet client may send
    Supported,     \* options both sides may perform: SUPPORTED
    NetOutMax,     \* _MAX_NET_OUT, in replies of three bytes
    Closeon,       \* the mapping's closeon
    LineMax,       \* MAX_LINE_BUFFER
    LineKept,      \* bytes kept when no newline comes: 4096
    MaxChunk,      \* bound: bytes of one chunk
    MaxBytes       \* bound: bytes of one stream

VARIABLES
    stKind,        \* the reader: "telnet", "closeon" or "lines"; "none" before
    stIn,          \* every byte so far
    stSession,     \* TelnetSession
    stData,        \* what telnet passed on to the serial port
    stReplies,     \* what telnet answered
    stTail,        \* _closeon_tail
    stCloses,      \* lengths of stIn at which closeon closed the clients
    stBuf,         \* the publisher's _buf
    stLines        \* what it published

stVars == <<stKind, stIn, stSession, stData, stReplies, stTail, stCloses, stBuf, stLines>>

Unknown == "unknown"                                 \* dict.get: no entry
Commands == {"DO", "DONT", "WILL", "WONT"}

-----------------------------------------------------------------------------
(* TelnetSession.                                                          *)

(* __init__: BINARY and SGA are requested and marked at once.              *)
NewSession ==
    [st |-> "data", cmd |-> "",
     local  |-> [o \in TelnetBytes |-> IF o \in Supported THEN "yes" ELSE Unknown],
     remote |-> [o \in TelnetBytes |-> IF o \in Supported THEN "yes" ELSE Unknown],
     out |-> <<>>, net |-> <<>>]

(* _send of one reply.                                                     *)
Send(s, cmd, opt) ==
    IF Len(s.net) < NetOutMax THEN [s EXCEPT !.net = Append(@, <<cmd, opt>>)] ELSE s

(* _negotiate: a reply only when the state changes.                        *)
Negotiate(s, opt) ==
    LET asked == s.cmd \in {"DO", "WILL"}
        mine  == s.cmd \in {"DO", "DONT"}
        old   == IF mine THEN s.local[opt] ELSE s.remote[opt]
        new   == IF asked /\ opt \in Supported THEN "yes" ELSE "no"
        reply == CASE mine /\ new = "yes"  -> "WILL"
                   [] mine /\ new = "no"   -> "WONT"
                   [] ~mine /\ new = "yes" -> "DO"
                   [] ~mine /\ new = "no"  -> "DONT"
    IN  IF old = new THEN s
        ELSE Send(IF mine THEN [s EXCEPT !.local[opt] = new] ELSE [s EXCEPT !.remote[opt] = new],
                  reply, opt)

(* The state after IAC and a byte inside a subnegotiation.                 *)
AfterSbIac(b) == IF b = "SE" THEN "data" ELSE "sb"

(* One byte in from_network.                                               *)
Byte(s, b) ==
    CASE s.st = "data" -> IF b = "IAC" THEN [s EXCEPT !.st = "iac"] ELSE [s EXCEPT !.out = Append(@, b)]
      [] s.st = "iac" /\ b = "IAC" -> [s EXCEPT !.out = Append(@, b), !.st = "data"]
      [] s.st = "iac" /\ b \in Commands -> [s EXCEPT !.cmd = b, !.st = "opt"]
      [] s.st = "iac" /\ b \notin Commands \cup {"IAC"} ->
            [s EXCEPT !.st = IF b = "SB" THEN "sb" ELSE "data"]
      [] s.st = "opt" -> [Negotiate(s, b) EXCEPT !.st = "data"]
      [] s.st = "sb" -> IF b = "IAC" THEN [s EXCEPT !.st = "sb_iac"] ELSE s
      [] s.st = "sb_iac" -> [s EXCEPT !.st = AfterSbIac(b)]

FromNetwork(s, chunk) == FoldLeft(Byte, [s EXCEPT !.out = <<>>], chunk)

(* from_serial: IAC is doubled.                                            *)
FromSerial(data) == FlattenSeq([i \in DOMAIN data |-> IF data[i] = "IAC" THEN <<"IAC", "IAC">> ELSE <<data[i]>>])

(* The network pump: from_network, then take_net_out.                      *)
StTelnet(chunk) ==
    LET s == FromNetwork(stSession, chunk)
    IN  /\ stData' = stData \o s.out
        /\ stReplies' = stReplies \o s.net
        /\ stSession' = [s EXCEPT !.net = <<>>, !.out = <<>>]
        /\ UNCHANGED <<stTail, stCloses, stBuf, stLines>>

-----------------------------------------------------------------------------
(* _check_closeon, called for every chunk the device sends.                *)
Within(p, s) == \E i \in 0 .. Len(s) - Len(p) : SubSeq(s, i + 1, i + Len(p)) = p
LastOf(s, n) == SubSeq(s, IF Len(s) > n THEN Len(s) - n + 1 ELSE 1, Len(s))

StCloseon(chunk) ==
    LET window == stTail \o chunk
    IN  /\ IF Within(Closeon, window)
           THEN stTail' = <<>> /\ stCloses' = Append(stCloses, Len(stIn) + Len(chunk))
           ELSE stTail' = LastOf(window, Len(Closeon) - 1) /\ UNCHANGED stCloses
        /\ UNCHANGED <<stSession, stData, stReplies, stBuf, stLines>>

-----------------------------------------------------------------------------
(* feed of the MQTT publisher: every complete line, without its CRs.       *)
Rstrip(line) ==
    LET last == SelectLastInSeq(line, LAMBDA b : b # "CR") IN SubSeq(line, 1, last)

(* The parts between newlines, the unfinished one last.                    *)
Split(s) ==
    LET Step(acc, b) == IF b = "NL" THEN Append(acc, <<>>)
                        ELSE [acc EXCEPT ![Len(acc)] = Append(@, b)]
    IN  FoldLeft(Step, <<<<>>>>, s)

Published(parts) == SelectSeq([i \in 1 .. Len(parts) - 1 |-> Rstrip(parts[i])], LAMBDA l : l # <<>>)

StLine(chunk) ==
    LET parts == Split(stBuf \o chunk)
        rest  == Last(parts)
    IN  /\ stLines' = stLines \o Published(parts)
        /\ stBuf' = IF Len(rest) > LineMax THEN LastOf(rest, LineKept) ELSE rest
        /\ UNCHANGED <<stSession, stData, stReplies, stTail, stCloses>>

-----------------------------------------------------------------------------
Alphabet ==
    CASE stKind = "telnet"  -> TelnetBytes
      [] stKind = "closeon" -> {Closeon[i] : i \in DOMAIN Closeon} \cup {"x"}
      [] stKind = "lines"   -> {"x", "CR", "NL"}

StChunk(chunk) ==
    /\ Len(stIn) + Len(chunk) <= MaxBytes
    /\ stIn' = stIn \o chunk /\ UNCHANGED stKind
    /\ \/ stKind = "telnet" /\ StTelnet(chunk)
       \/ stKind = "closeon" /\ StCloseon(chunk)
       \/ stKind = "lines" /\ StLine(chunk)

StOpen ==
    /\ stKind = "none" /\ stKind' \in {"telnet", "closeon", "lines"}
    /\ UNCHANGED <<stIn, stSession, stData, stReplies, stTail, stCloses, stBuf, stLines>>

StInit ==
    /\ stKind = "none" /\ stIn = <<>>
    /\ stSession = NewSession /\ stData = <<>> /\ stReplies = <<>>
    /\ stTail = <<>> /\ stCloses = <<>> /\ stBuf = <<>> /\ stLines = <<>>

StNext ==
    \/ StOpen
    \/ stKind # "none" /\ \E n \in 1 .. MaxChunk : \E chunk \in [1 .. n -> Alphabet] : StChunk(chunk)

-----------------------------------------------------------------------------
(* Properties.                                                             *)

RECURSIVE Payload(_), AfterSb(_)
(* What RFC 854 says is data in a byte string, read from its grammar.      *)
Payload(s) ==
    IF s = <<>> \/ s = <<"IAC">> THEN <<>>
    ELSE IF s[1] # "IAC" THEN <<s[1]>> \o Payload(Tail(s))
    ELSE IF s[2] = "IAC" THEN <<"IAC">> \o Payload(SubSeq(s, 3, Len(s)))
    ELSE IF s[2] = "SB" THEN Payload(AfterSb(SubSeq(s, 3, Len(s))))
    ELSE Payload(SubSeq(s, IF s[2] \in Commands THEN 4 ELSE 3, Len(s)))

(* What follows the IAC SE of a subnegotiation in which IAC IAC is a byte. *)
AfterSb(s) ==
    IF Len(s) < 2 THEN <<>>
    ELSE IF s[1] # "IAC" THEN AfterSb(Tail(s))
    ELSE IF s[2] = "SE" THEN SubSeq(s, 3, Len(s))
    ELSE AfterSb(SubSeq(s, 3, Len(s)))

(* Telnet data is what the grammar says, wherever chunks end; every reply  *)
(* answers a command of the client, and no two replies in a row about one  *)
(* option and direction say the same, so that two ends cannot loop; what   *)
(* the device sends comes out of another session unchanged.                *)
TelnetExact ==
    stKind = "telnet" =>
        /\ stData = Payload(stIn)
        /\ LET Side(r) == <<r[1] \in {"WILL", "WONT"}, r[2]>>
           IN  \A i, j \in DOMAIN stReplies :
                 i < j /\ stReplies[i] = stReplies[j] =>
                   \E k \in i + 1 .. j - 1 : Side(stReplies[k]) = Side(stReplies[i])
                                               /\ stReplies[k] # stReplies[i]
        /\ FromNetwork(NewSession, FromSerial(stIn)).out = stIn

(* The clients are closed exactly when closeon has come: each close has an *)
(* occurrence that ends in its chunk, and none is left since the last one. *)
CloseonExact ==
    stKind = "closeon" =>
        /\ \A i \in DOMAIN stCloses :
             Within(Closeon, SubSeq(stIn, IF i = 1 THEN 1 ELSE stCloses[i - 1] + 1, stCloses[i]))
        /\ ~Within(Closeon, SubSeq(stIn, IF stCloses = <<>> THEN 1 ELSE Last(stCloses) + 1, Len(stIn)))

(* Lines that fit the buffer are published whole, once and in order, and   *)
(* the buffer never outgrows its limit.                                    *)
LinesExact ==
    stKind = "lines" =>
        /\ Len(stBuf) <= LineMax
        /\ (\A i \in DOMAIN Split(stIn) : Len(Split(stIn)[i]) <= LineMax) => stLines = Published(Split(stIn))


=============================================================================
