---------------------------- MODULE MCHostProbe ----------------------------
(***************************************************************************)
(* Instances of HostProbe for TLC: datagrams that try every way to write   *)
(* the names of a NetBIOS answer and every size of its data, networks that *)
(* lose answers, and devices of which everything may be learned.           *)
(***************************************************************************)
EXTENDS HostProbe, SequencesExt

Encoded == <<2, 4, 5>>

\* Names as they may be written: with and without a scope, too long, endless, cut off, with
\* pointers to a name, into one, to a pointer, to themselves, forward and to the header.
\* The question begins at offset 1.
QuestionNames ==
    {Encoded \o <<0>>, Encoded \o <<1, 9, 0>>, Encoded \o <<1, 0, 12, 5>>, Encoded \o <<12, 1>>, <<12, 1>>,
     <<2, 4, 9, 0>>, <<0>>, <<1, 4, 0>>}
AnswerNames ==
    {<<12, 1>>, <<12, 2>>, <<12, 4>>, <<12, 6>>, <<12, 0>>, <<13, 1>>,
     Encoded \o <<0>>, Encoded \o <<12, 1>>, Encoded \o <<12, 4>>, Encoded \o <<12, 5>>,
     Encoded \o <<12, 6>>,
     Encoded \o <<1, 12, 0>>, Encoded \o <<1, 4, 12, 4>>, Encoded \o <<2, 4, 4, 1, 1, 0>>,
     Encoded \o <<2, 4, 4, 2, 1, 1, 0>>, Encoded \o <<8>>, <<0>>, <<2, 4, 0, 0>>}

Records == {<<7, 0, 0>>, <<0, 0, 0>>, <<7, 1, 0>>, <<7, 0, 8>>}
Data(records) == <<Len(records)>> \o FlattenSeq(records) \o <<0>>
OneName == Data(<<<<7, 0, 0>>>>)
Datas ==
    {Data(<<>>)} \cup {Data(<<a, b>>) : a, b \in Records}
    \cup {<<1, 7, 0, 0>>, <<2, 7, 0, 0, 0>>, <<1, 7, 0, 0, 0, 0>>, <<>>}

Datagrams(questions, names, datas, excess) ==
    {[header |-> TRUE, questions |-> IF q = <<>> THEN 0 ELSE 1,
      bytes |-> <<0>> \o (IF q = <<>> THEN q ELSE Append(q, Status)) \o name
                \o <<Status, Len(data) + more>> \o data] :
        q \in questions, name \in names, data \in datas, more \in excess}

Good == CHOOSE d \in Datagrams({<<>>}, {Encoded \o <<0>>}, {OneName}, {0}) : TRUE
None == [header |-> FALSE, questions |-> 0, bytes |-> <<0>>]
Cut  == {[Good EXCEPT !.bytes = SubSeq(@, 1, n)] : n \in 1..(Len(Good.bytes) - 1)}

Answering ==
    Datagrams(QuestionNames \cup {<<>>}, AnswerNames, {OneName}, {0})
    \cup Datagrams({<<>>, Encoded \o <<0>>}, {Encoded \o <<0>>, <<12, 1>>}, Datas, {0, 1})
    \cup Cut \cup {Good, None, [Good EXCEPT !.header = FALSE], [Good EXCEPT !.questions = 2]}

Quiet == [windows |-> FALSE, lossy |-> FALSE, known |-> FALSE, gateway |-> TRUE,
          answering |-> {"ping", "nbns", "ports"}, datagram |-> None,
          ttl |-> 64, ports |-> {}, vendor |-> {}, services |-> {}]

\* What an answer says.
Parsing == {[Quiet EXCEPT !.datagram = d] : d \in Answering}

\* Every probe may be answered, late or not, and ctx cancelled.
Losing ==
    {[Quiet EXCEPT !.windows = w, !.lossy = TRUE, !.known = k, !.gateway = g, !.datagram = d,
                   !.answering = {"ping", "tcp", "nbns", "ports", "again"} \cup a,
                   !.ports = {22}] :
        w, k, g \in BOOLEAN, d \in {Good, None}, a \in {{"system"}, {"gateway", "mdns"}}}

Service(type, model) == [type |-> type, model |-> model]
Services ==
    {{}, {Service("_apple-mobdev2", "other"), Service("_device-info", "mac")},
     {Service("_airplay", "mobile"), Service("_workstation", "other")},
     {Service("_smb", "mac")}, {Service("_ssh", "other"), Service("_workstation", "other")}}
Vendors ==
    {{}, {"Network", "Printer"}} \cup {{f} : f \in {"Apple", "LinuxBoard", "Printer", "IoT"}}

\* Everything that bears on the guess.
Learning ==
    {[Quiet EXCEPT !.answering = a, !.datagram = d, !.ttl = t, !.ports = p, !.vendor = v,
                   !.services = s] :
        a \in {{"ping", "nbns", "ports"}, {"tcp", "nbns", "ports"}}, d \in {Good, None},
        t \in {57, 128, 200, 255}, p \in {{}, {22}, {445}, {9100}}, v \in Vendors,
        s \in Services}

Networks == Parsing \cup Losing \cup Learning
=============================================================================
