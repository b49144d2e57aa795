------------------------------ MODULE Protocol ------------------------------
(***************************************************************************)
(* The text of requests and responses: parse_request of protocol.cpp, the  *)
(* REPLICATE line that the leader makes of a record, the response to FETCH *)
(* and what the consumer program takes it for.                             *)
(*                                                                         *)
(* A raw request is the command, the blank-separated fields after it, as   *)
(* many as the command takes, and the characters that follow the last      *)
(* field. Of a field matters whether it is a number, and which; of a       *)
(* character, whether it is a space, another blank (tab), a line break, or *)
(* anything else (text).                                                   *)
(***************************************************************************)
EXTENDS Integers, Sequences, FiniteSetsExt

CONSTANTS
    IntMax,             \* the largest int, scaled down
    LongMax,            \* the largest long long, scaled down
    PartitionCount      \* the partitions that clients may name: 3

ASSUME WidthAssumption ==
    /\ {IntMax, LongMax, PartitionCount} \subseteq Nat
    /\ PartitionCount <= IntMax /\ IntMax <= LongMax

Char == {"space", "tab", "break", "text"}

Token == [text : STRING, number : BOOLEAN, value : Nat]

\* fits: the length is within the limit of a frame.
RawRequests == [command : STRING, fields : Seq(Token), rest : Seq(Char), fits : BOOLEAN]

\* The fields that parse_request reads for each command. A client's partition is one of
\* PartitionCount; the one between brokers ("index") is any that an int holds.
Fields ==
    [PING |-> <<>>,
     METRICS |-> <<>>,
     PRODUCE |-> <<"topic", "partition">>,
     FETCH |-> <<"topic", "partition", "offset">>,
     REPLICATE |-> <<"topic", "index", "offset">>,
     REPLICATION_PROGRESS |-> <<"topic", "index">>,
     JOIN |-> <<"group", "consumer", "topic">>,
     LEAVE |-> <<"group", "consumer">>,
     GROUP_POLL |-> <<"group", "consumer">>,
     COMMIT |-> <<"group", "consumer", "topic", "partition", "offset">>]

WithPayload == {"PRODUCE", "REPLICATE"}

Elements(s) == {s[i] : i \in DOMAIN s}

\* stoi and stoll read the whole field and neither overflow nor return a negative number.
IsNumber(token, max) == token.number /\ token.value \in 0..max

IsField(token, field) ==
    CASE field = "partition" -> IsNumber(token, IntMax) /\ token.value < PartitionCount
      [] field = "index" -> IsNumber(token, IntMax)
      [] field = "offset" -> IsNumber(token, LongMax)
      [] OTHER -> TRUE

Line_KeepsBreaks(rest) == rest

\* std::getline: what precedes the first line break. The rest is dropped without a word.
Line(rest) ==
    LET breaks == {i \in DOMAIN rest : rest[i] = "break"}
    IN  IF breaks = {} THEN rest ELSE SubSeq(rest, 1, Min(breaks) - 1)

Payload_KeepsSpaces(rest) == Line(rest)

\* Leading spaces go, unless there is nothing but spaces.
Payload(rest) ==
    LET line == Line(rest)
        others == {i \in DOMAIN line : line[i] # "space"}
    IN  IF others = {} THEN line ELSE SubSeq(line, Min(others), Len(line))

HasExtraTokens(rest) == "text" \in Elements(rest)

IsRequest(raw) ==
    /\ raw.command \in DOMAIN Fields
    /\ Len(raw.fields) = Len(Fields[raw.command])
    /\ \A i \in DOMAIN raw.fields : IsField(raw.fields[i], Fields[raw.command][i])
    /\ IF raw.command \in WithPayload
       THEN Payload(raw.rest) # <<>>
       ELSE ~HasExtraTokens(raw.rest)

Invalid == [type |-> "INVALID", args |-> <<>>, payload |-> <<>>]

parse_request(raw) ==
    IF ~IsRequest(raw) THEN Invalid
    ELSE LET names == Fields[raw.command]
         IN  [type |-> raw.command,
              args |-> [f \in Elements(names) |-> raw.fields[CHOOSE i \in DOMAIN names : names[i] = f]],
              payload |-> IF raw.command \in WithPayload THEN Payload(raw.rest) ELSE <<>>]

\* The line by which the leader sends a record to the follower.
ReplicateLine(topic, partition, offset, payload) ==
    [command |-> "REPLICATE",
     fields |-> <<topic, [text |-> "number", number |-> TRUE, value |-> partition],
                  [text |-> "number", number |-> TRUE, value |-> offset]>>,
     rest |-> <<"space">> \o payload]

\* The messages of a FETCH response, with line breaks between them.
JoinMessages(messages) ==
    LET Joined[n \in 0..Len(messages)] ==
            IF n = 0 THEN <<>>
            ELSE IF n = 1 THEN messages[1]
            ELSE Joined[n - 1] \o <<"break">> \o messages[n]
    IN  Joined[Len(messages)]

\* What the consumer program counts in it, and adds to the offset that it commits.
count_messages(response) ==
    IF response = <<>> THEN 0
    ELSE Cardinality({i \in DOMAIN response : response[i] = "break"}) + 1
=============================================================================
