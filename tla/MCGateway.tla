------------------------------ MODULE MCGateway ------------------------------
(***************************************************************************)
(* Gateway for TLC, with the conversions of its GET requests and of its    *)
(* configuration: TLC evaluates the assumptions below.                     *)
(***************************************************************************)
EXTENDS Gateway, UrlCodec, ConfiMgr

\* What a server makes of an encoded string: the reference for UrlEncode.
HexValue(c) == IF c \in 48 .. 57 THEN c - 48 ELSE c - 55
Decode(str) ==
  LET D[i \in 1 .. Len(str) + 3] ==
        IF i > Len(str) THEN <<>>
        ELSE IF str[i] = Percent
          THEN <<16 * HexValue(str[i + 1]) + HexValue(str[i + 2])>> \o D[i + 3]
        ELSE <<IF str[i] = Plus THEN Space ELSE str[i]>> \o D[i + 1]
  IN  D[1]

\* Bytes of every class, and the strings over them.
Sample == {0, 37, 38, 43, 61, 65, 255}
Small(alphabet, n) == UNION {[1 .. k -> alphabet] : k \in 0 .. n}

\* An encoded string is made of characters that need no encoding, and decodes
\* to the original: no two strings are encoded alike.
ASSUME EncodingIsReversible ==
  \A str \in Small(Bytes8, 1) \cup Small(Sample, 3) :
    /\ Decode(UrlEncode(str)) = str
    /\ \A i \in DOMAIN UrlEncode(str) : UrlEncode(str)[i] \in Kept \cup {Plus, Percent}

\* Every key=value between ampersands is found, and nothing else.
ASSUME ParametersAreFound ==
  \A query \in Small({Ampersand, Equals, 65, 66}, 5) :
    LET params == GetParams(query)
        cuts == {0, Len(query) + 1} \cup {i \in DOMAIN query : query[i] = Ampersand}
        Whole(k, v) == \E a, b \in cuts :
                         a < b /\ SubSeq(query, a + 1, b - 1) = k \o <<Equals>> \o v
    IN  \A k \in Small({65, 66}, 2) : \A v \in Small({65, 66}, 2) :
          /\ k \in DOMAIN params /\ params[k] = v => Whole(k, v)
          /\ Whole(k, v) => k \in DOMAIN params

\* What a client has encoded is not decoded but encoded again.
ASSUME EncodedAgain ==
  \A str \in Small(Sample, 2) :
    LET sent == UrlEncode(str)
        params == pre_parse_get_params(<<65, Question, 66, Equals>> \o sent).get_params
    IN  /\ DOMAIN params = {<<66>>}
        /\ params[<<66>>] = UrlEncode(sent)
        /\ Percent \in {sent[i] : i \in DOMAIN sent} => params[<<66>>] # sent

-----------------------------------------------------------------------------
\* Configuration files over two sections and keys, and decimal numbers.
Names == {"GateServer", "Redis"}
Keys == {"port", "host"}
Inis ==
  LET Lists(names, values) ==
        {l \in UNION {[1 .. n -> names \X values] : n \in 0 .. 2} : Distinct(l)}
  IN  {ini \in Lists(Names, Lists(Keys, {<<>>, <<56>>})) : Readable(ini)}
Decimal(n) ==
  LET d == CHOOSE d \in 1 .. 5 : n < 10 ^ d /\ \A k \in 1 .. d - 1 : n >= 10 ^ k
  IN  [i \in 1 .. d |-> 48 + ((n \div 10 ^ (d - i)) % 10)]
WithPort(str) == config_map(<< <<"GateServer", << <<"port", str>> >> >> >>)

\* What the file says is found, and what it does not say is empty.
ASSUME EntriesAreFound ==
  \A ini \in Inis : \A s \in Names, k \in Keys, v \in {<<56>>} :
    Lookup(config_map(ini), s, k) = v <=>
      \E i \in DOMAIN ini : ini[i][1] = s /\ <<k, v>> \in {ini[i][2][j] : j \in DOMAIN ini[i][2]}

\* A port number is read as it is written, also with something before or after
\* it, but a larger number becomes another port.
ASSUME PortIsRead ==
  /\ \A n \in {0, 1, 9, 10, 8080, 65535} :
       \A before \in {<<>>, <<32>>, <<9, 43>>}, after \in {<<>>, <<32>>, <<59, 49>>} :
         port(WithPort(before \o Decimal(n) \o after)) = n
  /\ \A n \in {65536, 65537, 73616} : port(WithPort(Decimal(n))) = n - 65536

\* No port, or one that is no number, is port 0, which any free port serves.
ASSUME MissingPortIsZero ==
  /\ \A ini \in Inis : Lookup(config_map(ini), "GateServer", "port") = <<>> =>
       port(config_map(ini)) = 0
  /\ \A str \in {<<120>>, <<45>>, <<45, 120>>, <<120, 56>>} : port(WithPort(str)) = 0
=============================================================================
