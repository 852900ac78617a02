------------------------------- MODULE UrlCodec -------------------------------
(***************************************************************************)
(* UrlEncode (includes/HttpConnection.h) and pre_parse_get_params          *)
(* (src/HttpConnection.cpp): strings are sequences of bytes.               *)
(***************************************************************************)
EXTENDS Naturals, Sequences

LOCAL INSTANCE SequencesExt

Bytes8 == 0 .. 255

Alnum == (48 .. 57) \cup (65 .. 90) \cup (97 .. 122)
Kept == Alnum \cup {45, 95, 46, 126}          \* - _ . ~
Space == 32   Plus == 43   Percent == 37
Question == 63   Ampersand == 38   Equals == 61

ToHex(x) == IF x > 9 THEN x + 55 ELSE x + 48

EncodeByte(b) ==
  CASE b \in Kept -> <<b>>
    [] b = Space -> <<Plus>>
    [] OTHER -> <<Percent, ToHex(b \div 16), ToHex(b % 16)>>

UrlEncode(str) == FlattenSeq([i \in DOMAIN str |-> EncodeByte(str[i])])

-----------------------------------------------------------------------------
\* find: the first position of a byte, or one past the end.
Find(str, b) ==
  CHOOSE i \in 1 .. Len(str) + 1 :
    /\ i <= Len(str) => str[i] = b
    /\ \A j \in 1 .. i - 1 : str[j] # b

Before(str, b) == SubSeq(str, 1, Find(str, b) - 1)
After(str, b) == SubSeq(str, Find(str, b) + 1, Len(str))
Has(str, b) == Find(str, b) <= Len(str)

\* The parts of the query between the ampersands, each with its position.
Parts(query) ==
  {<<i, Before(SubSeq(query, i, Len(query)), Ampersand)>> :
     i \in {1} \cup {j + 1 : j \in {k \in DOMAIN query : query[k] = Ampersand}}}

\* A part without '=' is left out; of two with the same key the later counts.
\* Key and value are encoded.
GetParams(query) ==
  LET pairs == {p \in Parts(query) : Has(p[2], Equals)}
      Key(p) == UrlEncode(Before(p[2], Equals))
      Latest(key) == CHOOSE p \in pairs :
                     Key(p) = key /\ \A q \in pairs : Key(q) = key => q[1] <= p[1]
  IN  [key \in {Key(p) : p \in pairs} |-> UrlEncode(After(Latest(key)[2], Equals))]

pre_parse_get_params(uri) ==
  [get_url |-> Before(uri, Question), get_params |-> GetParams(After(uri, Question))]
=============================================================================
