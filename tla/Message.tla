------------------------------- MODULE Message -------------------------------
(***************************************************************************)
(* The messages the gateway exchanges with its gRPC services, as the       *)
(* generated code (proto/message.pb.cc) treats them.  Each generated class *)
(* is a table of its fields, and the methods repeated in all of them are   *)
(* one operator over the table: a message holds a value of every field and *)
(* the entries it did not know, on the wire it is a sequence of entries,   *)
(* from which fields with their default value are absent.                  *)
(*                                                                         *)
(* The widths of int32 and int64 are constants: an int32 is written as the *)
(* 64-bit varint it extends to, and read as the low 32 bits of a varint.   *)
(***************************************************************************)
EXTENDS Integers, Sequences

LOCAL INSTANCE SequencesExt

CONSTANTS
  Int32Bits, Int64Bits,
  Strings,              \* what a string field may hold
  Malformed             \* those of them that are not UTF-8

ASSUME MessageAssumption ==
  /\ Int32Bits \in Nat \ {0}
  /\ Int64Bits \in Nat
  /\ Int32Bits < Int64Bits
  /\ "" \in Strings
  /\ Malformed \subseteq Strings \ {""}

-----------------------------------------------------------------------------
\* The tables: the n-th element names the field with number n and its kind.

GetVarifyReq == << <<"email", "string">> >>
GetVarifyRsp == << <<"error", "int32">>, <<"email", "string">>, <<"code", "string">> >>
GetChatServerReq == << <<"uid", "int32">> >>
GetChatServerRsp == << <<"error", "int32">>, <<"host", "string">>, <<"port", "string">>,
                       <<"token", "string">> >>
LoginReq == << <<"uid", "int32">>, <<"token", "string">> >>
LoginRsp == << <<"error", "int32">>, <<"uid", "int32">>, <<"token", "string">> >>
FindOtherServerOfflineMessagesReq == << <<"user_id", "int64">> >>
FindOtherServerOfflineMessagesRsp == << <<"error", "int32">>, <<"messages", "strings">> >>
FindOfflineMessagesNumsReq == << <<"user_id", "int64">> >>
FindOfflineMessagesNumsRsp == << <<"error", "int32">>, <<"nums", "int32">> >>
TransletMessageReq == << <<"from_user_id", "int64">>, <<"to_user_id", "int64">>,
                         <<"message", "string">> >>
TransletMessageRsp == << <<"error", "int32">> >>
SearchUserReq == << <<"search_way", "string">>, <<"search_value", "string">> >>
SearchUserRsp == << <<"error", "int32">>, <<"user_id", "int64">>, <<"username", "string">>,
                    <<"avatar", "string">>, <<"signature", "string">>, <<"email", "string">>,
                    <<"sex", "string">> >>

Kind(T, n) == T[n][2]
Number(T, name) == CHOOSE n \in DOMAIN T : T[n][1] = name

Default(kind) == CASE kind \in {"int32", "int64"} -> 0
                   [] kind = "string" -> ""
                   [] kind = "strings" -> <<>>

-----------------------------------------------------------------------------
\* The methods

\* The constructor, and Clear.
New(T) ==
  [ok |-> TRUE, fields |-> [n \in DOMAIN T |-> Default(Kind(T, n))], unknown |-> <<>>]

ParseError == [ok |-> FALSE, fields |-> <<>>, unknown |-> <<>>]

\* The accessor name().
Field(T, m, name) == m.fields[Number(T, name)]

\* MergeFrom: a default value overwrites nothing, a repeated field is appended.
MergeFrom(T, to, from) ==
  [to EXCEPT
     !.fields = [n \in DOMAIN T |->
                   IF Kind(T, n) = "strings" THEN @[n] \o from.fields[n]
                   ELSE IF from.fields[n] = Default(Kind(T, n)) THEN @[n]
                   ELSE from.fields[n]],
     !.unknown = @ \o from.unknown]

\* CopyFrom: Clear, then MergeFrom.
CopyFrom(T, from) == MergeFrom(T, New(T), from)

Varint(n, v) == [number |-> n, type |-> "varint", value |-> v % 2 ^ Int64Bits]
Bytes(n, v) == [number |-> n, type |-> "bytes", value |-> v]

\* The entries a field is written as.
Written(n, kind, v) ==
  CASE v = Default(kind) -> <<>>
    [] v # Default(kind) /\ kind \in {"int32", "int64"} -> <<Varint(n, v)>>
    [] v # Default(kind) /\ kind = "string" -> <<Bytes(n, v)>>
    [] v # Default(kind) /\ kind = "strings" -> [i \in DOMAIN v |-> Bytes(n, v[i])]

\* _InternalSerialize: in the order of the numbers, then what was not known.
\* A string that is not UTF-8 is reported and written.
Serialize(T, m) ==
  FlattenSeq([n \in DOMAIN T |-> Written(n, Kind(T, n), m.fields[n])]) \o m.unknown

\* The signed value of the low bits of a varint.
Low(bits, v) == ((v + 2 ^ (bits - 1)) % 2 ^ bits) - 2 ^ (bits - 1)

Known(T, e) ==
  /\ e.number \in DOMAIN T
  /\ e.type = IF Kind(T, e.number) \in {"int32", "int64"} THEN "varint" ELSE "bytes"

\* One entry is read: the table's entry for its number, or the fallback.
ReadEntry(T, m, e) ==
  IF ~m.ok THEN m
  ELSE IF ~Known(T, e) THEN [m EXCEPT !.unknown = Append(@, e)]
  ELSE IF e.type = "bytes" /\ e.value \in Malformed THEN ParseError
  ELSE [m EXCEPT !.fields[e.number] =
          CASE Kind(T, e.number) = "int32" -> Low(Int32Bits, e.value)
            [] Kind(T, e.number) = "int64" -> Low(Int64Bits, e.value)
            [] Kind(T, e.number) = "string" -> e.value
            [] Kind(T, e.number) = "strings" -> Append(@, e.value)]

Parse(T, wire) ==
  FoldLeft(LAMBDA m, e : ReadEntry(T, m, e), New(T), wire)

-----------------------------------------------------------------------------
\* The accessors of each class, by what its setters do: a message of the class
\* with these values.

Set(T, value) == [New(T) EXCEPT !.fields = [n \in DOMAIN T |-> value[T[n][1]]]]

GetVarifyReqOf(email) ==
  Set(GetVarifyReq, [email |-> email])
GetVarifyRspOf(error, email, code) ==
  Set(GetVarifyRsp, [error |-> error, email |-> email, code |-> code])
GetChatServerReqOf(uid) ==
  Set(GetChatServerReq, [uid |-> uid])
GetChatServerRspOf(error, host, port, token) ==
  Set(GetChatServerRsp, [error |-> error, host |-> host, port |-> port, token |-> token])
LoginReqOf(uid, token) ==
  Set(LoginReq, [uid |-> uid, token |-> token])
LoginRspOf(error, uid, token) ==
  Set(LoginRsp, [error |-> error, uid |-> uid, token |-> token])
FindOtherServerOfflineMessagesReqOf(user_id) ==
  Set(FindOtherServerOfflineMessagesReq, [user_id |-> user_id])
FindOtherServerOfflineMessagesRspOf(error, messages) ==
  Set(FindOtherServerOfflineMessagesRsp, [error |-> error, messages |-> messages])
FindOfflineMessagesNumsReqOf(user_id) ==
  Set(FindOfflineMessagesNumsReq, [user_id |-> user_id])
FindOfflineMessagesNumsRspOf(error, nums) ==
  Set(FindOfflineMessagesNumsRsp, [error |-> error, nums |-> nums])
TransletMessageReqOf(from_user_id, to_user_id, message) ==
  Set(TransletMessageReq, [from_user_id |-> from_user_id, to_user_id |-> to_user_id,
                           message |-> message])
TransletMessageRspOf(error) ==
  Set(TransletMessageRsp, [error |-> error])
SearchUserReqOf(search_way, search_value) ==
  Set(SearchUserReq, [search_way |-> search_way, search_value |-> search_value])
SearchUserRspOf(error, user_id, username, avatar, signature, email, sex) ==
  Set(SearchUserRsp, [error |-> error, user_id |-> user_id, username |-> username,
                      avatar |-> avatar, signature |-> signature, email |-> email,
                      sex |-> sex])

-----------------------------------------------------------------------------
\* The services (includes/message.grpc.pb.h) and their calls

VarifyService == [GetVarifyCode |-> <<GetVarifyReq, GetVarifyRsp>>]

StatusService == [GetChatServer |-> <<GetChatServerReq, GetChatServerRsp>>,
                  Login |-> <<LoginReq, LoginRsp>>]

FindOfflineMessagesService ==
  [FindOtherServerOfflineMessages |->
     <<FindOtherServerOfflineMessagesReq, FindOtherServerOfflineMessagesRsp>>,
   FindOfflineMessagesNums |-> <<FindOfflineMessagesNumsReq, FindOfflineMessagesNumsRsp>>]

TransletMessageService == [TransletMessage |-> <<TransletMessageReq, TransletMessageRsp>>]

SearchUserService == [SearchUser |-> <<SearchUserReq, SearchUserRsp>>]

\* BlockingUnaryCall: a handler of the peer answers the request it has parsed
\* with a message, or with ParseError in the place of a failed status.
BlockingUnaryCall(method, request, handler) ==
  LET received == Parse(method[1], Serialize(method[1], request))
      answer == IF received.ok THEN handler[received] ELSE ParseError
  IN  IF answer.ok THEN Parse(method[2], Serialize(method[2], answer)) ELSE ParseError

\* The default Service: UNIMPLEMENTED.
Unimplemented(request) == ParseError

\* VarfiyGrpcClient::GetVarifyCode: a response of its own when the call fails.
CodeFor(email, handler) ==
  LET request == GetVarifyReqOf(email)
      response == BlockingUnaryCall(VarifyService.GetVarifyCode, request, handler)
  IN  IF response.ok THEN response ELSE New(GetVarifyRsp)
=============================================================================
