-------------------------- MODULE MCVarfiyGrpcClient --------------------------
(***************************************************************************)
(* VarfiyGrpcClient for TLC, with the laws of the messages it sends: TLC   *)
(* evaluates the assumptions below over all messages with small values.    *)
(***************************************************************************)
EXTENDS VarfiyGrpcClient, Message

Codes == INSTANCE ErrorCodes

Tables == {t[i] : t \in UNION {{s[m] : m \in DOMAIN s} :
             s \in {VarifyService, StatusService, FindOfflineMessagesService,
                    TransletMessageService, SearchUserService}}, i \in 1 .. 2}

\* Every value of a kind, and the two that tell a default from another one.
Values(kind) ==
  CASE kind = "int32" -> -(2 ^ (Int32Bits - 1)) .. 2 ^ (Int32Bits - 1) - 1
    [] kind = "int64" -> -(2 ^ (Int64Bits - 1)) .. 2 ^ (Int64Bits - 1) - 1
    [] kind = "string" -> Strings
    [] kind = "strings" -> UNION {[1 .. n -> Strings] : n \in 0 .. 2}

Few(kind) ==
  CASE kind \in {"int32", "int64"} -> {0, -1}
    [] kind = "string" -> {"", CHOOSE s \in Strings \ Malformed : s # ""}
    [] kind = "strings" -> {<<>>, <<"">>}

\* The messages of a table, with V(kind) for the values of a field.
Messages(T, V(_)) ==
  LET Fields[n \in 0 .. Len(T)] ==
        IF n = 0 THEN {<<>>}
        ELSE {Append(f, v) : f \in Fields[n - 1], v \in V(Kind(T, n))}
  IN  {[New(T) EXCEPT !.fields = f] : f \in Fields[Len(T)]}

IsUtf8(T, m) ==
  \A n \in DOMAIN T :
    CASE Kind(T, n) = "string" -> m.fields[n] \notin Malformed
      [] Kind(T, n) = "strings" -> \A i \in DOMAIN m.fields[n] : m.fields[n][i] \notin Malformed
      [] OTHER -> TRUE

\* What is written is read back, unless a string is not UTF-8.
ASSUME RoundTrip ==
  \A T \in Tables : \A m \in Messages(T, Values) :
    Parse(T, Serialize(T, m)) = IF IsUtf8(T, m) THEN m ELSE ParseError

\* Reading two messages written one after the other merges them, and a copy is
\* equal: MergeFrom and the reader agree on what a default value overwrites.
ASSUME Concatenation ==
  \A T \in Tables : \A a, b \in Messages(T, Few) :
    /\ Parse(T, Serialize(T, a) \o Serialize(T, b)) = MergeFrom(T, a, b)
    /\ CopyFrom(T, a) = a

\* A program that has other fields under the same numbers passes on unchanged
\* what it does not know.
ASSUME UnknownSurvives ==
  \A T, U \in Tables : \A m \in Messages(T, Few) :
    LET Foreign(wire) == SelectSeq(wire, LAMBDA e : ~Known(U, e))
        sent == Serialize(T, m)
    IN  Foreign(Serialize(U, Parse(U, sent))) = Foreign(sent)

\* The peer gets the request that was sent, and the caller the answer, by every
\* method of every service.
ASSUME AnswersArrive ==
  \A i \in {0, -1}, s, t \in Strings \ Malformed :
    LET Arrives(method, request, answer) ==
          BlockingUnaryCall(method, request, [r \in {request} |-> answer]) = answer
    IN  /\ Arrives(VarifyService.GetVarifyCode, GetVarifyReqOf(s), GetVarifyRspOf(i, s, t))
        /\ Arrives(StatusService.GetChatServer, GetChatServerReqOf(i),
                   GetChatServerRspOf(i, s, t, s))
        /\ Arrives(StatusService.Login, LoginReqOf(i, s), LoginRspOf(i, i, t))
        /\ Arrives(FindOfflineMessagesService.FindOtherServerOfflineMessages,
                   FindOtherServerOfflineMessagesReqOf(i),
                   FindOtherServerOfflineMessagesRspOf(i, <<s, t>>))
        /\ Arrives(FindOfflineMessagesService.FindOfflineMessagesNums,
                   FindOfflineMessagesNumsReqOf(i), FindOfflineMessagesNumsRspOf(i, i))
        /\ Arrives(TransletMessageService.TransletMessage, TransletMessageReqOf(i, i, s),
                   TransletMessageRspOf(i))
        /\ Arrives(SearchUserService.SearchUser, SearchUserReqOf(s, t),
                   SearchUserRspOf(i, i, s, t, s, t, s))

\* A failed call, a call nobody implements, and a request that is not UTF-8 all
\* yield a response whose error is Success.
ASSUME FailureLooksLikeSuccess ==
  \A email \in Strings :
    LET Requests == Messages(GetVarifyReq, Values)
        fails == [request \in Requests |-> ParseError]
        default == [request \in Requests |-> Unimplemented(request)]
        accepts == [request \in Requests |-> New(GetVarifyRsp)]
        answers == {CodeFor(email, fails), CodeFor(email, default)} \cup
                   (IF email \in Malformed THEN {CodeFor(email, accepts)} ELSE {})
    IN  \A r \in answers : Field(GetVarifyRsp, r, "error") = Codes!Success
=============================================================================
