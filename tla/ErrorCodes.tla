----------------------------- MODULE ErrorCodes -----------------------------
(***************************************************************************)
(* The codes a handler puts in the "error" field of its JSON answer        *)
(* (includes/const.h).                                                     *)
(***************************************************************************)
EXTENDS Integers

Success == 0
Error_Josn == 1001
RPCFail == 1002
VarifyEXpired == 1003
VarifyError == 1004
UerExist == 1005
MySqlError == 1006
RedisError == 1007
EmailIsRegister == 1008
UserNotExist == 1009
UserPasswdError == 1010
EmailIsNotMatch == 1011

ErrorCodes == {Success} \cup Error_Josn .. EmailIsNotMatch
=============================================================================
