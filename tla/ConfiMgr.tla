------------------------------- MODULE ConfiMgr -------------------------------
(***************************************************************************)
(* ConfiMgr (src/ConfiMgr.cpp, includes/ConfiMgr.h): config.ini, read once *)
(* into a map of sections, and what main makes of its port.  A file is a   *)
(* sequence of sections, each a name and a sequence of keys with values; a *)
(* value is a sequence of bytes.                                           *)
(***************************************************************************)
EXTENDS Integers, Sequences

\* Boost's reader refuses a file that names a section, or a key of it, twice.
Distinct(pairs) == \A i, j \in DOMAIN pairs : pairs[i][1] = pairs[j][1] => i = j
Readable(ini) == Distinct(ini) /\ \A i \in DOMAIN ini : Distinct(ini[i][2])

AsMap(pairs, Value(_)) ==
  [name \in {pairs[i][1] : i \in DOMAIN pairs} |->
     Value((CHOOSE i \in DOMAIN pairs : pairs[i][1] = name))]

\* The constructor.
config_map(ini) ==
  AsMap(ini, LAMBDA i : AsMap(ini[i][2], LAMBDA j : ini[i][2][j][2]))

\* operator[] of ConfiMgr and of SectionInfo: what is not there is empty.
Section(config, name) == IF name \in DOMAIN config THEN config[name] ELSE <<>>
Lookup(config, name, key) ==
  LET section == Section(config, name)
  IN  IF key \in DOMAIN section THEN section[key] ELSE <<>>

-----------------------------------------------------------------------------
Digits == 48 .. 57

\* atoi: blanks, a sign, and digits up to anything else.
Atoi(str) ==
  LET Blank(c) == c \in 9 .. 13 \cup {32}
      start == CHOOSE i \in 1 .. Len(str) + 1 :
                 /\ \A j \in 1 .. i - 1 : Blank(str[j])
                 /\ i <= Len(str) => ~Blank(str[i])
      signed == start <= Len(str) /\ str[start] \in {43, 45}
      first == IF signed THEN start + 1 ELSE start
      Value[i \in 0 .. Len(str)] ==
        IF i < first THEN 0 ELSE 10 * Value[i - 1] + str[i] - 48
      last == CHOOSE i \in first - 1 .. Len(str) :
                /\ \A j \in first .. i : str[j] \in Digits
                /\ i < Len(str) => str[i + 1] \notin Digits
  IN  IF signed /\ str[start] = 45 THEN -Value[last] ELSE Value[last]

\* main: the port is an int for atoi and an unsigned short for Server.
port(config) == Atoi(Lookup(config, "GateServer", "port")) % 65536
=============================================================================
