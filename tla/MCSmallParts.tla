------------------------------ MODULE MCSmallParts ------------------------------
(* Instances of SmallParts for TLC.                                        *)
EXTENDS SmallParts

Interchangeable == Permutations(Users) \cup Permutations(Realms) \cup Permutations(Players)

UpTo(S, n) == UNION {[1..k -> S] : k \in 0..n}

\* Every integer of the word, and every sequence of up to one byte more than a
\* VarInt has.
VarInts == [kind : {"varint"}, value : (-(2^(Word - 1)))..(2^(Word - 1) - 1)]
           \cup [kind : {"bytes"}, bytes : UpTo(Bytes, MaxBytes + 1)]

\* Comments, a key of the operator's, and a key that is updated, also twice.
Properties ==
  LET lines == {<<"#", 1>>, <<"motd", 1>>, <<"port", 1>>, <<"port", 2>>}
  IN  {[kind |-> "properties", lines |-> l, updates |-> [k \in keys |-> 3]] :
         l \in UpTo(lines, 4), keys \in SUBSET {"port", "rcon"}}

\* The releases around each change of the Java version.
Versions ==
  LET releases == ({1} \X {7, 16, 17, 19, 20, 21} \X {0, 4, 5, 6})
                    \cup {<<25, 1, 0>>, <<26, 1, 0>>, <<26, 3, 1>>}
  IN  {[kind |-> "versions", older |-> v[1], newer |-> v[2]] :
         v \in {p \in releases \X releases : Older(p[1], p[2])}}
      \cup {[kind |-> "versions", older |-> <<24>>, newer |-> <<26>>]}

Runtimes == [kind : {"java"}, required : {8, 17, 21, 25}, installed : SUBSET {8, 17, 21, 24, 25}]

Heaps ==
  [kind : {"heap"}, heap : {2048, 4096},
   gcs  : UpTo([before : {4000}, after : {0, 500, 1024, 1330, 1332, 2048}, full : BOOLEAN], 2)]

ServerLogs ==
  LET events == [kind : {"login"}, player : {"a", "b"}] \cup {[kind |-> "lag"]}
                  \cup [kind : {"disconnect"}, player : {"a", "b"}, reason : {"closed", "timeout"}]
  IN  [kind : {"log"}, lines : UpTo(events, 4)]

Schedules ==
  [kind : {"schedule"}, schedule : [kind : {"daily"}, hour : {0, 4, 23}, minute : {0, 30}]
                                     \cup [kind : {"interval"}, hours : 1..25]]

Inputs == VarInts \cup Properties \cup Versions \cup Runtimes \cup Heaps
            \cup ServerLogs \cup Schedules
=============================================================================
