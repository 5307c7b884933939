----------------------------- MODULE MCFstValue -----------------------------
(* FstValue with 30 bits for its 32 and 64, and words of 4 and 8 bits.      *)
EXTENDS FstValue
AllNumbers == {0, 1, 63, 64, 127, 128, 129, 8191, 8192, 16383, 16384, 2^20 + 5, 2^21 - 1, 2^21, 2^28, 2^29 - 1, 2^29, 2^29 + 1, 2^30 - 1}
AllTimes == {<<s, t, u>> : s \in {0, 5}, t, u \in {0, 4, 5, 300, 2^30 - 1}} \cup {<<>>, <<7>>}
(* a, backslash, ?, space, newline, 0, 255, 1                               *)
Chars == {97, 92, 63, 32, 10, 0, 255, 49}
AllTexts == {<<>>} \cup {<<c>> : c \in Chars} \cup {<<c, d>> : c, d \in Chars}
SomeTexts == {<<>>, <<32, 97>>, <<49, 92, 48, 10>>, <<120, 0>>, <<48, 48, 49, 49>>}
AllTables == {[name |-> name, literals |-> <<lit, <<48>>>>, vals |-> <<val, lit>>] :
                name \in {<<97>>, <<98, 49>>}, lit, val \in SomeTexts}
             \cup {[name |-> <<97>>, literals |-> <<>>, vals |-> <<>>]}
AllHandles == {1, 2, 94, 95, 188, 189, 8930, 8931}
AllVectors == {<<bits, v>> : bits \in {1, 3, 4}, v \in {0, 1, 5}}
              \cup {<<bits, v>> : bits \in {5, 7, 8, 9, 12, 15, 16, 17, 20}, v \in {0, 1, 18, 165, 240, 4660, 51966, 65535, 82211}}
BitChanges == {[delta |-> d, val |-> <<c>>] : d \in {0, 1, 7, 8, 70, 2^26 - 1}, c \in {48, 49, 120, 88, 122, 76, 45, 63, 65}}
VectorChanges(n) == {[delta |-> d, val |-> [i \in 1 .. n |-> IF i = 2 THEN c ELSE IF i % 3 = 0 THEN 49 ELSE 48]] :
                       d \in {0, 1, 70}, c \in {48, 49, 120, 200}}
TextChanges == {[delta |-> d, val |-> v] : d \in {0, 1, 70}, v \in {<<>>, <<32, 97>>, <<49, 92, 48, 10, 200>>}}
Two(len, typ, changes) == {[len |-> len, typ |-> typ, changes |-> <<e, f>>] : e, f \in changes}
AllChains == Two(1, "wire", BitChanges) \cup Two(0, "string", TextChanges) \cup Two(8, "real", VectorChanges(8))
             \cup UNION {Two(n, "wire", VectorChanges(n)) : n \in {2, 7, 8, 9, 17}} \cup Two(5, "port", VectorChanges(5))
=============================================================================
