----------------------------- MODULE MCFstHier ------------------------------
(* FstHier with a few declarations of each kind: names longer than what the  *)
(* iteration keeps, lengths and arguments of several bytes, a real without   *)
(* and as an alias, an alias of a handle that may not exist yet, subtypes    *)
(* out of range.  FirrtlVars has a type of fstapi.h's FIRRTL group.          *)
EXTENDS FstHier
V(vt, vd, len, nam, alias) == [vt |-> vt, vd |-> vd, len |-> len, nam |-> nam, alias |-> alias]
SomeVars == { V(16, 0, 1, <<97>>, 0), V(16, 1, 200, <<98, 99, 100, 101>>, 0), V(3, 2, 64, <<>>, 0), V(21, 0, 5, <<97>>, 0),
              V(18, 1, 14, <<97>>, 0), V(0, 0, 8, <<97>>, 1), V(29, 0, 1, <<98>>, 1), V(16, 0, 0, <<97>>, 2) }
SomeSups == { [type |-> <<97, 10>>, svt |-> 1, sdt |-> 1030] }
SomeScopes == { [typ |-> 0, name |-> <<97, 98, 99, 100>>, component |-> <<>>], [typ |-> 22, name |-> <<>>, component |-> <<98>>] }
SomeAttrs == { [typ |-> 4, subtype |-> 1, name |-> <<>>, arg |-> 300], [typ |-> 2, subtype |-> 15, name |-> <<97>>, arg |-> 0],
               [typ |-> 1, subtype |-> 4, name |-> <<254, 97, 98, 99, 100, 101, 102, 103, 104>>, arg |-> 2^29] }
SomeComments == { [comm |-> <<97, 13, 32, 98>>, typ |-> t] : t \in {0, 6} }
SomeStems == { [path |-> <<97>>, line |-> 7, typ |-> 4], [path |-> <<97, 10, 98>>, line |-> 0, typ |-> 5] }
SomeTables == { [name |-> <<101>>, literals |-> <<<<97>>, <<32>>>>, vals |-> <<<<48>>, <<49, 49>>>>] }
FirrtlVars == { V(16, 0, 1, <<97>>, 0), V(30, 0, 8, <<98>>, 0) }
=============================================================================
