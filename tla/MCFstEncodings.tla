--------------------------- MODULE MCFstEncodings ---------------------------
(***************************************************************************)
(* The encodings of an FST file, one of them at a time: values and numbers,*)
(* the hierarchy, the names of scopes, the header, the index of chains.    *)
(***************************************************************************)
EXTENDS MCFstValue, MCFstHier, FstScopes, FstHeader, MCFstChainIndex

Names3 == {<<>>, <<97>>, <<98, 99>>}
HeaderStrings == {<<>>, <<98, 99>>, <<97, 97, 97, 97>>, <<97, 98, 99, 100, 101, 102>>}
Version1 == <<102>>
Date1 == <<68, 10>>
Scales == {-21, 2, 0}
EndTimes == {[times |-> <<first, first + length>>, counts |-> <<2, 258, 3, 1>>] : first \in {0, 3}, length \in {0, 300}}
Zerotimes == {-1, 0, 32767, -32768, 300}

VARIABLE part

EncodingsInit ==
  /\ part \in {"values", "hierarchy", "scopes", "header", "index"}
  /\ ValueInit /\ HierInit /\ ScopesInit /\ HeaderInit /\ Init

Only(p) ==
  /\ part = p /\ UNCHANGED part
  /\ p # "values" => UNCHANGED valueVars
  /\ p # "hierarchy" => UNCHANGED hierVars
  /\ p # "scopes" => UNCHANGED scopesVars
  /\ p # "header" => UNCHANGED headerVars
  /\ p # "index" => UNCHANGED vars

EncodingsNext ==
  \/ Only("values") /\ ValueNext
  \/ Only("hierarchy") /\ HierNext
  \/ Only("scopes") /\ ScopesNext
  \/ Only("header") /\ HeaderNext
  \/ Only("index") /\ Next

EncodingsSpec == EncodingsInit /\ [][EncodingsNext]_<<part, valueVars, hierVars, scopesVars, headerVars, vars>>
=============================================================================
