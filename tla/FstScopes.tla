----------------------------- MODULE FstScopes -----------------------------
(***************************************************************************)
(* The flat name of the current scope, which a client of the reader builds *)
(* with fstReaderPushScope, fstReaderPopScope and fstReaderResetScope: one *)
(* string of all open scopes, and a list of how long it was at each.       *)
(***************************************************************************)
EXTENDS Integers, Sequences, SequencesExt

CONSTANTS
  ScopeNames,   (* Names of scopes; the empty one may be among them.        *)
  Dot,          (* The character between two names.                         *)
  MaxDepth      (* Bound on the open scopes.                                *)

ASSUME ScopesAssumption == Dot \in Int /\ \A nam \in ScopeNames : nam \in Seq(Int)

VARIABLES
  curr_flat_hier_nam,   (* The string.                                      *)
  alloc,                (* The bytes allocated for it.                      *)
  curr_hier,            (* The length of the string at every open scope.    *)
  flat                  (* What the client was given at every open scope.   *)
scopesVars == <<curr_flat_hier_nam, alloc, curr_hier, flat>>

Top(s, none) == IF s = <<>> THEN none ELSE s[Len(s)]

ScopesInit ==
  /\ curr_flat_hier_nam = <<>> /\ alloc = 0
  /\ curr_hier = <<>> /\ flat = <<>>

(* flat_hier_alloc_len is never set, so the string is reallocated every     *)
(* time, and may shrink.  A scope in one without a name has no dot.         *)
Joined(chl, nam) ==
  IF chl > 0 THEN SubSeq(curr_flat_hier_nam, 1, chl) \o <<Dot>> \o nam ELSE nam
Allocated(chl, nam) == chl + 1 + Len(nam) + 1
PushScope(nam) ==
  LET chl == Top(curr_hier, 0) IN
  /\ Len(curr_hier) < MaxDepth
  /\ curr_flat_hier_nam' = Joined(chl, nam)
  /\ alloc' = Allocated(chl, nam)
  /\ curr_hier' = Append(curr_hier, IF chl > 0 THEN chl + 1 + Len(nam) ELSE Len(nam))
  /\ flat' = Append(flat, IF Top(flat, <<>>) = <<>> THEN nam ELSE Top(flat, <<>>) \o <<Dot>> \o nam)

(* A 0 is written where the enclosing scope's name ends.                    *)
EndOfPopped(s) == s[Len(s)]         (* Mutant: where the popped one's ends. *)
EndOf(s) == IF Len(s) = 1 THEN 0 ELSE s[Len(s) - 1]
PopScope ==
  /\ curr_hier # <<>>
  /\ curr_flat_hier_nam' = SubSeq(curr_flat_hier_nam, 1, EndOf(curr_hier))
  /\ curr_hier' = Front(curr_hier)
  /\ flat' = Front(flat)
  /\ UNCHANGED alloc

(* Pops until there is nothing to pop.                                      *)
ResetScope ==
  /\ curr_flat_hier_nam' = IF curr_hier = <<>> THEN curr_flat_hier_nam ELSE <<>>
  /\ curr_hier' = <<>> /\ flat' = <<>>
  /\ UNCHANGED alloc

ScopesNext == (\E nam \in ScopeNames : PushScope(nam)) \/ PopScope \/ ResetScope
ScopesSpec == ScopesInit /\ [][ScopesNext]_scopesVars

----------------------------------------------------------------------------
(* The flat name is that of the open scopes, joined by dots, however many   *)
(* were opened and closed since: after a pop it is what it was when the     *)
(* enclosing scope was pushed, empty names at any depth included            *)
(* (fstapi.c:3532-3600).  fstReaderGetCurrentScopeLen is its length.  No    *)
(* push or pop writes its 0 behind what is allocated, though every push may *)
(* have made the allocation smaller.                                        *)
ScopesFollow ==
  /\ curr_flat_hier_nam = Top(flat, <<>>)
  /\ Top(curr_hier, 0) = Len(curr_flat_hier_nam)
  /\ \A i \in 1 .. Len(curr_hier) : curr_hier[i] < alloc
=============================================================================
