----------------------------- MODULE Waveform ------------------------------
(***************************************************************************)
(* What an FST file promises, with no sections, tables or buffers in it:   *)
(* initial values are collected until the first time; from then on the     *)
(* changes of every variable are kept in the order of emission, and time   *)
(* never runs backwards, over all variables; closing the file adds and     *)
(* loses nothing, except that a file whose time never advanced presents    *)
(* its initial values as changes at time 0.                                *)
(***************************************************************************)
EXTENDS Integers, Sequences

CONSTANTS Handle, VarLen, Value, Unset

VARIABLES
  stage,    (* "declaring", "running" or "closed".                         *)
  initial,  (* Per handle, its value before the first time.                *)
  wave      (* Per handle, the sequence of [time, val] a reader gets.      *)

wvars == <<stage, initial, wave>>

Events == UNION {{wave[h][k] : k \in DOMAIN wave[h]} : h \in Handle}

Init ==
  /\ stage = "declaring"
  /\ initial = [h \in Handle |-> Unset]
  /\ wave = [h \in Handle |-> <<>>]

SetInitial(h, v) ==
  /\ stage = "declaring"
  /\ h \notin VarLen
  /\ initial' = [initial EXCEPT ![h] = v]
  /\ UNCHANGED <<stage, wave>>

Start ==
  /\ stage = "declaring"
  /\ stage' = "running"
  /\ UNCHANGED <<initial, wave>>

Emit(h, t, v) ==
  /\ stage = "running"
  /\ UNCHANGED <<stage, initial>>
  /\ wave' = [wave EXCEPT ![h] = Append(@, [time |-> t, val |-> v])]
  /\ \A e \in Events : e.time <= t

Close ==
  /\ stage = "running"
  /\ stage' = "closed"
  /\ UNCHANGED <<initial, wave>>

(* Known: the handles declared so far.                                     *)
CloseUnstarted(Known) ==
  /\ stage = "declaring"
  /\ stage' = "closed"
  /\ wave' = [h \in Handle |-> IF h \in Known \ VarLen
                THEN <<[time |-> 0, val |-> initial[h]]>> ELSE <<>>]
  /\ UNCHANGED initial

(* Emit's time is not bounded here; a checker supplies the range of times. *)
NextUpTo(Times) ==
  \/ \E h \in Handle, v \in Value : SetInitial(h, v)
  \/ \E h \in Handle, v \in Value, t \in Times : Emit(h, t, v)
  \/ Start
  \/ Close
  \/ \E Known \in SUBSET Handle : CloseUnstarted(Known)
=============================================================================
