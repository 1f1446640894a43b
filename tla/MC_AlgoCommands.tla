-------------------------- MODULE MC_AlgoCommands ---------------------------
(* Two sessions of two users, each owning one sub-account, sending        *)
(* "algo" new and test messages.                                          *)
EXTENDS AlgoCommands, TLC

CONSTANTS s1, s2, u1, u2, a1, a2

MCUserOf == (s1 :> u1) @@ (s2 :> u2)
MCOwns == (u1 :> {a1}) @@ (u2 :> {a2})

Absent == [kind |-> "absent"]
I(x) == [kind |-> "int", v |-> x]
S(w) == [kind |-> "str", v |-> w]
(* A security tuple {acc, qty, sec, side} naming account `acc' by id.      *)
Tuple(acc) == [kind |-> "object",
               o |-> [acc |-> I(acc), qty |-> I(100), sec |-> I(1),
                      side |-> S("buy"), src |-> Absent]]
Msg(action, name, token, params) ==
  [action |-> action, name |-> name, token |-> token, params |-> params]

(* `test' of a known algo, and `new' of it with the sender's or another   *)
(* user's account as a parameter, under one token.                        *)
MsgsRace ==
  {Msg("test", "twap", "t", <<>>), Msg("new", "twap", "t", <<Tuple(a1)>>)}

(* `new' naming an account as a parameter value and inside a vector.      *)
MsgsVector ==
  {Msg("new", "twap", "t", <<Tuple(a2)>>),
   Msg("new", "twap", "t", <<[kind |-> "array", elems |-> <<Tuple(a2)>>]>>)}

(* A tuple of `Tuple(a1)' with one field replaced.                         *)
TupleWith(f, v) == [kind |-> "object", o |-> [Tuple(a1).o EXCEPT ![f] = v]]

(* `new' with every scalar kind, a vector, a null and a good tuple; `new' *)
(* of tuples with one or two bad fields; `test' under the same token.      *)
MsgsParams ==
  {Msg("new", "twap", "t",
       <<[kind |-> "bool", v |-> TRUE], [kind |-> "float", v |-> 1], I(2),
         [kind |-> "null"], S("x"), Tuple(a1),
         [kind |-> "array", elems |-> <<I(1), S("y"), [kind |-> "null"]>>]>>),
   Msg("new", "twap", "u", <<TupleWith("qty", I(0))>>),
   Msg("new", "twap", "u", <<TupleWith("side", Absent)>>),
   Msg("new", "twap", "u", <<TupleWith("sec", I(2))>>),
   Msg("new", "twap", "u", <<TupleWith("acc", I(9))>>),
   Msg("new", "twap", "u", <<TupleWith("acc", Absent)>>),
   Msg("new", "twap", "u", <<[kind |-> "object",
                              o |-> [Tuple(a1).o EXCEPT !.qty = I(0), !.side = S("hold")]]>>),
   Msg("new", "twap", "u", <<[kind |-> "object",
                              o |-> [Tuple(a1).o EXCEPT !.acc = Absent, !.sec = Absent]]>>),
   Msg("test", "twap", "t", <<>>)}

=============================================================================
