--------------------------- MODULE MC_OrderEntry ---------------------------
(* Order arrays for TLC: every field of ["order", sec, acc, side, type,   *)
(* tif, qty, px, stop] ranges over a value of the right kind, values that *)
(* fail each check, and one value of a wrong JSON kind.                   *)
EXTENDS OrderEntry

I(x) == [kind |-> "int", v |-> x]
F(x) == [kind |-> "float", v |-> x]
S(w) == [kind |-> "str", v |-> w]

OrderMsgs(secs, accs, sides, types, tifs, qtys, stops) ==
  [sec : secs, acc : accs, side : sides, type : types, tif : tifs,
   qty : qtys, px : {F(10)}, stop : stops]

(* Every check and every type word, the spec's scenarios 3 and 4 among.   *)
MsgsAll == OrderMsgs({I(1), I(5), I(99999), F(1)}, {S("desk1"), S("nodesk"), I(1)},
                     {S("buy"), S("up")},
                     {S(w) : w \in {"market", "stop", "stop limit", "stop_limit",
                                    "otc", "limit"}},
                     {S("gtc"), S("day"), S("ioc")}, {I(100), S("x")},
                     {I(0), I(1), I(-1)})
(* Well-formed orders of every type the encoder prints.                   *)
MsgsTypes == OrderMsgs({I(1)}, {S("desk1")}, {S("buy")},
                       {S(w) : w \in {"market", "stop", "stop limit", "otc", "limit"}},
                       {S(w) : w \in {"gtc", "opg", "ioc", "fok", "gtx", "day"}},
                       {I(100)}, {I(1)})
=============================================================================
