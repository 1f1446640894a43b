---------------------------- MODULE MC_Queries -----------------------------
(* The order arrays of MC_OrderEntry together with queries whose fields   *)
(* hit every branch: known and unknown names, ids and keys, values of a   *)
(* wrong JSON kind, and offline sequence numbers before, between and      *)
(* after the stored ones.                                                 *)
EXTENDS Queries, MC_OrderEntry

Absent == [kind |-> "absent"]
B(x) == [kind |-> "bool", v |-> x]

MCBods == {<<"desk1", 1>>, <<"desk2", 1>>}
MCBrokered == {<<"desk1", 1>>}
(* Stored confirmations: one the encoder drops, replayed or not.          *)
Conf(seq, exec, trans) ==
  [seq |-> seq, exec |-> exec, trans |-> trans, text |-> FALSE,
   origId |-> FALSE, offline |-> FALSE]
MCConfLog == {Conf(1, "kNew", "kTransNew"), Conf(2, "kFilled", "kTransCorrect"),
              Conf(3, "kFilled", "kTransNew")}

QueryMsgs ==
  {[verb |-> "bod"], [verb |-> "securities"]}
  \cup [verb : {"reconnect"}, name : {S("md1"), S("ec1"), S("none"), I(1)}]
  \cup [verb : {"position"}, sec : {I(1), I(5), S("1")}, acc : {S("desk1"), S("desk2"), S("nodesk"), I(1)},
        broker : {Absent, B(TRUE), B(FALSE), I(1)}]
  \cup [verb : {"cancel"}, id : {I(7), I(8), S("7")}]
  \cup [verb : {"offline"}, seqOrd : {I(0), I(2), I(3), S("x")}, seqAlgo : {Absent, I(0), I(1), S("x")}]
  \cup [verb : {"algo"}, action : {"cancel", "modify", "pause"},
        key : {S("t1"), I(4), F(1)}, paramsOk : BOOLEAN]
=============================================================================
