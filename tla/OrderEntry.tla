----------------------------- MODULE OrderEntry -----------------------------
(***************************************************************************)
(* The "order" verb: Connection::OnOrder (src/opentrade/connection.cc),    *)
(* and the type and tif encoders GetType/GetTif that the confirmation     *)
(* serializer uses to print an order back to the client.                  *)
(*                                                                         *)
(* A JSON value is a record [kind, v].  A string's v stands for its       *)
(* case-folded text: strcasecmp compares exactly that, so case is left    *)
(* out.  Error frames carry the error kind and an abstract text           *)
(* [lit, drop, tail]: the literal `lit' with its first `drop' characters  *)
(* skipped, followed by the sequence of values `tail'.                    *)
(***************************************************************************)
EXTENDS Integers, FiniteSets, TLC

CONSTANTS
  SubAccounts,  \* names AccountManager::GetSubAccount resolves
  KnownSecs,    \* ids SecurityManager::Get resolves
  Sides,        \* words GetOrderSide accepts
  CurrentUser,  \* user_ (the verb is gated, so a user is bound)
  Requests,     \* the order arrays a client may send
  MaxReq        \* requests explored

ASSUME MaxReq \in Nat

VARIABLES
  req,      \* the last request handled
  last,     \* what handling it did: a reply frame, a placed order, a crash
  crashed,  \* the process died of the undefined behaviour below
  n         \* requests handled

vars == <<req, last, crashed, n>>

None == [kind |-> "none"]
Crash == [kind |-> "crash"]

(* Get<int64_t>, Get<std::string> and GetNum: a value of another kind     *)
(* throws.                                                                *)
IsInt(j) == j.kind = "int"
IsStr(j) == j.kind = "str"
IsNum(j) == j.kind \in {"int", "float"}

(* The strcasecmp chain of OnOrder, keyed by the folded word; any other   *)
(* word leaves the Contract default.                                      *)
TypeOf == ("market" :> "kMarket") @@ ("stop" :> "kStop")
            @@ ("stop limit" :> "kStopLimit") @@ ("otc" :> "kOTC")
TifOf == ("gtc" :> "kGoodTillCancel") @@ ("opg" :> "kAtTheOpening")
           @@ ("ioc" :> "kImmediateOrCancel") @@ ("fok" :> "kFillOrKill")
           @@ ("gtx" :> "kGoodTillCrossing")
(* Mutation: the field left without its default.                          *)
ParseTypeNoDefault(s) == IF s \in DOMAIN TypeOf THEN TypeOf[s] ELSE "unset"
ParseType(s) == IF s \in DOMAIN TypeOf THEN TypeOf[s] ELSE "kLimit"
ParseTif(s) == IF s \in DOMAIN TifOf THEN TifOf[s] ELSE "kDay"

OrderTypes == {"kLimit"} \cup {TypeOf[w] : w \in DOMAIN TypeOf}
Tifs == {"kDay"} \cup {TifOf[w] : w \in DOMAIN TifOf}

(* GetType and GetTif, folded as the parser folds.                        *)
GetType == [kLimit |-> "limit", kMarket |-> "market", kStop |-> "stop",
            kStopLimit |-> "stop_limit", kOTC |-> "otc"]
GetTif == [kDay |-> "day", kImmediateOrCancel |-> "ioc",
           kGoodTillCancel |-> "gtc", kAtTheOpening |-> "opg",
           kFillOrKill |-> "fok", kGoodTillCrossing |-> "gtx"]

(* Mutation: only kStop asks for a stop price.                            *)
NeedsStopPriceStopOnly(t) == t = "kStop"
NeedsStopPrice(t) == t \in {"kStop", "kStopLimit"}

Text(lit, drop, tail) == [lit |-> lit, drop |-> drop, tail |-> tail]
OrderError(what, text) ==
  [verb |-> "error", ctx |-> "order", what |-> what, text |-> text]
(* A throw reaches the std::exception handler of OnMessageSync.           *)
Thrown == [verb |-> "error", ctx |-> "Connection::OnMessage", what |-> "",
           text |-> Text("wrong json value ", 0, <<>>)]

(* "Invalid security id: " + security_id is a const char* plus an         *)
(* int64_t: the pointer moves security_id characters into the 21-char     *)
(* literal.  From 0 to 21 it names a suffix; anywhere else the read is    *)
(* undefined, and the build either sends bytes from outside the literal   *)
(* or faults.                                                             *)
SecLit == "Invalid security id: "
SecLitLen == 21
SecurityErrors(id) ==
  IF id \in 0..SecLitLen
  THEN {OrderError("security id", Text(SecLit, id, <<>>))}
  ELSE {OrderError("security id", Text("?", 0, <<>>)), Crash}

(* The order handed to ExchangeConnectivityManager::Place.                *)
Contract(r) ==
  [sec |-> r.sec.v, acc |-> r.acc.v, side |-> r.side.v,
   type |-> ParseType(r.type.v), tif |-> ParseTif(r.tif.v),
   qty |-> r.qty.v, px |-> r.px.v, stop |-> r.stop.v, user |-> CurrentUser]

(* OnOrder, check by check in the code's order: the set of outcomes.      *)
OnOrder(r) ==
  IF ~IsInt(r.sec) \/ ~IsStr(r.acc) THEN {Thrown}
  ELSE IF r.acc.v \notin SubAccounts
  THEN {OrderError("sub_account", Text("Invalid sub_account: ", 0, <<r.acc.v>>))}
  ELSE IF ~IsStr(r.side) \/ ~IsStr(r.type) \/ ~IsStr(r.tif)
          \/ ~IsNum(r.qty) \/ ~IsNum(r.px) \/ ~IsNum(r.stop) THEN {Thrown}
  ELSE IF r.sec.v \notin KnownSecs THEN SecurityErrors(r.sec.v)
  ELSE IF r.side.v \notin Sides
  THEN {OrderError("side", Text("Invalid side: ", 0, <<r.side.v>>))}
  ELSE IF r.stop.v <= 0 /\ NeedsStopPrice(ParseType(r.type.v))
  THEN {OrderError("stop price", Text("Miss stop price for stop order", 0, <<>>))}
  ELSE {Contract(r)}

Init == req = None /\ last = None /\ crashed = FALSE /\ n = 0

(* The session dispatches one "order" message.                            *)
Submit(r) ==
  /\ ~crashed /\ n < MaxReq
  /\ \E o \in OnOrder(r) :
       /\ last' = o
       /\ crashed' = (o = Crash)
  /\ req' = r /\ n' = n + 1

Next == \E r \in Requests : Submit(r)

Spec == Init /\ [][Next]_vars

-----------------------------------------------------------------------------
IsOrder(o) == "type" \in DOMAIN o
IsError(o) == "what" \in DOMAIN o

TypeOK ==
  /\ crashed \in BOOLEAN /\ n \in 0..MaxReq
  /\ IsOrder(last) => last.type \in OrderTypes /\ last.tif \in Tifs

(* Spec 4.F.1, for requests whose fields have the right JSON kinds:       *)
(* sub-account, then security, then side, then the stop price of stop     *)
(* and stop-limit orders are checked, and an order passing them all is    *)
(* placed with the requested fields for the current user.  The spec does  *)
(* not spell the stop-limit word; this reference takes the parser's.      *)
SpecTypes == [market |-> "kMarket", stop |-> "kStop", otc |-> "kOTC"]
               @@ ("stop limit" :> "kStopLimit")
SpecTifs == [gtc |-> "kGoodTillCancel", opg |-> "kAtTheOpening",
             ioc |-> "kImmediateOrCancel", fok |-> "kFillOrKill",
             gtx |-> "kGoodTillCrossing"]
Typed(r) == IsInt(r.sec) /\ \A f \in {"acc", "side", "type", "tif"} : IsStr(r[f])
            /\ \A g \in {"qty", "px", "stop"} : IsNum(r[g])
SpecVerdict(r) ==
  CASE r.acc.v \notin SubAccounts -> "sub_account"
    [] r.sec.v \notin KnownSecs -> "security id"
    [] r.side.v \notin Sides -> "side"
    [] r.type.v \in {"stop", "stop limit"} /\ r.stop.v <= 0 -> "stop price"
    [] OTHER -> "placed"
SpecPlaced(r) ==
  /\ last.type = (IF r.type.v \in DOMAIN SpecTypes THEN SpecTypes[r.type.v]
                  ELSE "kLimit")
  /\ last.tif = (IF r.tif.v \in DOMAIN SpecTifs THEN SpecTifs[r.tif.v]
                 ELSE "kDay")
  /\ last.sec = r.sec.v /\ last.acc = r.acc.v /\ last.side = r.side.v
  /\ last.user = CurrentUser
CodeMatchesSpec ==
  (n > 0 /\ ~crashed /\ req \in Requests /\ Typed(req)) =>
    IF SpecVerdict(req) = "placed" THEN IsOrder(last) /\ SpecPlaced(req)
    ELSE IsError(last) /\ last.what = SpecVerdict(req)

(* Spec 4.G: a confirmation prints the order's type and tif; spec 4.F.1:  *)
(* a client sends them in the same words.  Every placed order's type and  *)
(* tif, printed by GetType/GetTif and parsed back by OnOrder, are the     *)
(* order's own.                                                           *)
TypeRoundTrip ==
  IsOrder(last) => /\ ParseType(GetType[last.type]) = last.type
                   /\ ParseTif(GetTif[last.tif]) = last.tif

=============================================================================
