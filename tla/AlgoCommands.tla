---------------------------- MODULE AlgoCommands ----------------------------
(***************************************************************************)
(* The "algo" verb's `new' and `test' (Connection::OnAlgo) of several      *)
(* sessions sharing one AlgoManager, with the security-tuple branch of    *)
(* ParseParamScalar that `new' runs (src/opentrade/connection.cc).        *)
(*                                                                         *)
(* One OnAlgo runs atomically on its session's strand, but sessions run   *)
(* in parallel.  The handler touches the shared AlgoManager twice:        *)
(* Get(token) for the duplicate test, then Spawn.  It is modelled as the  *)
(* two steps Check and Launch, and other sessions' steps may come in      *)
(* between.  AlgoManager is outside src/: Get finds a running algo by     *)
(* token and Spawn starts one under the token when it knows the algo      *)
(* name (spec 4.F.2 and 6).                                               *)
(*                                                                         *)
(* A JSON value is a record [kind, v]; a key missing from an object has   *)
(* kind "absent".  A parameter map is the sequence of its values in key   *)
(* order (nlohmann's object is a std::map).                               *)
(***************************************************************************)
EXTENDS Naturals, Sequences, FiniteSets

CONSTANTS
  Sessions,   \* live sessions, each bound to a user
  UserOf,     \* UserOf[s]: user_ of session s
  Owns,       \* Owns[u]: sub-accounts of user u
  Accounts,   \* sub-accounts AccountManager resolves, by id or name
  KnownSecs,  \* ids SecurityManager resolves
  Sides,      \* words GetOrderSide accepts
  AlgoNames,  \* names AlgoManager can spawn
  Requests,   \* ["algo", action, name, token, params] messages clients send
  MaxReq      \* messages explored

ASSUME MaxReq \in Nat

VARIABLES
  pc,      \* pc[s]: "idle", or "checked" between Get(token) and Spawn
  cur,     \* cur[s]: the message session s is handling or handled last
  reply,   \* reply[s]: the frame that handling wrote, or None
  algos,   \* AlgoManager: the running algos
  testTokens, \* testTokens[s]: test_algo_tokens_ of session s
  nReq

vars == <<pc, cur, reply, algos, testTokens, nReq>>

None == [verb |-> "none"]
NoToken == ""

IsNum(j) == j.kind \in {"int", "float"}
Present(j) == j.kind # "absent"

(* The tuple's keys in the order std::map iterates them (acc, qty, sec,   *)
(* side, src), each throwing at once, then the checks after the loop.     *)
(* An acc that is neither integer nor string is skipped.  A parsed value  *)
(* is [kind, elems, accs]: its alternative of ParamDef::Value, the kinds  *)
(* of a vector's elements, and the sub-accounts its tuples name.          *)
EmptyQtyStrict(q) == q < 0
EmptyQty(q) == q <= 0
ParseTuple(o) ==
  IF o.acc.kind = "int" /\ o.acc.v \notin Accounts THEN [err |-> "Unknown account id"]
  ELSE IF o.acc.kind = "str" /\ o.acc.v \notin Accounts THEN [err |-> "Unknown account"]
  ELSE IF Present(o.qty) /\ ~IsNum(o.qty) THEN [err |-> "wrong json value"]
  ELSE IF Present(o.sec) /\ o.sec.kind # "int" THEN [err |-> "wrong json value"]
  ELSE IF Present(o.sec) /\ o.sec.v \notin KnownSecs THEN [err |-> "Unknown security id"]
  ELSE IF Present(o.side) /\ o.side.kind # "str" THEN [err |-> "wrong json value"]
  ELSE IF Present(o.side) /\ o.side.v \notin Sides THEN [err |-> "Unknown order side"]
  ELSE IF Present(o.src) /\ o.src.kind # "str" THEN [err |-> "wrong json value"]
  ELSE IF ~Present(o.qty) \/ EmptyQty(o.qty.v) THEN [err |-> "Empty quantity"]
  ELSE IF ~Present(o.side) THEN [err |-> "Empty side"]
  ELSE IF ~Present(o.sec) THEN [err |-> "Empty security"]
  ELSE IF o.acc.kind \notin {"int", "str"} THEN [err |-> "Empty account"]
  ELSE [kind |-> "SecurityTuple", elems |-> <<>>, accs |-> {o.acc.v}]

(* The alternative `return {}' value-initialises: ParamDef::Value's first *)
(* alternative, bool (spec 3 lists the sum in declaration order).         *)
DefaultScalar == "bool"
Scalar(t) == [kind |-> t, elems |-> <<>>, accs |-> {}]

(* ParseParamScalar: float, integer, boolean and string keep their JSON   *)
(* kind, an object is a security tuple, anything else (null, an array     *)
(* inside a vector) falls to the final `return {}'.                       *)
ParseScalar(j) ==
  CASE j.kind = "float"  -> Scalar("double")
    [] j.kind = "int"    -> Scalar("int64_t")
    [] j.kind = "bool"   -> Scalar("bool")
    [] j.kind = "str"    -> Scalar("std::string")
    [] j.kind = "object" -> ParseTuple(j.o)
    [] OTHER             -> Scalar(DefaultScalar)

(* ParseParamValue: an array's elements are parsed as scalars into a      *)
(* ValueVector; the first that throws ends it.                            *)
RECURSIVE ParseElems(_, _, _)
ParseElems(es, elems, accs) ==
  IF es = <<>> THEN [kind |-> "ValueVector", elems |-> elems, accs |-> accs]
  ELSE LET r == ParseScalar(Head(es))
       IN IF "err" \in DOMAIN r THEN r
          ELSE ParseElems(Tail(es), Append(elems, r.kind), accs \cup r.accs)

ParseValueNoArray(j) == ParseScalar(j)
ParseValue(j) ==
  IF j.kind = "array" THEN ParseElems(j.elems, <<>>, {}) ELSE ParseScalar(j)

(* ParseParams: the first value that throws ends it.  `top' collects the  *)
(* accounts of tuples that are whole parameter values, `all' those of     *)
(* tuples inside vectors too, `vals' the parsed map in key order.         *)
RECURSIVE ParseParams(_, _, _, _)
ParseParams(ps, top, all, vals) ==
  IF ps = <<>> THEN [top |-> top, all |-> all, vals |-> vals]
  ELSE LET r == ParseValue(Head(ps))
       IN IF "err" \in DOMAIN r THEN r
          ELSE ParseParams(Tail(ps),
                           IF r.kind = "SecurityTuple" THEN top \cup r.accs ELSE top,
                           all \cup r.accs, Append(vals, r))

(* JsonifyScala: the tag a scalar alternative is written under in         *)
(* "algo_def", or <<>> where it returns false.  The value that follows    *)
(* the tag is left out.                                                   *)
JsonifyScala(t) ==
  CASE t = "bool"                           -> <<"bool">>
    [] t \in {"int64_t", "int32_t"}         -> <<"int">>
    [] t = "double"                         -> <<"float">>
    [] t \in {"std::string", "const char*"} -> <<"string">>
    [] t = "SecurityTuple"                  -> <<"security">>
    [] OTHER                                -> <<>>

(* Jsonify: a scalar, or "vector" and the encodings of the elements       *)
(* JsonifyScala accepts.                                                  *)
Jsonify(v) ==
  IF JsonifyScala(v.kind) # <<>> THEN JsonifyScala(v.kind)
  ELSE IF v.kind = "ValueVector"
  THEN <<"vector", SelectSeq([i \in 1..Len(v.elems) |-> JsonifyScala(v.elems[i])],
                             LAMBDA e : e # <<>>)>>
  ELSE <<>>

(* The loop over *params: std::get_if<SecurityTuple> sees only tuples     *)
(* that are whole parameter values.                                       *)
Permitted(s, p) == p.top \subseteq Owns[UserOf[s]]

Error(what, m) == [verb |-> "error", what |-> what, token |-> m.token]

Init == /\ pc = [s \in Sessions |-> "idle"]
        /\ cur = [s \in Sessions |-> None]
        /\ reply = [s \in Sessions |-> None]
        /\ algos = {}
        /\ testTokens = [s \in Sessions |-> {}]
        /\ nReq = 0

(* The strand of s starts OnAlgo: AlgoManager::Get(token).  A token that  *)
(* names a running algo is answered "duplicate token".                    *)
Check(s, m) ==
  /\ pc[s] = "idle" /\ nReq < MaxReq
  /\ nReq' = nReq + 1 /\ cur' = [cur EXCEPT ![s] = m]
  /\ IF \E a \in algos : a.token = m.token
     THEN /\ reply' = [reply EXCEPT ![s] = Error("duplicate token", m)]
          /\ UNCHANGED pc
     ELSE /\ pc' = [pc EXCEPT ![s] = "checked"]
          /\ reply' = [reply EXCEPT ![s] = None]
  /\ UNCHANGED <<algos, testTokens>>

(* The rest of the handler, through Spawn.  `new' parses the parameters   *)
(* and checks ownership; `test' records a non-empty token.  A Spawn that  *)
(* returns null is an error for `new' only (params is null for `test').   *)
Launch(s) ==
  /\ pc[s] = "checked"
  /\ pc' = [pc EXCEPT ![s] = "idle"]
  /\ LET m == cur[s]
         p == ParseParams(m.params, {}, {}, <<>>)
         isNew == m.action = "new"
         algo == [owner |-> s, token |-> m.token,
                  accs |-> IF isNew THEN p.all ELSE {},
                  params |-> m.params, vals |-> IF isNew THEN p.vals ELSE <<>>]
     IN IF isNew /\ "err" \in DOMAIN p
        THEN /\ reply' = [reply EXCEPT ![s] = Error(p.err, m)]
             /\ UNCHANGED <<algos, testTokens>>
        ELSE IF isNew /\ ~Permitted(s, p)
        THEN /\ reply' = [reply EXCEPT ![s] = Error("No permission", m)]
             /\ UNCHANGED <<algos, testTokens>>
        ELSE /\ testTokens' = IF ~isNew /\ m.token # NoToken
                              THEN [testTokens EXCEPT ![s] = @ \cup {m.token}]
                              ELSE testTokens
             /\ algos' = IF m.name \in AlgoNames THEN algos \cup {algo} ELSE algos
             /\ reply' = [reply EXCEPT ![s] =
                            IF m.name \notin AlgoNames /\ isNew
                            THEN Error("Unknown algo name", m) ELSE None]
  /\ UNCHANGED <<cur, nReq>>

(* A running algo finishes.                                               *)
Finish(a) == algos' = algos \ {a} /\ UNCHANGED <<pc, cur, reply, testTokens, nReq>>

Next == \/ \E s \in Sessions, m \in Requests : Check(s, m)
        \/ \E s \in Sessions : Launch(s)
        \/ \E a \in algos : Finish(a)

(* A strand runs a started handler to its end.                            *)
Spec == Init /\ [][Next]_vars /\ \A s \in Sessions : WF_vars(Launch(s))

-----------------------------------------------------------------------------
(* Spec 4.F.2 and scenario 5: a token never names two running algos.  The *)
(* Get(token) test and Spawn of two sessions interleave.                  *)
UniqueTokens ==
  \A a, b \in algos : a.token = b.token /\ a.token # NoToken => a = b

(* Spec 4.F.2: an algo started by `new' trades only with sub-accounts its *)
(* user owns, whichever parameter names them.                             *)
NewRespectsOwnership ==
  \A a \in algos : a.accs \subseteq Owns[UserOf[a.owner]]


(* Spec 8 invariant 6: a running algo's parameter map, parsed by          *)
(* ParseParams and written back by Jsonify as "algo_def" writes defaults, *)
(* keeps each scalar's JSON kind and each vector's element count.         *)
SpecTag == [bool |-> "bool", int |-> "int", float |-> "float", str |-> "string"]
ParamRoundTrip ==
  \A a \in algos : \A i \in 1..Len(a.vals) :
    LET j == a.params[i]
        e == Jsonify(a.vals[i])
    IN /\ j.kind \in DOMAIN SpecTag => e = <<SpecTag[j.kind]>>
       /\ j.kind = "array" => e # <<>> /\ e[1] = "vector" /\ Len(e[2]) = Len(j.elems)

(* Spec 4.C: a `new' whose one parameter is a well-typed security tuple   *)
(* with bad fields (quantity, side, security or account) is refused by    *)
(* ParseParamScalar, once the handler has run, with the reason of one of  *)
(* its bad fields: neither the throws of the key loop nor the checks      *)
(* after it may blame a good field or let a bad one through.              *)
WellTyped(o) ==
  /\ o.qty.kind \in {"absent", "int", "float"} /\ o.side.kind \in {"absent", "str"}
  /\ o.sec.kind \in {"absent", "int"} /\ o.src.kind \in {"absent", "str"}
Bad(o) ==
  {f \in {"qty", "side", "sec", "acc"} :
     CASE f = "qty"  -> ~Present(o.qty) \/ o.qty.v <= 0
       [] f = "side" -> ~Present(o.side) \/ o.side.v \notin Sides
       [] f = "sec"  -> ~Present(o.sec) \/ o.sec.v \notin KnownSecs
       [] f = "acc"  -> o.acc.kind \notin {"int", "str"} \/ o.acc.v \notin Accounts}
Reasons ==
  [qty  |-> {"Empty quantity"},
   side |-> {"Empty side", "Unknown order side"},
   sec  |-> {"Empty security", "Unknown security id"},
   acc  |-> {"Empty account", "Unknown account id", "Unknown account"}]
TupleReasons ==
  \A s \in Sessions :
    LET m == cur[s] IN
    /\ pc[s] = "idle" /\ m # None /\ m.action = "new"
    /\ Len(m.params) = 1 /\ m.params[1].kind = "object" /\ WellTyped(m.params[1].o)
    /\ Bad(m.params[1].o) # {}
    => /\ reply[s] # None
       /\ \/ reply[s].what = "duplicate token"
          \/ \E f \in Bad(m.params[1].o) : reply[s].what \in Reasons[f]

=============================================================================
