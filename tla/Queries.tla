------------------------------- MODULE Queries ------------------------------
(***************************************************************************)
(* The verbs of Connection::OnMessageSync that, like "order", answer one  *)
(* message from the message and the external managers alone: bod,        *)
(* reconnect, securities (OnSecurities), position (OnPosition), offline,  *)
(* cancel, and the algo sub-actions cancel, modify and unknown ones       *)
(* (OnAlgo).  It extends OrderEntry: `req' and `last' hold the message    *)
(* and what handling it did, for orders and queries alike.                *)
(*                                                                         *)
(* A query's outcome is a single frame, the sequence of frames it writes  *)
(* ([frames]), or the call it makes on a manager ([did]).  The offline    *)
(* replay encodes its confirmations with ConfirmationCodec.  What the     *)
(* managers outside src/ hold is given as constants.                      *)
(***************************************************************************)
EXTENDS OrderEntry, SequencesExt

CONSTANTS
  Owned,       \* names of the sub-accounts user_ owns
  Bods,        \* <<acc, sec>> keys of PositionManager::bods_
  MdAdapters,  \* names of market-data adapters
  EcAdapters,  \* names of exchange-connectivity adapters
  Brokered,    \* <<acc, sec>> pairs for which GetBroker finds an account
  OrderIds,    \* ids GlobalOrderBook::Get finds
  AlgoLog,     \* seqs of the algo events AlgoManager has stored
  ConfLog,     \* confirmations GlobalOrderBook has stored, with their seq
  QRequests    \* query messages a client may send

VARIABLES
  admin,      \* user_->is_admin
  stateless   \* transport_->stateless

qvars == <<vars, admin, stateless>>

Codec == INSTANCE ConfirmationCodec
           WITH ExecTypes <- {}, TransTypes <- {}, MaxSent <- 0,
                execs <- <<>>, sent <- <<>>

Frame(verb, args) == [verb |-> verb, args |-> args]
Frames(s) == [frames |-> s]
Did(call) == [did |-> call]
Complete(verb) == Frame(verb, <<"complete">>)

(* A throw of a getter or of ParseParams, caught by OnMessageSync.        *)
Failed(why) == [Thrown EXCEPT !.text = Text(why, 0, <<>>)]

(* An error frame of OnPosition, and its security-id text, the same       *)
(* pointer arithmetic as OnOrder's.                                       *)
PositionError(what, text) == [OrderError(what, text) EXCEPT !.ctx = "position"]
PositionSecurityErrors(id) ==
  {IF o = Crash THEN o ELSE [o EXCEPT !.ctx = "position"] : o \in SecurityErrors(id)}

(* bod: a frame per stored key, skipping keys of accounts a non-admin     *)
(* does not own.  The frames go in the map's key order, which nothing   *)
(* below observes.                                                        *)
(* Mutation: the is_admin exemption lost.                                 *)
BodVisibleOwnedOnly(k) == k[1] \in Owned
BodVisible(k) == admin \/ k[1] \in Owned
OnBod == Frames(SetToSeq({Frame("bod", k) : k \in {b \in Bods : BodVisible(b)}}))

(* reconnect: the market-data adapter of that name, else the exchange     *)
(* one, else nothing.                                                     *)
OnReconnect(r) ==
  IF ~IsStr(r.name) THEN {Thrown}
  ELSE IF r.name.v \in MdAdapters THEN {Did(<<"reconnect", "md", r.name.v>>)}
  ELSE IF r.name.v \in EcAdapters THEN {Did(<<"reconnect", "ec", r.name.v>>)}
  ELSE {Frames(<<>>)}

(* OnSecurities: the admin's long record or the short one; a frame each   *)
(* and a terminator, or one array on a stateless transport.               *)
SecRecords == [i \in 1..Cardinality(KnownSecs) |->
                 Frame("security", <<SetToSortSeq(KnownSecs, <)[i],
                                     IF admin THEN "long" ELSE "short">>)]
OnSecurities ==
  IF stateless THEN Frames(<<Frame("securities", SecRecords)>>)
  ELSE Frames(SecRecords \o <<Complete("securities")>>)

(* OnPosition: security, account name, then the broker flag and account. *)
(* What it finally writes is the request itself (`Send(j.dump())').      *)
OnPosition(r) ==
  IF ~IsInt(r.sec) THEN {Thrown}
  ELSE IF r.sec.v \notin KnownSecs THEN PositionSecurityErrors(r.sec.v)
  ELSE IF ~IsStr(r.acc) THEN {Thrown}
  ELSE IF r.acc.v \notin SubAccounts
  THEN {PositionError("account name", Text("Invalid account name: ", 0, <<r.acc.v>>))}
  ELSE IF r.broker.kind \notin {"absent", "bool"} THEN {Thrown}
  ELSE IF r.broker = [kind |-> "bool", v |-> TRUE] /\ <<r.acc.v, r.sec.v>> \notin Brokered
  THEN {PositionError("account name",
          Text("Can not find broker for this account and security pair", 0, <<>>))}
  ELSE {Frame("position", r)}

(* cancel: the order book lookup, then ExchangeConnectivityManager.       *)
OnCancel(r) ==
  IF ~IsInt(r.id) THEN {Thrown}
  ELSE IF r.id.v \notin OrderIds
  THEN {[verb |-> "error", ctx |-> "cancel", what |-> "order id",
         text |-> Text("Invalid order id: ", 0, <<r.id.v>>)]}
  ELSE {Did(<<"cancel", r.id.v>>)}

(* offline: with a third element, AlgoManager::LoadStore replays the      *)
(* stored algo events after it as "Algo" frames and the algo terminator   *)
(* follows; then the confirmation seq is read, which may throw with those *)
(* frames already written; GlobalOrderBook::LoadStore replays the stored  *)
(* confirmations after it through Send(cm, true).                         *)
Replay(c) == Codec!Encode([c EXCEPT !.offline = TRUE])
AlgoReplay(s) == [i \in 1..Cardinality({q \in AlgoLog : q > s}) |->
                    Frame("Algo", SetToSortSeq({q \in AlgoLog : q > s}, <)[i])]
OrderReplay(s) ==
  LET stored == SetToSortSeq({c \in ConfLog : c.seq > s}, LAMBDA x, y : x.seq < y.seq)
  IN SelectSeq([i \in DOMAIN stored |-> Replay(stored[i])],
               LAMBDA f : f # Codec!Dropped)
OnOffline(r) ==
  LET algos == IF r.seqAlgo.kind = "absent" THEN <<>>
               ELSE AlgoReplay(r.seqAlgo.v) \o <<Complete("offline_algos")>>
  IN IF r.seqAlgo.kind \notin {"absent", "int"} THEN {Thrown}
     ELSE IF ~IsInt(r.seqOrd) THEN {Frames(algos \o <<Thrown>>)}
     ELSE {Frames(algos \o OrderReplay(r.seqOrd.v)
                  \o <<Complete("offline_orders"), Complete("offline")>>)}

(* OnAlgo's cancel and modify go to AlgoManager by token when the key is  *)
(* a string and by id otherwise; modify parses its parameters first.      *)
(* Any other sub-action is answered "invalid action".                     *)
OnAlgoOther(r) ==
  IF r.action = "modify" /\ ~r.paramsOk THEN {Failed("params")}
  ELSE IF r.action \in {"cancel", "modify"}
  THEN IF IsStr(r.key) THEN {Did(<<r.action, "token", r.key.v>>)}
       ELSE IF IsInt(r.key) THEN {Did(<<r.action, "id", r.key.v>>)}
       ELSE {Thrown}
  ELSE {[verb |-> "error", ctx |-> "algo", what |-> "invalid action",
         text |-> Text(r.action, 0, <<>>)]}

OnQuery(r) ==
  CASE r.verb = "bod" -> {OnBod}
    [] r.verb = "reconnect" -> OnReconnect(r)
    [] r.verb = "securities" -> {OnSecurities}
    [] r.verb = "position" -> OnPosition(r)
    [] r.verb = "cancel" -> OnCancel(r)
    [] r.verb = "offline" -> OnOffline(r)
    [] r.verb = "algo" -> OnAlgoOther(r)

(* The session dispatches one query.                                      *)
Query(r) ==
  /\ ~crashed /\ n < MaxReq
  /\ \E o \in OnQuery(r) :
       /\ last' = o
       /\ crashed' = (o = Crash)
  /\ req' = r /\ n' = n + 1

(* The user and the transport of the session are fixed.                  *)
QInit == Init /\ admin \in BOOLEAN /\ stateless \in BOOLEAN

QNext == (Next \/ \E r \in QRequests : Query(r)) /\ UNCHANGED <<admin, stateless>>

QSpec == QInit /\ [][QNext]_qvars

-----------------------------------------------------------------------------
(* Spec 4.F, the rows of bod, reconnect, securities (4.H), position,      *)
(* offline, cancel and algo cancel/modify (4.F.2), for messages whose     *)
(* fields have the right JSON kinds: who sees which bod keys, which       *)
(* adapter reconnects, the securities framing per transport, the order of *)
(* the position checks, which stored confirmations and algo events the    *)
(* offline replay sends and where its terminators go, and which key the   *)
(* algo lookup uses.  The content of the position record is not checked  *)
(* (spec 8 open question b).                                              *)
QTyped(r) ==
  CASE r.verb = "reconnect" -> IsStr(r.name)
    [] r.verb = "position" -> IsInt(r.sec) /\ IsStr(r.acc) /\ r.broker.kind \in {"absent", "bool"}
    [] r.verb = "cancel" -> IsInt(r.id)
    [] r.verb = "offline" -> IsInt(r.seqOrd) /\ r.seqAlgo.kind \in {"absent", "int"}
    [] r.verb = "algo" -> r.action \notin {"cancel", "modify"} \/ IsStr(r.key) \/ IsInt(r.key)
    [] OTHER -> TRUE
Verbs(fs) == [i \in DOMAIN fs |-> fs[i].verb]
SpecOffline(r, fs) ==
  LET replayed == {c \in ConfLog : c.seq > r.seqOrd.v /\ ~Codec!SpecDropped(c)}
      orders == SelectSeq(fs, LAMBDA f : f.verb = "Order")
      algos == SelectSeq(fs, LAMBDA f : f.verb = "Algo")
  IN /\ Len(orders) = Cardinality(replayed)
     /\ Range(orders) = {Replay(c) : c \in replayed}
     /\ Range(algos) = IF r.seqAlgo.kind = "absent" THEN {}
                       ELSE {Frame("Algo", q) : q \in {q \in AlgoLog : q > r.seqAlgo.v}}
     /\ Len(algos) = Cardinality(Range(algos))
     /\ Complete("offline_orders") \in Range(fs)
     /\ fs[Len(fs)] = Complete("offline")
     /\ \A i, j \in DOMAIN fs : fs[i].verb = "Order" /\ fs[j] = Complete("offline_orders") => i < j
     /\ \A i, j \in DOMAIN fs : fs[i].verb = "Algo" /\ fs[j] = Complete("offline_algos") => i < j
     /\ (r.seqAlgo.kind = "absent") = (Complete("offline_algos") \notin Range(fs))
SpecQueryHolds(r, o) ==
  CASE r.verb = "bod" ->
         /\ Len(o.frames) = Cardinality({b \in Bods : admin \/ b[1] \in Owned})
         /\ {f.args : f \in Range(o.frames)} = {b \in Bods : admin \/ b[1] \in Owned}
    [] r.verb = "reconnect" ->
         o = IF r.name.v \in MdAdapters THEN Did(<<"reconnect", "md", r.name.v>>)
             ELSE IF r.name.v \in EcAdapters THEN Did(<<"reconnect", "ec", r.name.v>>)
             ELSE Frames(<<>>)
    [] r.verb = "securities" ->
         IF stateless THEN Len(o.frames) = 1
         ELSE /\ Len(o.frames) = Cardinality(KnownSecs) + 1
              /\ o.frames[Len(o.frames)] = Complete("securities")
    [] r.verb = "position" ->
         CASE r.sec.v \notin KnownSecs -> o.what = "security id"
           [] r.acc.v \notin SubAccounts -> o.what = "account name"
           [] r.broker.kind = "bool" /\ r.broker.v /\ <<r.acc.v, r.sec.v>> \notin Brokered ->
                o.what = "account name"
           [] OTHER -> o.verb = "position"
    [] r.verb = "cancel" ->
         IF r.id.v \in OrderIds THEN o = Did(<<"cancel", r.id.v>>) ELSE o.what = "order id"
    [] r.verb = "offline" -> SpecOffline(r, o.frames)
    [] r.verb = "algo" ->
         r.action \in {"cancel", "modify"} /\ (r.action = "cancel" \/ r.paramsOk) =>
           o.did[2] = IF IsStr(r.key) THEN "token" ELSE "id"
QueriesMatchSpec ==
  (n > 0 /\ ~crashed /\ req \in QRequests /\ QTyped(req)) => SpecQueryHolds(req, last)

=============================================================================
