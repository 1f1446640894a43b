------------------------------ MODULE Session ------------------------------
(***************************************************************************)
(* The per-connection session engine of opentrade (class Connection in    *)
(* src/opentrade/connection.cc) on a stateful transport.                  *)
(*                                                                         *)
(* Every handler of a session runs on its strand: a FIFO of tasks run one *)
(* at a time.  Tasks are posted by three kinds of actors:                 *)
(*   - the transport, for each inbound message (OnMessageAsync);          *)
(*   - the session's timer, when a wait completes (PublishMarketdata);    *)
(*   - trading engines on their own threads (Send(Confirmation),          *)
(*     Send(Algo, ...), SendTestMsg), after a check made off the strand.  *)
(* A task runs atomically when it reaches the head of the strand: that is *)
(* exactly the mutual exclusion the strand gives.                         *)
(*                                                                         *)
(* Data is abstracted: a market-data snapshot is a timestamp and one      *)
(* price field, a PnL is a (realized, unrealized) pair of small values,   *)
(* a message is a record naming its verb and the arguments that steer     *)
(* the handler.  `out' holds the frames the last step wrote to the        *)
(* transport and `cview' what a client that applies every frame it        *)
(* receives knows; both are history, read only by properties.             *)
(***************************************************************************)
EXTENDS Naturals, Sequences, FiniteSets, SequencesExt, TLC

CONSTANTS
  Users,        \* users known to AccountManager
  NoUser,       \* user_ == nullptr, and a login name no user has
  Disabled,     \* users with is_disabled set
  Accounts,     \* sub-accounts
  Owns,         \* Owns[u]: the sub-accounts of user u (user->sub_accounts)
  SecIds,       \* security ids SecurityManager knows
  UnknownIds,   \* integer ids it does not know
  BadJson,      \* a list element that is not an integer (Get<int64_t> throws)
  Prices,       \* values of a market-data field; 0 is the zeroed snapshot's
  PnlVals,      \* values of a PnL component; 0 is the default pair's
  Adapters,     \* exchange-connectivity and market-data adapters
  AlgoTokens,   \* non-empty algo tokens a client may use
  HistAccounts, \* sub-accounts whose pnl-<id> file has records in the window
  Msgs,         \* the inbound messages the client may send
  MaxMsgs,      \* bound on inbound messages
  MaxPosts,     \* bound on pushes from trading engines
  MaxExt,       \* bound on changes of market data, PnL and connectivity
  MaxTm,        \* bound on a snapshot's timestamp
  Unseen,       \* no entry for an adapter in ecs_/mds_
  Absent        \* a field left out of a diff frame

ASSUME /\ NoUser \notin Users
       /\ Disabled \subseteq Users
       /\ Owns \in [Users -> SUBSET Accounts]
       /\ SecIds \cap UnknownIds = {}
       /\ 0 \in Prices /\ 0 \in PnlVals
       /\ HistAccounts \subseteq Accounts
       /\ MaxMsgs \in Nat /\ MaxPosts \in Nat /\ MaxExt \in Nat /\ MaxTm \in Nat

NoToken == ""        \* the empty algo token

Snap == [tm : 0..MaxTm, c : Prices]
Zero == [tm |-> 0, c |-> 0]                 \* a default-constructed MarketData
Pair == [r : PnlVals, u : PnlVals]
Pair0 == [r |-> 0, u |-> 0]                 \* a default-constructed pnl pair
Positions == Accounts \X SecIds             \* keys of sub_positions_

VARIABLES
  strand,     \* the session strand's queue of posted tasks
  closed,     \* closed_
  user,       \* user_
  tokens,     \* kTokens, by the user each minted token resolves to
  waits,      \* async_waits pending on timer_
  subs,       \* subs_: id -> [snap (last sent), cnt (ref count)]
  seen,       \* ecs_ and mds_: adapter -> last published state
  subPnl,     \* sub_pnl_
  pnlSent,    \* pnls_: account -> last sent aggregate PnL
  spnlSent,   \* single_pnls_: (account, security) -> last sent PnL
  testTokens, \* test_algo_tokens_
  running,    \* AlgoManager: tokens of the running algos
  md,         \* MarketDataManager: current snapshot per security
  connected,  \* adapter->connected()
  pnlNow,     \* PositionManager::pnls_
  spnlNow,    \* PositionManager::sub_positions_
  nMsgs, nPosts, nExt,  \* bounded counters of the environment's steps
  out,        \* frames written to the transport by the last step
  cview       \* the client's view built from every frame it received

vars == <<strand, closed, user, tokens, waits, subs, seen, subPnl, pnlSent,
          spnlSent, testTokens, running, md, connected, pnlNow, spnlNow,
          nMsgs, nPosts, nExt, out, cview>>
sessionVars == <<closed, user, tokens, waits, subs, seen, subPnl, pnlSent,
                 spnlSent, testTokens, running>>
envVars == <<md, connected, pnlNow, spnlNow>>

Task == [kind : {"msg"}, msg : Msgs] \cup [kind : {"tick"}]
        \cup [kind : {"cm"}, acc : Accounts] \cup [kind : {"algo"}]
        \cup [kind : {"test"}, tok : AlgoTokens, stopped : BOOLEAN]
IsTick(t) == t.kind = "tick"

-----------------------------------------------------------------------------
(* Sending.  Connection::Send(const std::string&) is declared in          *)
(* connection.h: it hands the frame to the transport unless the session   *)
(* is closed.                                                             *)
Deliver(frames) == IF closed THEN <<>> ELSE frames

(* What a client knows after applying one frame: md entries and single    *)
(* PnLs carry only the changed fields, the rest is the prior value.       *)
Merge(old, e) == [tm |-> e.t, c |-> IF e.c = Absent THEN old.c ELSE e.c]
ApplyFrame(v, f) ==
  CASE f.verb = "md" ->
         [v EXCEPT !.md = [id \in SecIds |->
            IF \E e \in f.entries : e.id = id
            THEN Merge(@[id], CHOOSE e \in f.entries : e.id = id) ELSE @[id]]]
    [] f.verb = "market" -> [v EXCEPT !.mkt[f.adapter] = f.up]
    [] f.verb = "pnl" ->
         [v EXCEPT !.spnl[<<f.acc, f.sec>>] =
            [u |-> f.u, r |-> IF f.r = Absent THEN @.r ELSE f.r]]
    [] f.verb = "Pnl" -> [v EXCEPT !.pnl[f.acc] = [r |-> f.r, u |-> f.u]]
    [] OTHER -> v
RECURSIVE ApplyFrames(_, _)
ApplyFrames(v, fs) ==
  IF fs = <<>> THEN v ELSE ApplyFrames(ApplyFrame(v, Head(fs)), Tail(fs))

(* Write frames and update the client's view; used by every task.         *)
Emit(frames) ==
  /\ out' = Deliver(frames)
  /\ cview' = ApplyFrames(cview, Deliver(frames))

-----------------------------------------------------------------------------
(* The timer.  PublishMarketdata: a closed session returns; otherwise     *)
(* expires_from_now cancels every pending wait (each cancelled handler is *)
(* posted with operation_aborted, which the handler ignores) and          *)
(* async_wait arms one new wait.                                          *)
(* Mutation: the `closed_' test dropped from PublishMarketdata.          *)
RearmIgnoringClose(w) ==
  [waits |-> 1, posted |-> [i \in 1..w |-> [kind |-> "tick"]]]
Rearm(w) == IF closed THEN [waits |-> w, posted |-> <<>>]
            ELSE [waits |-> 1, posted |-> [i \in 1..w |-> [kind |-> "tick"]]]

(* GetMarketData: an entry is built iff the timestamp moved; `t' is      *)
(* always set, so the `!j3.size()' test never drops an entry.             *)
(* Mutation: the diff keyed on a field instead of the timestamp.          *)
ChangedByPrice(cur, old) == cur.c # old.c
Changed(cur, old) == cur.tm # old.tm
Entry(id, cur, old) ==
  [id |-> id, t |-> cur.tm, c |-> IF cur.c # old.c THEN cur.c ELSE Absent]

(* MarketDataManager::Get for an id with no data yields an empty record.  *)
MdOf(id) == IF id \in SecIds THEN md[id] ELSE Zero

MdFrame(entries) ==
  IF entries = {} THEN <<>> ELSE <<[verb |-> "md", entries |-> entries]>>

-----------------------------------------------------------------------------
(* The handler bodies.  Each yields the frames it sends.                  *)

(* PublishMarketStatus *)
StatusFrames == SetToSeq({[verb |-> "market", adapter |-> a,
                             up |-> connected[a]] :
                             a \in {b \in Adapters : seen[b] # connected[b]}})

(* The single-position and aggregate PnL loops of the timer handler.      *)
Mine(acc) == user # NoUser /\ acc \in Owns[user]
SpnlDue == {p \in Positions : Mine(p[1]) /\ spnlNow[p] # spnlSent[p]}
PnlDue == {a \in Accounts : Mine(a) /\ pnlNow[a] # pnlSent[a]}
SpnlFrames == SetToSeq({[verb |-> "pnl", acc |-> p[1], sec |-> p[2],
                           u |-> spnlNow[p].u,
                           r |-> IF spnlNow[p].r # spnlSent[p].r
                                 THEN spnlNow[p].r ELSE Absent] : p \in SpnlDue})
PnlFrames == SetToSeq({[verb |-> "Pnl", acc |-> a, r |-> pnlNow[a].r,
                          u |-> pnlNow[a].u] : a \in PnlDue})

(* sub: subs_[id] inserts a zeroed entry for every integer id; only a     *)
(* known security is diffed, recorded as sent and counted.  A non-integer *)
(* id throws: the ids before it keep their effect, the md frame is lost.  *)
RECURSIVE SubIds(_, _, _)
SubIds(ids, s, es) ==
  IF ids = <<>> THEN [subs |-> s, entries |-> es, failed |-> FALSE]
  ELSE LET id == Head(ids)
           e == IF id \in DOMAIN s THEN s[id] ELSE [snap |-> Zero, cnt |-> 0]
       IN IF id = BadJson THEN [subs |-> s, entries |-> es, failed |-> TRUE]
          ELSE IF id \in SecIds
          THEN SubIds(Tail(ids),
                      (id :> [snap |-> md[id], cnt |-> e.cnt + 1]) @@ s,
                      IF Changed(md[id], e.snap)
                      THEN es \cup {Entry(id, md[id], e.snap)} ELSE es)
          ELSE SubIds(Tail(ids), (id :> e) @@ s, es)

(* unsub: an id that is not subscribed returns from the whole handler.    *)
RECURSIVE UnsubIds(_, _)
UnsubIds(ids, s) ==
  IF ids = <<>> THEN [subs |-> s, failed |-> FALSE]
  ELSE LET id == Head(ids) IN
       IF id = BadJson THEN [subs |-> s, failed |-> TRUE]
       ELSE IF id \notin DOMAIN s THEN [subs |-> s, failed |-> FALSE]
       ELSE IF s[id].cnt - 1 <= 0
            THEN UnsubIds(Tail(ids), [x \in DOMAIN s \ {id} |-> s[x]])
            ELSE UnsubIds(Tail(ids), [s EXCEPT ![id].cnt = @ - 1])

ErrFrame(ctx) == [verb |-> "error", ctx |-> ctx]

-----------------------------------------------------------------------------
Init ==
  /\ strand = <<>>
  /\ closed = FALSE
  /\ user = NoUser
  /\ tokens = {}
  /\ waits = 0
  /\ subs = <<>>
  /\ seen = [a \in Adapters |-> Unseen]
  /\ subPnl = FALSE
  /\ pnlSent = [a \in Accounts |-> Pair0]
  /\ spnlSent = [p \in Positions |-> Pair0]
  /\ testTokens = {}
  /\ running = {}
  /\ md = [id \in SecIds |-> Zero]
  /\ connected = [a \in Adapters |-> FALSE]
  /\ pnlNow = [a \in Accounts |-> Pair0]
  /\ spnlNow = [p \in Positions |-> Pair0]
  /\ nMsgs = 0 /\ nPosts = 0 /\ nExt = 0
  /\ out = <<>>
  /\ cview = [md |-> [id \in SecIds |-> Zero], mkt |-> [a \in Adapters |-> Unseen],
              pnl |-> [a \in Accounts |-> Pair0],
              spnl |-> [p \in Positions |-> Pair0]]

-----------------------------------------------------------------------------
(* Tasks run by the strand.  Head(strand) is the running task; a handler  *)
(* removes it and may post more tasks behind the queue.                   *)
HeadMsg(verbs) == /\ strand # <<>>
                  /\ Head(strand).kind = "msg"
                  /\ Head(strand).msg.verb \in verbs
M == Head(strand).msg
Done(posted) == strand' = Tail(strand) \o posted

(* OnMessageSync: "h" is echoed before anything is parsed.                *)
Heartbeat ==
  /\ HeadMsg({"h"})
  /\ Done(<<>>) /\ Emit(<<[verb |-> "h"]>>)
  /\ UNCHANGED <<sessionVars, envVars, nMsgs, nPosts, nExt>>

(* json::parse fails, or the action verb is empty.                        *)
Malformed ==
  /\ HeadMsg({"garbage", "empty"})
  /\ Done(<<>>)
  /\ Emit(<<ErrFrame(IF M.verb = "garbage" THEN "json" ELSE "action")>>)
  /\ UNCHANGED <<sessionVars, envVars, nMsgs, nPosts, nExt>>

(* Every action but "login" with no user: the token passed by a stateful  *)
(* transport resolves to nothing in kTokens, so the login error is sent.  *)
Gated == {"validate_user", "sub", "unsub", "pnl", "algo_test"}
PassesGate == user # NoUser
LoginGate ==
  /\ HeadMsg(Gated)
  /\ ~PassesGate
  /\ Done(<<>>) /\ Emit(<<ErrFrame("login")>>)
  /\ UNCHANGED <<sessionVars, envVars, nMsgs, nPosts, nExt>>

LoginState(m) == CASE m.name = NoUser -> "unknown user"
                   [] ~m.pwdOk        -> "wrong password"
                   [] m.name \in Disabled -> "disabled"
                   [] OTHER           -> "ok"

(* OnLogin for "validate_user": reply, session untouched.                 *)
ValidateUser ==
  /\ HeadMsg({"validate_user"})
  /\ PassesGate
  /\ Done(<<>>)
  /\ Emit(<<[verb |-> "user_validation",
             uid |-> IF LoginState(M) = "ok" THEN M.name ELSE NoUser]>>)
  /\ UNCHANGED <<sessionVars, envVars, nMsgs, nPosts, nExt>>

(* A good login binds a session that has no user yet.                    *)
(* Mutation: every good login binds (the `!user_' test dropped).          *)
BindsEveryLogin(st) == st = "ok"
Binds(st) == st = "ok" /\ user = NoUser

(* OnLogin for "login".  A failed login only replies.  A good one mints a *)
(* token and replies; if the session has no user yet it binds the user,   *)
(* starts the publisher and streams the reference data.                   *)
Login ==
  /\ HeadMsg({"login"})
  /\ LET st == LoginState(M)
         ok == [verb |-> "connection", state |-> st]
         bind == Binds(st)
         r == Rearm(waits)
     IN /\ tokens' = IF st = "ok" THEN tokens \cup {M.name} ELSE tokens
        /\ user' = IF bind THEN M.name ELSE user
        /\ waits' = IF bind THEN r.waits ELSE waits
        /\ Done(IF bind THEN r.posted ELSE <<>>)
        /\ Emit(<<ok>> \o IF bind THEN <<[verb |-> "refdata"]>> ELSE <<>>)
  /\ UNCHANGED <<closed, subs, seen, subPnl, pnlSent, spnlSent, testTokens,
                 running, envVars, nMsgs, nPosts, nExt>>

(* "sub" *)
Sub ==
  /\ HeadMsg({"sub"})
  /\ PassesGate
  /\ LET r == SubIds(M.ids, subs, {})
     IN /\ subs' = r.subs
        /\ Done(<<>>)
        /\ Emit(IF r.failed THEN <<ErrFrame("json")>> ELSE MdFrame(r.entries))
  /\ UNCHANGED <<closed, user, tokens, waits, seen, subPnl, pnlSent, spnlSent,
                 testTokens, running, envVars, nMsgs, nPosts, nExt>>

(* "unsub".  A client forgets a security once its subscription is gone.   *)
Unsub ==
  /\ HeadMsg({"unsub"})
  /\ PassesGate
  /\ LET r == UnsubIds(M.ids, subs)
         gone == DOMAIN subs \ DOMAIN r.subs
         frames == Deliver(IF r.failed THEN <<ErrFrame("json")>> ELSE <<>>)
     IN /\ subs' = r.subs
        /\ Done(<<>>)
        /\ out' = frames
        /\ cview' = [cview EXCEPT !.md = [id \in SecIds |->
                       IF id \in gone THEN Zero ELSE @[id]]]
  /\ UNCHANGED <<closed, user, tokens, waits, seen, subPnl, pnlSent, spnlSent,
                 testTokens, running, envVars, nMsgs, nPosts, nExt>>

(* "pnl": replay the history of the user's accounts, then latch sub_pnl_. *)
PnlHistory ==
  /\ HeadMsg({"pnl"})
  /\ PassesGate
  /\ subPnl' = TRUE
  /\ Done(<<>>)
  /\ Emit(SetToSeq({[verb |-> "Pnl-history", acc |-> a] :
                      a \in {b \in HistAccounts : Mine(b)}}))
  /\ UNCHANGED <<closed, user, tokens, waits, subs, seen, pnlSent, spnlSent,
                 testTokens, running, envVars, nMsgs, nPosts, nExt>>

(* test_algo_tokens_.insert(token) under `token.size()'.                 *)
(* Mutation: the empty token recorded too.                                *)
RecordedAlways(tok, toks) == toks \cup {tok}
Recorded(tok, toks) == IF tok # NoToken THEN toks \cup {tok} ELSE toks

(* OnAlgo "test": a token naming a running algo is refused; otherwise a   *)
(* non-empty token is recorded and the test algo spawned under it.        *)
AlgoTest ==
  /\ HeadMsg({"algo_test"})
  /\ PassesGate
  /\ Done(<<>>)
  /\ IF M.token \in running
     THEN /\ Emit(<<ErrFrame("duplicate token")>>)
          /\ UNCHANGED <<testTokens, running>>
     ELSE /\ Emit(<<>>)
          /\ testTokens' = Recorded(M.token, testTokens)
          /\ running' = IF M.token # NoToken THEN running \cup {M.token}
                        ELSE running
  /\ UNCHANGED <<closed, user, tokens, waits, subs, seen, subPnl, pnlSent,
                 spnlSent, envVars, nMsgs, nPosts, nExt>>

(* The timer handler: reschedule first, then connectivity, market data    *)
(* and, once sub_pnl_ is latched, the PnL diffs.  The body runs even when *)
(* the reschedule saw the session closed.                                 *)
Tick ==
  /\ strand # <<>> /\ IsTick(Head(strand))
  /\ LET r == Rearm(waits)
         entries == {Entry(id, MdOf(id), subs[id].snap) :
                     id \in {i \in DOMAIN subs : Changed(MdOf(i), subs[i].snap)}}
     IN /\ waits' = r.waits
        /\ Done(r.posted)
        /\ seen' = connected
        /\ subs' = [id \in DOMAIN subs |-> [subs[id] EXCEPT !.snap = MdOf(id)]]
        /\ IF subPnl
           THEN /\ spnlSent' = [p \in Positions |->
                                  IF p \in SpnlDue THEN spnlNow[p] ELSE spnlSent[p]]
                /\ pnlSent' = [a \in Accounts |->
                                 IF a \in PnlDue THEN pnlNow[a] ELSE pnlSent[a]]
                /\ Emit(StatusFrames \o MdFrame(entries) \o SpnlFrames \o PnlFrames)
           ELSE /\ UNCHANGED <<spnlSent, pnlSent>>
                /\ Emit(StatusFrames \o MdFrame(entries))
  /\ UNCHANGED <<closed, user, tokens, subPnl, testTokens, running, envVars,
                 nMsgs, nPosts, nExt>>

(* Tasks posted by the trading engines: encode and send.                  *)
Pushed ==
  /\ strand # <<>>
  /\ Head(strand).kind \in {"cm", "algo", "test"}
  /\ LET t == Head(strand)
     IN Emit(CASE t.kind = "cm" -> <<[verb |-> "order", acc |-> t.acc]>>
               [] t.kind = "algo" -> <<[verb |-> "algo"]>>
               [] OTHER -> <<[verb |-> "test_msg"]>> \o
                           IF t.stopped THEN <<[verb |-> "test_done"]>> ELSE <<>>)
  /\ Done(<<>>)
  /\ UNCHANGED <<sessionVars, envVars, nMsgs, nPosts, nExt>>

Handle == Heartbeat \/ Malformed \/ LoginGate \/ ValidateUser \/ Login \/ Sub
          \/ Unsub \/ PnlHistory \/ AlgoTest \/ Tick \/ Pushed

-----------------------------------------------------------------------------
(* Steps of the other actors.                                             *)
Quiet == out' = <<>> /\ UNCHANGED cview

(* Transport thread: OnMessageAsync drops a message once closed.          *)
Receive(m) ==
  /\ nMsgs < MaxMsgs
  /\ nMsgs' = nMsgs + 1
  /\ strand' = IF closed THEN strand ELSE Append(strand, [kind |-> "msg", msg |-> m])
  /\ Quiet
  /\ UNCHANGED <<sessionVars, envVars, nPosts, nExt>>

(* The timer's wait completes; the wrapped handler is posted.             *)
TimerFires ==
  /\ waits > 0
  /\ waits' = 0
  /\ strand' = strand \o [i \in 1..waits |-> [kind |-> "tick"]]
  /\ Quiet
  /\ UNCHANGED <<closed, user, tokens, subs, seen, subPnl, pnlSent, spnlSent,
                 testTokens, running, envVars, nMsgs, nPosts, nExt>>

(* The transport closes the session.                                      *)
Close ==
  /\ ~closed
  /\ closed' = TRUE
  /\ Quiet
  /\ UNCHANGED <<strand, user, tokens, waits, subs, seen, subPnl, pnlSent,
                 spnlSent, testTokens, running, envVars, nMsgs, nPosts, nExt>>

(* Mutation: strand_.dispatch for post, running the task ahead of those  *)
(* already queued.                                                        *)
PostDispatch(ok, task) ==
  /\ nPosts < MaxPosts
  /\ nPosts' = nPosts + 1
  /\ strand' = IF ~closed /\ ok THEN <<task>> \o strand ELSE strand
  /\ Quiet

(* Engine threads: the closed_/user_/token checks run off the strand.     *)
Post(ok, task) ==
  /\ nPosts < MaxPosts
  /\ nPosts' = nPosts + 1
  /\ strand' = IF ~closed /\ ok THEN Append(strand, task) ELSE strand
  /\ Quiet

SendConfirmation(acc) ==
  /\ Post(Mine(acc), [kind |-> "cm", acc |-> acc])
  /\ UNCHANGED <<sessionVars, envVars, nMsgs, nExt>>

SendAlgoEvent(owner) ==
  /\ Post(user # NoUser /\ user = owner, [kind |-> "algo"])
  /\ UNCHANGED <<sessionVars, envVars, nMsgs, nExt>>

(* A running algo reports test output; its last message stops it.        *)
SendTestMsg(tok, stopped) ==
  /\ tok \in running
  /\ Post(tok \in testTokens, [kind |-> "test", tok |-> tok, stopped |-> stopped])
  /\ running' = IF stopped THEN running \ {tok} ELSE running
  /\ UNCHANGED <<closed, user, tokens, waits, subs, seen, subPnl, pnlSent,
                 spnlSent, testTokens, envVars, nMsgs, nExt>>

(* Market data, connectivity and positions change under the session.      *)
Ext == nExt < MaxExt /\ nExt' = nExt + 1 /\ Quiet
                     /\ UNCHANGED <<strand, sessionVars, nMsgs, nPosts>>
MdChange(id, c) ==
  /\ md[id].tm < MaxTm
  /\ md' = [md EXCEPT ![id] = [tm |-> @.tm + 1, c |-> c]]
  /\ Ext /\ UNCHANGED <<connected, pnlNow, spnlNow>>
ConnChange(a) ==
  /\ connected' = [connected EXCEPT ![a] = ~@]
  /\ Ext /\ UNCHANGED <<md, pnlNow, spnlNow>>
PnlChange(a, p) ==
  /\ pnlNow[a] # p /\ pnlNow' = [pnlNow EXCEPT ![a] = p]
  /\ Ext /\ UNCHANGED <<md, connected, spnlNow>>
SpnlChange(q, p) ==
  /\ spnlNow[q] # p /\ spnlNow' = [spnlNow EXCEPT ![q] = p]
  /\ Ext /\ UNCHANGED <<md, connected, pnlNow>>

Environment ==
  \/ \E m \in Msgs : Receive(m)
  \/ TimerFires
  \/ Close
  \/ \E a \in Accounts : SendConfirmation(a)
  \/ \E u \in Users : SendAlgoEvent(u)
  \/ \E t \in AlgoTokens, s \in BOOLEAN : SendTestMsg(t, s)
  \/ \E id \in SecIds, c \in Prices : MdChange(id, c)
  \/ \E a \in Adapters : ConnChange(a)
  \/ \E a \in Accounts, p \in Pair : PnlChange(a, p)
  \/ \E q \in Positions, p \in Pair : SpnlChange(q, p)

Next == Handle \/ Environment

(* The io_service runs every posted handler and every expired wait.       *)
Fairness == WF_vars(Handle) /\ WF_vars(TimerFires)
Spec == Init /\ [][Next]_vars /\ Fairness

-----------------------------------------------------------------------------
(* Properties.                                                            *)

Frame == [verb : {"h", "refdata", "algo", "test_msg", "test_done"}]
         \cup [verb : {"error"}, ctx : STRING]
         \cup [verb : {"connection"}, state : STRING]
         \cup [verb : {"user_validation"}, uid : Users \cup {NoUser}]
         \cup [verb : {"md"}, entries : SUBSET [id : SecIds \cup UnknownIds,
                                   t : 0..MaxTm, c : Prices \cup {Absent}]]
         \cup [verb : {"market"}, adapter : Adapters, up : BOOLEAN]
         \cup [verb : {"pnl"}, acc : Accounts, sec : SecIds, u : PnlVals,
               r : PnlVals \cup {Absent}]
         \cup [verb : {"Pnl"}, acc : Accounts, r : PnlVals, u : PnlVals]
         \cup [verb : {"Pnl-history", "order"}, acc : Accounts]

TypeOK ==
  /\ strand \in Seq(Task)
  /\ closed \in BOOLEAN
  /\ user \in Users \cup {NoUser}
  /\ tokens \subseteq Users
  /\ waits \in Nat
  /\ DOMAIN subs \subseteq SecIds \cup UnknownIds
  /\ \A id \in DOMAIN subs : subs[id] \in [snap : Snap, cnt : Int]
  /\ seen \in [Adapters -> BOOLEAN \cup {Unseen}]
  /\ subPnl \in BOOLEAN
  /\ pnlSent \in [Accounts -> Pair] /\ spnlSent \in [Positions -> Pair]
  /\ testTokens \subseteq AlgoTokens /\ running \subseteq AlgoTokens
  /\ md \in [SecIds -> Snap]
  /\ out \in Seq(Frame)

(* The timer chain of PublishMarketdata (re-armed first thing in every    *)
(* tick): a session bound to a user and still open has exactly one tick   *)
(* pending, as a wait on timer_ or as a handler on the strand; before     *)
(* login there is none.  Two chains would double the publishing rate and  *)
(* none would stop it for good.                                           *)
Chain == waits + Len(SelectSeq(strand, IsTick))
TimerChain ==
  /\ Chain <= 1
  /\ (user # NoUser /\ ~closed) => Chain = 1
  /\ user = NoUser => Chain = 0

(* What the differ last sent (subs_ snapshots, ecs_/mds_, single_pnls_,   *)
(* pnls_) is what the client holds: every diff the timer and `sub' make   *)
(* is against data the client really received, so it never misses a      *)
(* change.                                                                *)
ClientViewConsistent ==
  ~closed =>
    /\ \A id \in DOMAIN subs \cap SecIds : cview.md[id] = subs[id].snap
    /\ \A a \in Adapters : cview.mkt[a] = seen[a]
    /\ \A a \in Accounts : Mine(a) => cview.pnl[a] = pnlSent[a]
    /\ \A p \in Positions : Mine(p[1]) => cview.spnl[p] = spnlSent[p]

(* Once the transport closed the session, the timer stops for good: the   *)
(* last pending wait fires, its handler sees closed_ and does not re-arm. *)
PublisherStops == closed ~> [](Chain = 0)

(* Spec 3 invariants 3 and 5 and spec 5, as a refinement: the strand is  *)
(* the channel's queue, and a step that writes frames writes to it.       *)
(* Every step of the session posts behind the queue, runs the oldest      *)
(* task, closes, or writes nothing; no frame is written once closed;      *)
(* every posted task eventually runs.                                     *)
Channel == INSTANCE SessionChannel
             WITH Tasks <- Task, MaxPosted <- 1, queue <- strand,
                  wrote <- (out # <<>>)
ChannelSpec == Channel!Spec

=============================================================================
