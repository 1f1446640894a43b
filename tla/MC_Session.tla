----------------------------- MODULE MC_Session -----------------------------
(* Instantiates Session for TLC: two users owning one sub-account each,   *)
(* one known security, one adapter, and the inbound messages of a run.    *)
EXTENDS Session

CONSTANTS u1, u2, a1, a2, ad1, nouser, bad

MCUsers == {u1, u2}
MCAccounts == {a1}
MCOwns == (u1 :> {a1}) @@ (u2 :> {})

LoginMsg(v, n, ok) == [verb |-> v, name |-> n, pwdOk |-> ok]
Ids(v, l) == [verb |-> v, ids |-> l]
Verb(v) == [verb |-> v]
Test(t) == [verb |-> "algo_test", token |-> t]

(* Traffic that drives the publisher: login, subscriptions, PnL latch.  *)
MsgsPublish ==
  {LoginMsg("login", u1, TRUE), Ids("sub", <<1>>), Ids("unsub", <<1>>),
   Verb("pnl")}

(* Traffic that exercises the dispatcher: the gate, failed and repeated   *)
(* logins, validation, malformed input and test algos.                    *)
MsgsDispatch ==
  {Verb("h"), Verb("garbage"), Verb("empty"),
   LoginMsg("login", u1, TRUE), LoginMsg("login", u2, TRUE),
   LoginMsg("login", u1, FALSE), LoginMsg("login", nouser, TRUE),
   LoginMsg("validate_user", u1, TRUE), Ids("sub", <<1, 1>>),
   Test("t1"), Test(NoToken)}

(* The client names a security the server does not know.                  *)
MsgsUnknown ==
  {LoginMsg("login", u1, TRUE), Ids("sub", <<9>>), Ids("sub", <<1>>)}

(* An unsub list whose first id is not subscribed.                        *)
MsgsUnsub ==
  {LoginMsg("login", u1, TRUE), Ids("sub", <<1>>), Ids("unsub", <<2, 1>>)}

(* A sub list with a non-integer element after a known id.                *)
MsgsBad ==
  {LoginMsg("login", u1, TRUE), Ids("sub", <<1, bad>>), Verb("empty")}
=============================================================================
