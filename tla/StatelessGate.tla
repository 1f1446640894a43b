---------------------------- MODULE StatelessGate ---------------------------
(***************************************************************************)
(* The login gate of Connection::OnMessageSync(msg, token) on a           *)
(* stateless transport (src/opentrade/connection.cc), where every         *)
(* inbound message carries a session token.  kTokens is process-wide:     *)
(* logins on any session add to it, and nothing erases from it.  OnLogin  *)
(* on a stateless transport mints a token but never binds user_.          *)
(***************************************************************************)
EXTENDS Naturals, FiniteSets, TLC

CONSTANTS
  Users,      \* users who can log in
  NoUser,     \* user_ == nullptr
  Tokens,     \* the uuids kUuidGen may produce
  NoToken,    \* a token kTokens never holds (none sent, or a forged one)
  Actions,    \* verbs other than "h", "login" and validate_user
  MaxMsgs     \* messages explored

ASSUME NoUser \notin Users /\ NoToken \notin Tokens /\ MaxMsgs \in Nat

VARIABLES
  tokens,   \* kTokens: token -> user
  user,     \* user_ of the stateless connection
  acted,    \* the last message dispatched past the gate: its token and the user it ran as
  nMsgs

vars == <<tokens, user, acted, nMsgs>>

None == [tok |-> NoToken, as |-> NoUser]

Init == /\ tokens = <<>> /\ user = NoUser /\ acted = None /\ nMsgs = 0

(* A successful login on this or any other session: kTokens[token] =     *)
(* user with a fresh uuid.  A stateless session's user_ stays unset.     *)
Login(u) ==
  /\ nMsgs < MaxMsgs
  /\ \E t \in Tokens \ DOMAIN tokens : tokens' = (t :> u) @@ tokens
  /\ nMsgs' = nMsgs + 1
  /\ UNCHANGED <<user, acted>>

(* The gate: user_ is looked up from the message's token only while it is *)
(* null; a null result is answered "you must login first".  A message that *)
(* passes is dispatched as user_.                                         *)
Resolve(tok) == IF tok \in DOMAIN tokens THEN tokens[tok] ELSE NoUser
GateUser(tok) == IF user = NoUser THEN Resolve(tok) ELSE user
Dispatch(a, tok) ==
  /\ nMsgs < MaxMsgs
  /\ nMsgs' = nMsgs + 1
  /\ user' = GateUser(tok)
  /\ acted' = IF GateUser(tok) = NoUser THEN None ELSE [tok |-> tok, as |-> GateUser(tok)]
  /\ UNCHANGED tokens

Next == \/ \E u \in Users : Login(u)
        \/ \E a \in Actions, tok \in Tokens \cup {NoToken} : Dispatch(a, tok)

Spec == Init /\ [][Next]_vars

-----------------------------------------------------------------------------
(* Spec 4.F and 4.B: on a stateless transport the user is re-resolved     *)
(* from each message's token, so a message runs as the user its own token *)
(* names, and a message without a valid token does not run at all.        *)
TokenDecidesUser == acted # None => Resolve(acted.tok) = acted.as

=============================================================================
