-------------------------- MODULE ConfirmationCodec -------------------------
(***************************************************************************)
(* The confirmation encoder Connection::Send(const Confirmation&, bool)   *)
(* (src/opentrade/connection.cc): the switch over the execution type,     *)
(* whose cases fall through and pick their status word with               *)
(* `if (!status)'.  A frame is abstracted to its verb, its status word    *)
(* and the names of the fields it carries, in order; values are left out. *)
(***************************************************************************)
EXTENDS Naturals, Sequences

CONSTANTS
  ExecTypes,    \* exec_type values confirmations carry, one unlisted among
  TransTypes,   \* exec_trans_type values
  MaxSent       \* confirmations explored

ASSUME MaxSent \in Nat

VARIABLES
  execs,  \* the confirmations encoded so far
  sent    \* the frames written for them, Dropped where the encoder returned

vars == <<execs, sent>>

Dropped == [verb |-> "none"]

Header == <<"id", "ts", "seq">>
(* The order fields of the kUnconfirmedNew case.                          *)
Snapshot == <<"sec", "algo_id", "user", "sub_account", "broker_account",
              "qty", "price", "side", "type", "tif">>
(* The order fields of the kRiskRejected case.                            *)
RiskTail == <<"sec", "algo_id", "user", "sub_account",
              "qty", "price", "side", "type", "tif">>

PendingGroup == {"kPendingNew", "kPendingCancel", "kNew", "kCanceled"}
FillGroup == {"kFilled", "kPartiallyFilled"}
RejectGroup == {"kRejected", "kCancelRejected", "kRiskRejected"}

(* The word each case label assigns, and the labels whose assignment is  *)
(* unconditional; the other labels assign only `if (!status)'.            *)
Word == [kUnconfirmedNew |-> "unconfirmed", kPendingNew |-> "pending",
         kPendingCancel |-> "pending_cancel", kNew |-> "new",
         kCanceled |-> "cancelled", kFilled |-> "filled",
         kPartiallyFilled |-> "partial", kRejected |-> "new_rejected",
         kCancelRejected |-> "cancel_rejected",
         kRiskRejected |-> "risk_rejected"]
Unguarded == {"kUnconfirmedNew", "kPendingNew", "kFilled", "kRejected"}

(* The labels of each `break'-terminated run of cases, in source order;   *)
(* control entering at a label falls through the rest of its run.        *)
Runs == << <<"kUnconfirmedNew">>,
           <<"kPendingNew", "kPendingCancel", "kNew", "kCanceled">>,
           <<"kFilled", "kPartiallyFilled">>,
           <<"kRejected", "kCancelRejected", "kRiskRejected">> >>

NoStatus == "nullptr"

(* Mutation: every `if (!status)' guard dropped.                          *)
AssignUnguarded(l, status) == Word[l]
(* One label's assignment to `status'.                                    *)
Assign(l, status) ==
  IF l \notin Unguarded /\ status # NoStatus THEN status ELSE Word[l]

(* The assignments from label i of run r to the run's end.                *)
RECURSIVE FallThrough(_, _, _)
FallThrough(r, i, status) ==
  IF i > Len(r) THEN status ELSE FallThrough(r, i + 1, Assign(r[i], status))

(* The status word pushed for execution type e, starting from nullptr.    *)
Status(e) ==
  LET r == CHOOSE r \in {Runs[k] : k \in 1..Len(Runs)} : \E i \in 1..Len(r) : r[i] = e
      i == CHOOSE i \in 1..Len(r) : r[i] = e
  IN FallThrough(r, i, NoStatus)

(* Mutation: the order_id pushed for every case of the pending group.     *)
CarriesOrderIdAlways(e) == TRUE
CarriesOrderId(e) == e = "kNew"

(* The two `return's: the default label, and a fill whose transaction    *)
(* type is neither new nor cancel.                                        *)
Returns(c) ==
  \/ c.exec \notin DOMAIN Word
  \/ c.exec \in FillGroup /\ c.trans \notin {"kTransNew", "kTransCancel"}

(* The fields the switch pushes after the status.                         *)
Body(c) ==
  CASE c.exec = "kUnconfirmedNew" -> Snapshot
    [] c.exec \in PendingGroup ->
         (IF CarriesOrderId(c.exec) THEN <<"order_id">> ELSE <<>>)
           \o (IF c.text THEN <<"text">> ELSE <<>>)
    [] c.exec \in FillGroup ->
         <<"last_shares", "last_px", "exec_id",
           IF c.trans = "kTransNew" THEN "new" ELSE "cancel">>
    [] c.exec = "kRiskRejected" ->
         <<"text">> \o RiskTail \o (IF c.origId THEN <<"orig_id">> ELSE <<>>)
    [] c.exec \in RejectGroup -> <<"text">>

Encode(c) ==
  IF Returns(c) THEN Dropped
  ELSE [verb |-> IF c.offline THEN "Order" ELSE "order",
        status |-> Status(c.exec), fields |-> Header \o Body(c)]

(* c.text: the text is non-empty; c.origId: orig_id is non-zero.          *)
Confirmations == [exec : ExecTypes, trans : TransTypes, text : BOOLEAN,
                  origId : BOOLEAN, offline : BOOLEAN]

Init == execs = <<>> /\ sent = <<>>

(* A confirmation reaches the strand and is encoded and written.          *)
Encoded(c) ==
  /\ Len(sent) < MaxSent
  /\ execs' = Append(execs, c)
  /\ sent' = Append(sent, Encode(c))

Next == \E c \in Confirmations : Encoded(c)

Spec == Init /\ [][Next]_vars

-----------------------------------------------------------------------------
(* Spec 4.G, field by field: unconfirmed_new carries the order snapshot;  *)
(* pending_new, pending_cancel, new and canceled carry the order id (new *)
(* only) and a non-empty text; fills carry qty, price, exec id and the    *)
(* transaction type, and fills of other transaction types are dropped;   *)
(* rejections carry the text, risk_rejected then an order tail and a      *)
(* non-zero orig_id.  Offline replays use the capitalized verb.           *)
SpecFields(c) ==
  LET opt(b, f) == IF b THEN <<f>> ELSE <<>>
  IN CASE c.exec = "kUnconfirmedNew" -> Snapshot
       [] c.exec \in {"kPendingNew", "kPendingCancel", "kCanceled"} -> opt(c.text, "text")
       [] c.exec = "kNew" -> <<"order_id">> \o opt(c.text, "text")
       [] c.exec \in {"kFilled", "kPartiallyFilled"} ->
            <<"last_shares", "last_px", "exec_id">>
              \o opt(c.trans = "kTransNew", "new") \o opt(c.trans = "kTransCancel", "cancel")
       [] c.exec \in {"kRejected", "kCancelRejected"} -> <<"text">>
       [] c.exec = "kRiskRejected" -> <<"text">>
SpecListed == {"kUnconfirmedNew", "kPendingNew", "kPendingCancel", "kNew",
               "kCanceled", "kFilled", "kPartiallyFilled", "kRejected",
               "kCancelRejected", "kRiskRejected"}
SpecDropped(c) ==
  \/ c.exec \notin SpecListed
  \/ c.exec \in {"kFilled", "kPartiallyFilled"}
       /\ c.trans \notin {"kTransNew", "kTransCancel"}
CodecMatchesSpec ==
  \A i \in 1..Len(sent) :
    LET c == execs[i] IN
    IF SpecDropped(c) THEN sent[i] = Dropped
    ELSE /\ sent[i].verb = (IF c.offline THEN "Order" ELSE "order")
         /\ Len(sent[i].fields) >= 3 + Len(SpecFields(c))
         /\ SubSeq(sent[i].fields, 1, 3 + Len(SpecFields(c)))
              = Header \o SpecFields(c)
         /\ c.exec # "kRiskRejected" => Len(sent[i].fields) = 3 + Len(SpecFields(c))

(* A client tells the execution type of a frame by its status word: two   *)
(* frames with the same word come from confirmations of the same type.    *)
StatusIdentifiesExec ==
  \A i, j \in 1..Len(sent) :
    sent[i] # Dropped /\ sent[j] # Dropped /\ sent[i].status = sent[j].status
      => execs[i].exec = execs[j].exec

=============================================================================
