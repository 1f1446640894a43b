------------------------ MODULE MC_ConfirmationCodec ------------------------
(* Every execution type of the switch, one it does not list, and the     *)
(* three transaction types of a fill.                                     *)
EXTENDS ConfirmationCodec

MCExecTypes == {"kUnconfirmedNew", "kPendingNew", "kPendingCancel", "kNew",
                "kCanceled", "kFilled", "kPartiallyFilled", "kRejected",
                "kCancelRejected", "kRiskRejected", "kSuspended"}
MCTransTypes == {"kTransNew", "kTransCancel", "kTransCorrect"}
=============================================================================
