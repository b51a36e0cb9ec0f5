------------------------- MODULE MCOutboundDelivery -------------------------
(* An instance of OutboundDelivery for TLC: many messages in one chat, in   *)
(* two, with failing sends, or with three requests, two at a time.         *)
EXTENDS OutboundDelivery

MCBudgets == {<<4, 0, 1, 1>>, <<3, 0, 2, 0>>, <<2, 0, 1, 2>>, <<1, 3, 1, 1>>}
=============================================================================
