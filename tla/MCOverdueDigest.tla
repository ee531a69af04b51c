-------------------------- MODULE MCOverdueDigest --------------------------
(* Small instances of OverdueDigest: two channels in the order of the      *)
(* enum, one that does not push.                                           *)
EXTENDS OverdueDigest, TLC

CONSTANTS ticker, sendNow, mail, webhook, inApp, l1, l2

OneChannel == <<mail>>
TwoChannels == <<mail, webhook>>
=============================================================================
