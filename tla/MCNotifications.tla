--------------------------- MODULE MCNotifications ---------------------------
(* Constants of Notifications for TLC: two alerts, matched by one rule.    *)
EXTENDS Notifications

TwoAlerts == 1..2
=============================================================================
