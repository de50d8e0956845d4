---------------------------- MODULE MCSubscription ----------------------------
EXTENDS Subscription, TLC

CONSTANTS old, new

MCChanges == (old :> 3) @@ (new :> 1)
===============================================================================
