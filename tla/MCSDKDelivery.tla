---------------------------- MODULE MCSDKDelivery ----------------------------
\* SDKDelivery for TLC.  SDKs share nothing but the queue of notifications: one
\* SDK, with changes to its environment, to another one and to both, meets
\* every case; the run of RevocationClosesStream has two.
EXTENDS SDKDelivery

CONSTANTS e1, e2

MCEnvironmentOf == [s \in Sdk |-> e1]

==============================================================================
