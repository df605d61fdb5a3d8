---------------------------- MODULE MCLockScreen ----------------------------
EXTENDS LockScreenProperties

\* A session that may be locked and is, on suspend and after idling.
Locking == {[mayLock |-> TRUE, lockOnSuspend |-> TRUE, lockOnBlank |-> TRUE, useLegacy |-> FALSE]}
=============================================================================
