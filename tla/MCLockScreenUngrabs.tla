------------------------- MODULE MCLockScreenUngrabs -------------------------
EXTENDS LockScreenUngrabs

\* A session that is locked on demand and after idling, but not on suspend: no
\* inhibitor is ever asked for.
Uninhibited == {[mayLock |-> TRUE, lockOnSuspend |-> FALSE, lockOnBlank |-> TRUE, useLegacy |-> FALSE]}
=============================================================================
