-------------------------- MODULE MCLauncherReveal --------------------------
EXTENDS LauncherReveal

\* A state without the hover machine: nothing else depends on it.
Unhovered == <<hide, hidden, pressure, decaying, action, hud, dnd, push, window, drag>>
=============================================================================
