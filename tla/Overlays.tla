------------------------------ MODULE Overlays ------------------------------
(* The dash and the HUD: dash/DashController.cpp and hud/HudController.cpp with the key
   bindings of plugins/unityshell/src/unityshell.cpp that show them, the messages they
   send over UBus, and what launchers and panels make of those.

   At most one of the two is to be open.  Who opens one hides the other by a message that
   arrives later, and who finds the screen grabbed waits for the grab to end.

   Abstracted: what is searched for and shown; whether the dash is at the command lens, to
   a choice; fades to their ends; the clock of a wait.  Left out: expo, and monitors that
   come and go. *)
EXTENDS UBusServer, SequencesExt

CONSTANTS Monitors,    \* the monitors, with a launcher and a panel each
          MaxMessages  \* bound: messages in the queues before somebody sends more

ASSUME OverlaysAssumption == Monitors # {} /\ MaxMessages \in Nat

OverlayNames == {"dash", "hud"}

VARIABLES shell,  \* see Shells
          mouse   \* external: the monitor with the mouse

vars == <<shell, mouse>>

\* fade is where timeline_animator_ is or goes; the window is there unless it is "out"
OverlayStates == [visible : BOOLEAN, fade : {"out", "rising", "in", "falling"}, monitor : Monitors]

Messages ==
  [name : {"OVERLAY_SHOWN", "OVERLAY_HIDDEN"}, overlay : OverlayNames, monitor : Monitors]
  \cup [name : {"LOCK_HIDE", "UNLOCK_HIDE", "OVERLAY_CLOSE", "HUD_CLOSE", "ACTIVATE", "GOTO", "EXTERNAL"}]

Shells ==
  [dash : OverlayStates, hud : OverlayStates,
   need_show : BOOLEAN,                   \* the HUD controller waits for the end of a grab
   waiting : Seq(OverlayNames),           \* screen_ungrabbed_slot_ and hud_ungrab_slot_, in the order of connection
   queue : [Priorities -> Seq(Messages)], \* msg_queue_ of UBusServer
   launchers : [Monitors -> [dash : BOOLEAN, hud : BOOLEAN]], \* dash_is_open_ and hud_is_open_
   locked : BOOLEAN,                      \* LOCK_HIDE of the launchers' hide machines
   panels : [Monitors -> OverlayNames \cup {""}],             \* active_overlay_
   grab : {"none", "other", "scale"},     \* external: who has the keyboard, "scale" is the plugin
   focus : {"app", "dash", "hud"},        \* external: who has the input focus
   notice : BOOLEAN]                      \* external: the plugin will hear that an application got it

TypeOK == shell \in Shells /\ mouse \in Monitors

Closed(m) == [visible |-> FALSE, fade |-> "out", monitor |-> m]

Init ==
  /\ mouse \in Monitors
  /\ shell \in {[dash |-> Closed(m), hud |-> Closed(m), need_show |-> FALSE, waiting |-> <<>>,
                 queue |-> NoMessages, launchers |-> [n \in Monitors |-> [dash |-> FALSE, hud |-> FALSE]],
                 locked |-> FALSE, panels |-> [n \in Monitors |-> ""],
                 grab |-> "none", focus |-> "app", notice |-> FALSE]
                : m \in Monitors}

-----------------------------------------------------------------------------
(* Messages and the input focus *)

Send(s, message) == [s EXCEPT !.queue = SendMessageFull(@, message, "DEFAULT")]
SendOverlay(s, name, overlay, m) == Send(s, [name |-> name, overlay |-> overlay, monitor |-> m])

\* RestoreInputFocus, and what IsScreenGrabbed does after it had the keyboard to try
FocusApplication(s) == [s EXCEPT !.focus = "app", !.notice = TRUE]

\* Mutant: the HUD is forgotten
ReFocusDashInput(s) == [s EXCEPT !.notice = FALSE, !.focus = IF s.dash.visible THEN "dash" ELSE @]

\* The plugin hears of the new focus and gives it back to an open overlay
ReFocusKeyInput(s) ==
  [s EXCEPT !.notice = FALSE,
            !.focus = IF s.dash.visible THEN "dash" ELSE IF s.hud.visible THEN "hud" ELSE @]

-----------------------------------------------------------------------------
(* Waiting for a grab to end; a new wait replaces the connection and the timer *)

StopWaiting(s, overlay) == [s EXCEPT !.waiting = RemoveFirst(@, overlay)]
Wait(s, overlay) == [s EXCEPT !.waiting = Append(RemoveFirst(@, overlay), overlay)]

-----------------------------------------------------------------------------
(* The dash *)

\* An overlay whose window is still there stays on its monitor
Opened(overlay) ==
  [visible |-> TRUE, fade |-> "rising", monitor |-> IF overlay.fade # "out" THEN overlay.monitor ELSE mouse]

ShowDash(s) ==
  IF s.dash.visible THEN s
  ELSE IF s.grab # "none" THEN Wait(s, "dash")
  ELSE LET t == [StopWaiting(FocusApplication(s), "dash") EXCEPT !.dash = Opened(@), !.focus = "dash"]
       IN SendOverlay(t, "OVERLAY_SHOWN", "dash", t.dash.monitor)

HideDash(s) ==
  IF ~s.dash.visible THEN s
  ELSE SendOverlay([FocusApplication(s) EXCEPT !.dash.visible = FALSE, !.dash.fade = "falling"],
                   "OVERLAY_HIDDEN", "dash", s.dash.monitor)

QuicklyHideDash(s) == [HideDash(s) EXCEPT !.dash.fade = "out"]

OnExternalShowDash(s) == IF s.dash.visible THEN HideDash(s) ELSE ShowDash(s)

\* DashView::OnActivateRequest; an open dash closes again if nobody says where to go
OnActivateRequest(s, message) ==
  IF ~s.dash.visible THEN Send(s, [name |-> "EXTERNAL"])
  ELSE IF message = "GOTO" THEN s
  ELSE [s EXCEPT !.queue = SendMessageFull(@, [name |-> "OVERLAY_CLOSE"], "HIGH")]

-----------------------------------------------------------------------------
(* The HUD.  The plugin looks whether the screen is grabbed, and the controller looks
   again: late says that a grab came in between *)

HudShown(s) ==
  LET t == [FocusApplication(s) EXCEPT !.hud = Opened(@), !.need_show = TRUE, !.focus = "hud"]
  IN SendOverlay(Send(t, [name |-> "LOCK_HIDE"]), "OVERLAY_SHOWN", "hud", t.hud.monitor)

ShowHudOf(s, late) ==
  IF s.hud.visible \/ s.grab = "scale" THEN s
  ELSE IF s.grab # "none" THEN [s EXCEPT !.need_show = TRUE]
  ELSE IF late THEN [s EXCEPT !.need_show = TRUE, !.grab = "other"]
  ELSE HudShown(s)

HideHud(s) ==
  IF ~s.hud.visible THEN s
  ELSE LET t == [FocusApplication(s) EXCEPT !.hud.visible = FALSE, !.hud.fade = "falling", !.need_show = FALSE]
       IN SendOverlay(Send(t, [name |-> "UNLOCK_HIDE"]), "OVERLAY_HIDDEN", "hud", s.hud.monitor)

\* OnScreenUngrabbed of the controller; a hidden window takes no focus
HudUngrabbed(s, late) ==
  IF ~s.need_show THEN s
  ELSE ShowHudOf(IF s.hud.visible THEN [s EXCEPT !.focus = "hud"] ELSE s, late)

\* UnityScreen::ShowHud
ShowHud(s, late) ==
  IF s.hud.visible THEN HideHud(s)
  ELSE IF s.grab # "none" THEN Wait(HideDash(s), "hud")
  ELSE ShowHudOf(StopWaiting(FocusApplication(HideDash(s)), "hud"), late)

-----------------------------------------------------------------------------
(* Who hears what *)

HideBoth(s) == HideHud(HideDash(s))

\* Mutant: the HUD does not give way
MakeRoomInDash(s, overlay) == IF overlay = "dash" THEN s ELSE HideDash(s)

\* Both controllers: something else is coming up
MakeRoom(s, overlay) == IF overlay = "dash" THEN HideHud(s) ELSE HideDash(s)

\* OnOverlayShown of the launchers and the panels
OverlayShown(s, overlay, m) ==
  [s EXCEPT !.launchers[m] = [@ EXCEPT ![overlay] = TRUE], !.panels[m] = overlay]

\* Mutant: whatever is hidden, the panel leaves its overlay mode
OverlayHiddenAny(s, overlay, m) ==
  [s EXCEPT !.launchers[m] = [@ EXCEPT ![overlay] = FALSE], !.panels[m] = ""]

\* OnOverlayHidden of the launchers and the panels
OverlayHidden(s, overlay, m) ==
  [s EXCEPT !.launchers[m] = [@ EXCEPT ![overlay] = FALSE],
            !.panels[m] = IF @ = overlay THEN "" ELSE @]

Deliver(s, m) ==
  CASE m.name = "OVERLAY_SHOWN"  -> OverlayShown(MakeRoom(s, m.overlay), m.overlay, m.monitor)
    [] m.name = "OVERLAY_HIDDEN" -> OverlayHidden(s, m.overlay, m.monitor)
    [] m.name = "LOCK_HIDE"      -> [s EXCEPT !.locked = TRUE]
    [] m.name = "UNLOCK_HIDE"    -> [s EXCEPT !.locked = FALSE]
    [] m.name = "OVERLAY_CLOSE"  -> HideBoth(s)
    [] m.name = "HUD_CLOSE"      -> HideHud(s)
    [] m.name = "EXTERNAL"       -> OnExternalShowDash(s)
    [] OTHER                     -> OnActivateRequest(s, m.name)

-----------------------------------------------------------------------------
(* The main loop *)

Becomes(s) == shell' = s /\ UNCHANGED mouse

DispatchMessages(p) ==
  /\ Due(shell.queue, p)
  /\ Becomes(FoldLeft(Deliver, [shell EXCEPT !.queue = Rest(@, p)], shell.queue[p]))

\* Other sources have the priority of most messages
Turn == shell.queue["HIGH"] = <<>>

FadeFinished ==
  /\ Turn
  /\ \/ shell.dash.fade = "rising" /\ Becomes([shell EXCEPT !.dash.fade = "in"])
     \/ shell.dash.fade = "falling" /\ Becomes([shell EXCEPT !.dash.fade = "out"])
     \/ shell.hud.fade = "rising" /\ Becomes([shell EXCEPT !.hud.fade = "in"])
     \/ shell.hud.fade = "falling" /\ Becomes([shell EXCEPT !.hud.fade = "out"])

\* grab_wait_ of the dash, HUD_UNGRAB_WAIT of the plugin
WaitTimeout(overlay) ==
  /\ Turn
  /\ Contains(shell.waiting, overlay)
  /\ Becomes(StopWaiting(shell, overlay))

\* screen_ungrabbed, after the end of any grab, also of those that IsScreenGrabbed takes
\* itself; the screen may be grabbed again.  A slot that connects anew is not called.
Called(s, overlay, late) == IF overlay = "dash" THEN ShowDash(s) ELSE ShowHud(s, late)
AllCalled(s, slots, late) == FoldLeft(LAMBDA t, overlay : Called(t, overlay, late), s, slots)

ScreenUngrabbed(late) == Turn /\ Becomes(AllCalled(HudUngrabbed(shell, late), shell.waiting, late))

FocusChangeNotify ==
  /\ Turn /\ shell.notice
  /\ Becomes(ReFocusKeyInput(shell))

-----------------------------------------------------------------------------
(* The user and the other parts of the shell *)

Room == Turn /\ Len(shell.queue["DEFAULT"]) + Len(shell.queue["LOW"]) < MaxMessages

TerminateScale(s) == IF s.grab = "scale" THEN [s EXCEPT !.grab = "none"] ELSE s

\* A tap of Super: showLauncherKeyTerminate, which leaves a scale that was just begun
SuperTap ==
  /\ Room
  /\ \E start \in {shell, TerminateScale(shell)} :
       LET s == HideHud(start)
           t == ShowDash(s)
       IN IF s.dash.visible THEN Becomes(HideDash(s)) \/ Becomes(Send(s, [name |-> "GOTO"]))
          ELSE Becomes(IF t.dash.visible THEN Send(t, [name |-> "GOTO"]) ELSE t)

\* A tap of Alt
AltTap(late) == Room /\ Becomes(ShowHud(shell, late))

\* Alt+F2: SendExecuteCommand
RunCommand ==
  LET s == TerminateScale(HideHud(shell))
  IN /\ Room
     /\ \/ s.dash.visible /\ Becomes(Send(s, [name |-> "OVERLAY_CLOSE"]))
        \/ Becomes([s EXCEPT !.queue = SendMessageFull(@, [name |-> "GOTO"], "LOW")])

\* The launcher's dash icon and its menu; an icon, a menu, an indicator or the switcher
\* closes what is open; the HUD's search is used
OthersSend(name) ==
  /\ Room
  /\ name = "HUD_CLOSE" => shell.hud.visible
  /\ Becomes(Send(shell, [name |-> name]))

\* Clicks beside an overlay, on an indicator
ClickOutside ==
  /\ Turn
  /\ IF shell.dash.visible THEN Becomes(HideDash(shell)) \/ Becomes(QuicklyHideDash(shell))
     ELSE Becomes(HideHud(shell))

\* Show desktop, the lock screen, another viewport, key navigation of the launcher
OthersHide == Turn /\ Becomes(HideBoth(shell))

\* Windows are spread, which hides both
ScaleStarts == Turn /\ shell.grab = "none" /\ Becomes(HideBoth([shell EXCEPT !.grab = "scale"]))

\* External
GrabChanges == Becomes([shell EXCEPT !.grab = IF @ = "none" THEN "other" ELSE "none"])
ApplicationTakesFocus == Becomes(FocusApplication(shell))
MouseMoves == mouse' \in Monitors /\ UNCHANGED shell

Next ==
  \/ \E p \in Priorities : DispatchMessages(p)
  \/ FadeFinished
  \/ \E overlay \in OverlayNames : WaitTimeout(overlay)
  \/ \E late \in BOOLEAN : ScreenUngrabbed(late) \/ AltTap(late)
  \/ FocusChangeNotify
  \/ SuperTap \/ RunCommand
  \/ \E name \in {"ACTIVATE", "GOTO", "OVERLAY_CLOSE", "HUD_CLOSE"} : OthersSend(name)
  \/ ClickOutside \/ OthersHide \/ ScaleStarts
  \/ GrabChanges \/ ApplicationTakesFocus \/ MouseMoves

Spec == Init /\ [][Next]_vars

-----------------------------------------------------------------------------
(* Properties *)

Told == shell.queue = NoMessages

\* Dash and HUD are never both open, unless the message is on its way that makes one of
\* them go (DashController.cpp:179, "hide if something else is coming up").
OneOverlay ==
  shell.dash.visible /\ shell.hud.visible =>
    \E i \in DOMAIN shell.queue["DEFAULT"] : shell.queue["DEFAULT"][i].name = "OVERLAY_SHOWN"

\* When all messages have arrived, launchers and panels know what is open and on which
\* monitor, and the launchers are locked away exactly while the HUD is open.
ShellAgrees ==
  Told =>
    /\ shell.locked = shell.hud.visible
    /\ \A m \in Monitors :
         LET open == {o \in OverlayNames : shell[o].visible /\ shell[o].monitor = m}
         IN /\ {o \in OverlayNames : shell.launchers[m][o]} = open
            /\ IF shell.panels[m] = "" THEN open = {} ELSE open = {shell.panels[m]}

\* The input goes to the overlay that is open, and to none that is closed, once what was
\* told and what X has to tell has arrived.
FocusFollows ==
  Told /\ ~shell.notice =>
    shell.focus = IF shell.dash.visible THEN "dash" ELSE IF shell.hud.visible THEN "hud" ELSE "app"
=============================================================================
