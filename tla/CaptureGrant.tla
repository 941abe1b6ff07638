---------------------------- MODULE CaptureGrant ----------------------------
(***************************************************************************)
(* The permission to capture: what the host allows (capture/platform.rs,   *)
(* helper.rs), how it is asked for, granted and given back (capture/mod.rs,*)
(* topgent-ui/src/report.rs), and what the interface says of it            *)
(* (topgent-ui/src/capture.rs, lib.rs, agents.rs). Capture has the threads *)
(* that read; here a source reads or does not.                             *)
(*                                                                         *)
(* A permission is on a file and takes effect when the file is executed.   *)
(***************************************************************************)
EXTENDS Naturals

CONSTANTS
  Platforms,    \* a set of "linux", "macos", "windows"
  MaxChanges,   \* bound on what others change on the host
  MaxUses       \* bound on what the person does

VARIABLES
  host,       \* [platform, driver, backend]: the driver of Windows, whether a wire can be opened
  helperFile, \* the file beside the binary: [there, safe, open, cap]
  binary,     \* whether the file of the interface has the capability
  raw,        \* whether the kernel lets the running interface open a raw socket
  choice,     \* Held::wanted: whether it was switched off
  reader,     \* "none", "reading", "ended", "failed"; who reads: [state, by]
  dialog,     \* "closed", "capture", or another overlay
  outcome,    \* what the dialog says of the last attempt
  task,       \* an elevation that waits for its password: [does, on]
  changes, uses

hostVars == <<host, helperFile, binary>>
interfaceVars == <<dialog, outcome, task>>
grantVars == <<hostVars, raw, choice, reader, interfaceVars, changes, uses>>

GrantAssumption ==
  Platforms \subseteq {"linux", "macos", "windows"} /\ MaxChanges \in Nat /\ MaxUses \in Nat

NoHelper == [there |-> FALSE, safe |-> TRUE, open |-> FALSE, cap |-> FALSE]
NoReader == [state |-> "none", by |-> "nobody"]
NoTask == [does |-> "nothing", on |-> "nothing"]
Linux == host.platform = "linux"

-----------------------------------------------------------------------------
(* installed_helper, helper_path: one that others may write is not run.    *)
Installed == helperFile.there
Usable == helperFile.there /\ helperFile.safe
GrantTarget == IF Usable THEN "helper" ELSE "binary"

(* probe. The helper answers first where there is one; a binary that may,  *)
(* by its file, may not before it is restarted. On Windows a driver is     *)
(* missing, which is installed by hand.                                    *)
State ==
  CASE ~host.backend \/ (Installed /\ ~helperFile.safe) -> "unsupported"
    [] host.backend /\ Usable -> IF helperFile.cap THEN "available" ELSE "needs_grant"
    [] host.backend /\ Linux /\ ~Installed ->
         IF raw THEN "available" ELSE IF binary THEN "needs_restart" ELSE "needs_grant"
    [] host.backend /\ ~Linux /\ ~Installed ->
         IF host.platform = "windows" /\ ~host.driver THEN "needs_install" ELSE "available"

(* exposure.                                                               *)
Exposure ==
  IF ~Linux THEN "none"
  ELSE IF Installed /\ helperFile.cap /\ helperFile.open THEN "helper"
  ELSE IF Installed /\ binary THEN "binary"
  ELSE "none"

(* indicator: the label, which says on only of a capture that runs.        *)
Indicator ==
  CASE State = "available" /\ choice = "off" -> "off"
    [] State = "available" /\ choice # "off" /\ reader.state = "reading" -> "on"
    [] State = "available" /\ choice # "off" /\ reader.state = "none" -> "starting at next sweep"
    [] State = "available" /\ choice # "off" /\ reader.state \in {"ended", "failed"} -> "not running"
    [] State = "needs_restart" -> "restart to enable"
    [] State \in {"needs_grant", "needs_install"} -> "off"
    [] State = "unsupported" -> "unavailable here"

(* dialog: the buttons that can be pressed.                                *)
Buttons ==
  (IF reader.state = "reading" THEN {"turn off"}
   ELSE IF choice = "off" /\ State = "available" THEN {"turn on"} ELSE {})
  \cup (IF State = "needs_grant" THEN {"enable"} ELSE {})
  \cup (IF State = "available" /\ Linux THEN {"remove permission"} ELSE {})

-----------------------------------------------------------------------------
GrantInit ==
  /\ host \in [platform : Platforms, driver : BOOLEAN, backend : BOOLEAN]
  /\ host.platform = "linux" => host.backend /\ ~host.driver
  /\ helperFile \in [there : BOOLEAN, safe : BOOLEAN, open : BOOLEAN, cap : BOOLEAN]
  /\ ~helperFile.there \/ host.platform # "linux" =>
       helperFile = NoHelper
  /\ binary \in BOOLEAN /\ (binary => host.platform = "linux")
  /\ raw = binary
  /\ choice = "unset" /\ reader = NoReader
  /\ dialog = "closed" /\ outcome = "none" /\ task = NoTask
  /\ changes = 0 /\ uses = 0

(* ensure_started, by what a file or the process is allowed when it starts.*)
Begun ==
  IF Linux /\ Usable THEN [state |-> IF helperFile.cap THEN "reading" ELSE "ended", by |-> "helper"]
  ELSE IF (Linux /\ raw) \/ (~Linux /\ State = "available")
       THEN [state |-> "reading", by |-> "interface"]
  ELSE [state |-> "failed", by |-> "nobody"]

SweepStarts ==
  /\ choice # "off" /\ reader = NoReader
  /\ reader' = Begun
  /\ UNCHANGED <<hostVars, raw, choice, interfaceVars, changes, uses>>

(* The interface is closed and opened: what a file has takes effect.       *)
Restart ==
  /\ uses < MaxUses /\ uses' = uses + 1
  /\ raw' = binary
  /\ reader' = NoReader /\ dialog' = "closed" /\ outcome' = "none" /\ task' = NoTask
  /\ UNCHANGED <<hostVars, choice, changes>>

(* The helper is installed, replaced, or its permissions are set; the      *)
(* binary is replaced by an upgrade. A new file has no capability.         *)
HostChanges ==
  /\ Linux /\ changes < MaxChanges /\ changes' = changes + 1
  /\ \/ helperFile' \in {[NoHelper EXCEPT !.there = TRUE], NoHelper} /\ UNCHANGED binary
     \/ /\ helperFile.there /\ UNCHANGED binary
        /\ \E safe, open \in BOOLEAN : helperFile' = [helperFile EXCEPT !.safe = safe, !.open = open]
     \/ binary' = FALSE /\ UNCHANGED helperFile
  /\ UNCHANGED <<host, raw, choice, reader, interfaceVars, uses>>

-----------------------------------------------------------------------------
Does == uses < MaxUses /\ uses' = uses + 1

(* AskCapture, whose button is not drawn where there is nothing to do, and *)
(* CancelCapture.                                                          *)
AskCapture ==
  /\ State # "unsupported" /\ Does
  /\ dialog = "closed" /\ dialog' = "capture" /\ outcome' = "none"
  /\ UNCHANGED <<hostVars, raw, choice, reader, task, changes>>
CancelCapture ==
  /\ dialog = "capture" /\ dialog' = "closed"
  /\ UNCHANGED <<hostVars, raw, choice, reader, outcome, task, changes, uses>>

(* StopCapture and StartCapture.                                           *)
StopCapture ==
  /\ dialog = "capture" /\ "turn off" \in Buttons /\ Does
  /\ choice' = "off" /\ reader' = NoReader /\ outcome' = "off"
  /\ UNCHANGED <<hostVars, raw, dialog, task, changes>>
StartCapture ==
  /\ dialog = "capture" /\ "turn on" \in Buttons /\ Does
  /\ choice' = "on" /\ reader' = Begun
  /\ outcome' = IF reader'.state = "failed" THEN "did not start" ELSE "on"
  /\ UNCHANGED <<hostVars, raw, dialog, task, changes>>

(* GrantCapture and RevokeCapture, up to the password. Two at a time are   *)
(* left out: both would do the same.                                       *)
Ask(does) ==
  /\ dialog = "capture" /\ task = NoTask /\ Does
  /\ (IF does = "grant" THEN "enable" ELSE "remove permission") \in Buttons
  /\ outcome' = "asking the system"
  /\ task' = [does |-> does, on |-> GrantTarget]
  /\ UNCHANGED <<hostVars, raw, choice, reader, dialog, changes>>

(* grant and revoke look again after the command ran, and CaptureGranted   *)
(* opens the dialog unless it is done.                                     *)
Enabled == State \in {"available", "needs_restart"}
Removed == State \in {"needs_grant", "unsupported"}
(* Mutant: that the command ran is taken for its success.                  *)
DoneUnseen(does) == does \in {"grant", "revoke"}

Done(does) == IF does = "grant" THEN Enabled ELSE Removed

Finish(done, says) ==
  /\ outcome' = says
  /\ dialog' = IF done THEN "closed" ELSE "capture"
  /\ task' = NoTask
  /\ UNCHANGED <<choice, reader, changes, uses>>

(* elevate: setcap on the file that was the target when it was asked for;  *)
(* it may change nothing.                                                  *)
Elevated ==
  /\ task # NoTask
  /\ \/ /\ task.on = "helper" /\ helperFile.there
        /\ helperFile' = [helperFile EXCEPT !.cap = task.does = "grant"] /\ UNCHANGED <<host, binary>>
     \/ task.on = "binary" /\ binary' = (task.does = "grant") /\ UNCHANGED <<host, helperFile>>
     \/ UNCHANGED hostVars
  /\ UNCHANGED raw
  /\ \E does \in {task.does} :
       IF Done(does)' THEN Finish(TRUE, IF does = "grant" THEN "enabled" ELSE "removed")
       ELSE Finish(FALSE, "no change")
Refused ==
  /\ task # NoTask
  /\ \E says \in {"declined", "not attempted"} : Finish(FALSE, says)
  /\ UNCHANGED <<hostVars, raw>>

GrantNext ==
  \/ SweepStarts \/ Restart \/ HostChanges
  \/ AskCapture \/ CancelCapture \/ StopCapture \/ StartCapture
  \/ \E does \in {"grant", "revoke"} : Ask(does)
  \/ Elevated \/ Refused

GrantSpec == GrantInit /\ [][GrantNext]_grantVars

-----------------------------------------------------------------------------
(* A helper that others may write is not run, and the interface reads in   *)
(* its place, if it may, though the host is said not to be supported.      *)
Distrusted == Installed /\ ~helperFile.safe

(* live.rs:155-158: nothing is said to be on that does not read, and what  *)
(* reads can be turned off, though the permission is gone.                 *)
OnIsOn ==
  /\ Indicator = "on" => reader.state = "reading"
  /\ reader.state = "reading" /\ ~Distrusted => State # "unsupported" /\ "turn off" \in Buttons

(* platform.rs:54-63: where capture is said to be available the next one   *)
(* reads; who is told to restart is helped by it.                          *)
RestartHelps ==
  /\ State = "available" => Begun.state = "reading"
  /\ State = "needs_restart" => ~Installed /\ binary

(* mod.rs:443-453: an attempt that is said to have succeeded has: the next *)
(* capture will read, at once or when restarted, or will not.              *)
AttemptsAreHonest ==
  task # NoTask /\ task' = NoTask /\ ~Distrusted =>
    /\ outcome' = "enabled" => (Begun.state)' = "reading" \/ binary'
    /\ outcome' = "removed" => (Begun.state)' # "reading"

(* platform.rs:211-226: a permission wider than capture needs is told of.  *)
WideIsTold ==
  Linux /\ helperFile.there /\ ((helperFile.cap /\ helperFile.open) \/ binary) => Exposure # "none"

PermissionHolds == OnIsOn /\ RestartHelps /\ WideIsTold

(* And both, of any behaviour.                                             *)
PermissionStands == []PermissionHolds /\ [][AttemptsAreHonest]_grantVars

(* report.rs:420: "Permission removed. Capture is off." (The helper that   *)
(* runs has it still, and reads on until it is turned off.)                *)
RemovedIsOff == outcome = "removed" => reader.state # "reading"

(* agents.rs:148-150: the indicator asks the capture itself, and does not  *)
(* infer that nothing reads from the permission. (The code does.)          *)
OffIsNotInferred == Indicator = "off" => reader.state # "reading"
=============================================================================
