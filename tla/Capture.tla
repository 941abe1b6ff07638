------------------------------- MODULE Capture -------------------------------
(***************************************************************************)
(* The one capture of a process and who starts and stops it                *)
(* (topgent-collect/src/capture: live.rs, helper.rs, session.rs;           *)
(* topgent-capture/src/main.rs; the switch and the sweeps of               *)
(* topgent-ui/src/lib.rs). What it reads is the matter of Flows.           *)
(***************************************************************************)
EXTENDS Naturals

CONSTANTS
  Wire,         \* interfaces
  HelperIs,     \* {"none"}: not beside the binary; "denied": cannot capture; "able"
  Granted,      \* whether this process may capture itself
  MaxLaunches,  \* bound on the launches
  MaxSwitches   \* bound on the uses of the switch

CaptureAssumption ==
  /\ HelperIs \subseteq {"none", "denied", "able"}
  /\ Granted \subseteq BOOLEAN
  /\ MaxLaunches \in Nat /\ MaxSwitches \in Nat

VARIABLES
  helper, granted,  \* this installation
  setting,   \* Settings::capture on disk: "on", "off", or a file cut short
  up,        \* whether the interface runs
  wanted,    \* Held::wanted
  source,    \* Held::source
  wires,     \* what each reader thread does, here or in the helper
  child,     \* the helper program
  orphan,    \* one that outlived the interface that started it
  ended,     \* Source::ended
  switching, \* what the one who holds the state switches it to, or "free"
  stop,      \* the flag the threads look at
  report,    \* how the last sweep found the capture
  launches, switches

installation == <<helper, granted>>
threads == <<wires, child, ended>>
bounds == <<launches, switches>>
captureVars == <<installation, setting, up, wanted, source, threads, orphan, switching, stop, report, bounds>>

Reading == \E w \in Wire : wires[w] = "reading"
Idle == [w \in Wire |-> "gone"]

-----------------------------------------------------------------------------
CaptureInit ==
  /\ helper \in HelperIs /\ granted \in Granted
  /\ setting \in {"on", "off"}
  /\ up = FALSE
  /\ wanted = "unset" /\ source = "none"
  /\ wires = Idle /\ child = "gone" /\ orphan = FALSE /\ ended = FALSE
  /\ switching = "free" /\ stop = FALSE
  /\ report = "none"
  /\ launches = 0 /\ switches = 0

(* Mutant: the setting is read after the first sweep.                      *)
LaunchForgetful ==
  /\ ~up /\ launches < MaxLaunches
  /\ launches' = launches + 1
  /\ up' = TRUE
  /\ wanted' = "unset"
  /\ report' = "none"
  /\ UNCHANGED <<installation, setting, source, threads, orphan, switching, stop, switches>>

(* The interface applies what was saved before its first sweep; a file it  *)
(* cannot read gives the defaults.                                         *)
Launch ==
  /\ ~up /\ launches < MaxLaunches
  /\ launches' = launches + 1
  /\ up' = TRUE
  /\ wanted' = IF setting = "off" THEN "off" ELSE "unset"
  /\ report' = "none"
  /\ UNCHANGED <<installation, setting, source, threads, orphan, switching, stop, switches>>

(* ensure_started: the helper is tried first; that it could be started is  *)
(* all that is asked of it.                                                *)
Started ==
  IF helper # "none"
  THEN /\ source' = "helper" /\ child' = "running" /\ ended' = FALSE
       /\ wires' = IF helper = "able" THEN [w \in Wire |-> "reading"] ELSE Idle
  ELSE /\ source' = IF granted THEN "session" ELSE "failed"
       /\ ended' = FALSE
       /\ wires' = IF granted THEN [w \in Wire |-> "reading"] ELSE Idle
       /\ UNCHANGED child

(* CaptureCollector::collect.                                              *)
Sweep ==
  /\ up /\ switching = "free"
  /\ \/ /\ wanted = "off"
        /\ report' = "off"
        /\ UNCHANGED <<source, threads>>
     \/ /\ wanted # "off" /\ source = "none"
        /\ Started
        /\ report' = IF source' = "failed" THEN "failed" ELSE "drained"
     \/ /\ wanted # "off" /\ source = "failed"
        /\ report' = "failed"
        /\ UNCHANGED <<source, threads>>
     \/ /\ wanted # "off" /\ source \in {"helper", "session"} /\ ended
        /\ report' = "ended"
        /\ UNCHANGED <<source, threads>>
     \/ /\ wanted # "off" /\ source \in {"helper", "session"} /\ ~ended
        /\ report' = "drained"
        /\ UNCHANGED <<source, threads>>
  /\ UNCHANGED <<installation, setting, up, wanted, orphan, switching, stop, bounds>>

(* stop and start both drop the source: the flag is set and the helper is  *)
(* killed, then the threads are joined, all under the lock. On is saved    *)
(* before, off afterwards.                                                 *)
Switch(to) ==
  /\ up /\ switching = "free" /\ switches < MaxSwitches
  /\ switches' = switches + 1
  /\ switching' = to
  /\ wanted' = to
  /\ setting' = IF to = "on" THEN "on" ELSE setting
  /\ stop' = TRUE
  /\ child' = "gone"
  /\ UNCHANGED <<installation, up, source, wires, ended, orphan, report, launches>>

(* A reader thread looks at the flag between reads, and a read times out.  *)
(* In a helper that was killed it is gone with it.                         *)
WireStops(w) ==
  /\ wires[w] = "reading"
  /\ IF source = "helper" THEN child = "gone" ELSE stop
  /\ wires' = [wires EXCEPT ![w] = "gone"]
  /\ UNCHANGED <<installation, setting, up, wanted, source, child, ended, orphan, switching, stop, report, bounds>>

Switched ==
  /\ up /\ switching # "free"
  /\ ~Reading
  /\ switching' = "free" /\ stop' = FALSE
  /\ IF switching = "on" THEN Started /\ UNCHANGED setting
     ELSE source' = "none" /\ ended' = FALSE /\ setting' = "off" /\ UNCHANGED <<wires, child>>
  /\ UNCHANGED <<installation, up, wanted, orphan, report, bounds>>

(* An interface goes away. The thread that read it records why and ends;   *)
(* the record of a helper's is the helper's.                               *)
WireEnds(w) ==
  /\ wires[w] = "reading"
  /\ wires' = [wires EXCEPT ![w] = "lost"]
  /\ ended' = IF source = "session" THEN TRUE ELSE ended
  /\ UNCHANGED <<installation, setting, up, wanted, source, child, orphan, switching, stop, report, bounds>>

(* main: a helper that cannot capture, or whose session recorded an end,   *)
(* exits within an interval, with every thread it has.                     *)
ChildExits ==
  /\ child = "running"
  /\ helper = "denied" \/ \E w \in Wire : wires[w] = "lost"
  /\ child' = "exited"
  /\ wires' = Idle
  /\ UNCHANGED <<installation, setting, up, wanted, source, ended, orphan, switching, stop, report, bounds>>

(* helper.rs, read: its output closed although nobody stopped it.          *)
ReaderNotices ==
  /\ up /\ source = "helper" /\ child = "exited" /\ ~stop /\ ~ended
  /\ ended' = TRUE
  /\ UNCHANGED <<installation, setting, up, wanted, source, wires, child, orphan, switching, stop, report, bounds>>

(* The interface ends or is killed, at any point. Its threads end with it; *)
(* a helper runs on until it next writes. Settings are saved in place, so  *)
(* that a save of any choice may be cut short.                             *)
Quit ==
  /\ up
  /\ up' = FALSE
  /\ orphan' = (orphan \/ child = "running")
  /\ wanted' = "unset" /\ source' = "none"
  /\ wires' = Idle /\ child' = "gone" /\ ended' = FALSE
  /\ switching' = "free" /\ stop' = FALSE
  /\ setting' \in {setting, "torn"}
  /\ UNCHANGED <<installation, report, bounds>>

OrphanExits ==
  /\ orphan
  /\ orphan' = FALSE
  /\ UNCHANGED <<installation, setting, up, wanted, source, threads, switching, stop, report, bounds>>

CaptureNext ==
  \/ Launch \/ Sweep \/ Switched \/ ChildExits \/ ReaderNotices \/ Quit \/ OrphanExits
  \/ \E to \in {"on", "off"} : Switch(to)
  \/ \E w \in Wire : WireStops(w) \/ WireEnds(w)

(* Threads run, reads time out, and the helper writes every second. Nobody *)
(* has to launch, quit, sweep or use the switch.                           *)
CaptureFairness ==
  /\ \A w \in Wire : WF_captureVars(WireStops(w))
  /\ WF_captureVars(Switched) /\ WF_captureVars(ChildExits) /\ WF_captureVars(ReaderNotices) /\ WF_captureVars(OrphanExits)

CaptureSpec == CaptureInit /\ [][CaptureNext]_captureVars /\ CaptureFairness

-----------------------------------------------------------------------------
(* live.rs, running.                                                       *)
Running == source \in {"helper", "session"} /\ ~ended

CaptureTypeOK ==
  /\ wanted \in {"unset", "on", "off"}
  /\ source \in {"none", "failed", "helper", "session"}
  /\ wires \in [Wire -> {"gone", "reading", "lost"}]
  /\ child \in {"gone", "running", "exited"}
  /\ switching \in {"free", "on", "off"}
  /\ Reading => source \in {"helper", "session"}

(* live.rs:123-127: once stopping has returned nothing reads packets, and  *)
(* no sweep starts it again.                                               *)
OffIsOff == up /\ wanted = "off" /\ switching = "free" => ~Reading /\ source = "none" /\ child # "running"

(* settings.rs:41-43: a capture that was switched off stays off across     *)
(* restarts, until it is switched on: where nothing reads, not even a      *)
(* helper somebody left behind, nothing begins to. (A save that is cut     *)
(* short forgets it.)                                                      *)
Reads == Reading \/ orphan
OffStays == setting = "off" /\ ~Reads /\ setting' = setting => ~Reads'

OffStaysOff == []OffIsOff /\ [][OffStays]_captureVars

(* session.rs:30-31, live.rs:123-127: a use of the switch always returns,  *)
(* though it waits for threads that may be reading.                        *)
SwitchReturns == \A to \in {"on", "off"} : switching = to ~> switching = "free"

(* live.rs:159-163: a capture that reads no more is not said to be running *)
(* for long.                                                               *)
DeathIsNoticed == (Running /\ ~Reading) ~> (~Running \/ Reading)

(* helper.rs:56-61: a helper that reports it cannot capture makes the      *)
(* caller fall back to capturing in-process.                               *)
FallsBack == helper = "denied" /\ granted => report # "ended"

=============================================================================
