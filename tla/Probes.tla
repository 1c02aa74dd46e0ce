------------------------------- MODULE Probes -------------------------------
(***************************************************************************)
(* Commands that start a program of the SDK and wait for what it does:     *)
(* entering and leaving the device's data-disk mode, reading a log from    *)
(* the disk, asking whether a device is connected, and the probe that      *)
(* starts the Simulator and waits until its game has been initialized and  *)
(* updated.  Several run at once, and the device is plugged in, unplugged  *)
(* and comes back from an eject whenever it likes.  One of the commands    *)
(* may be interrupted.                                                     *)
(***************************************************************************)
EXTENDS Naturals, FiniteSets

CONSTANTS
  Users,      \* running commands
  Commands,   \* user -> the commands it may have started
  Logs        \* the device's logs

VARIABLES
  command,    \* user -> its command
  at,         \* user -> the step it is about to take
  answer,     \* user -> the result or the category of the failure
  mode,       \* the device: "away", "usb", "disk", or "resetting" after an eject
  logs,       \* logs on the device
  simulator,  \* user -> "none", "running" or "killed"
  markers,    \* user -> what its Simulator's game has reported
  expired,    \* users whose time is up
  cancelled,  \* the user whose command was interrupted, if any
  seen        \* history: user -> the device's modes since its command last acted

device == <<mode, logs>>
probing == <<command, at, answer, device, simulator, markers, expired, cancelled, seen>>

ProbeInit ==
  /\ command \in {c \in [Users -> UNION {Commands[u] : u \in Users}] :
                    \A u \in Users : c[u] \in Commands[u]}
  /\ at = [u \in Users |-> "begin"]
  /\ answer = [u \in Users |-> "none"]
  /\ mode \in {"away", "usb", "disk"}
  /\ logs \in SUBSET Logs
  /\ simulator = [u \in Users |-> "none"]
  /\ markers = [u \in Users |-> {}]
  /\ expired = {}
  /\ cancelled = {}
  /\ seen = [u \in Users |-> {mode}]

-----------------------------------------------------------------------------
(* ProbeSteps. *)

Continues(u, to) == at' = [at EXCEPT ![u] = to] /\ UNCHANGED answer
Answers(u, a) ==
  /\ at' = [at EXCEPT ![u] = "returned"]
  /\ answer' = [answer EXCEPT ![u] = a]

Active(u) == at[u] # "returned"

(* What every running command could have seen of the device. *)
Witnessed == [u \in Users |-> IF Active(u) THEN seen[u] \cup {mode'} ELSE seen[u]]
Watched == seen' = Witnessed

Mounted == mode = "disk"
(* devicelog looks for a log before it takes a volume for a Playdate's. *)
MountedWithLog == mode = "disk" /\ logs # {}

-----------------------------------------------------------------------------
(* `device disk mount`, and the logs when no disk is mounted. *)

FindDisk(u) ==
  /\ command[u] = "mount" /\ at[u] = "begin"
  /\ IF Mounted THEN Answers(u, "disk") ELSE Continues(u, "datadisk")
  /\ UNCHANGED <<command, device, simulator, markers, expired, cancelled>>
  /\ Watched

(* The logs need pdutil even when the disk is mounted. *)
ToolMissing(u) ==
  /\ \/ command[u] = "mount" /\ at[u] = "datadisk" /\ Answers(u, "disk-mode-failed")
     \/ /\ command[u] \in Logs /\ at[u] = "begin"
        /\ Answers(u, IF u \in cancelled THEN "cancelled" ELSE "tool-not-found")
  /\ UNCHANGED <<command, device, simulator, markers, expired, cancelled>>
  /\ Watched

Retrieved(u) ==
  IF command[u] \in logs /\ Mounted THEN "log" ELSE "log-not-found"

FindLog(u) ==
  /\ command[u] \in Logs /\ at[u] = "begin"
  /\ Continues(u, IF MountedWithLog THEN "read" ELSE "datadisk")
  /\ UNCHANGED <<command, device, simulator, markers, expired, cancelled>>
  /\ Watched

Misread(u) == IF command[u] = "mount" THEN "disk-mode-failed" ELSE "retrieval-failed"

(* pdutil switches a connected device; its output may be unreadable, and   *)
(* it may have been killed before or after it did.                         *)
DataDisk(u) ==
  /\ at[u] = "datadisk"
  /\ \/ /\ mode = "usb"
        /\ mode' = "disk"
        /\ \/ u \notin cancelled /\ IF command[u] = "mount"
                                      THEN Answers(u, "disk") ELSE Continues(u, "read")
           \/ Answers(u, IF u \in cancelled /\ command[u] \in Logs
                           THEN "cancelled" ELSE Misread(u))
     \/ /\ mode # "usb"
        /\ UNCHANGED mode
        /\ Answers(u, IF u \in cancelled /\ command[u] \in Logs
                        THEN "cancelled" ELSE "not-connected")
     \/ /\ u \in cancelled
        /\ UNCHANGED mode
        /\ Answers(u, IF command[u] \in Logs THEN "cancelled" ELSE "disk-mode-failed")
  /\ UNCHANGED <<command, logs, simulator, markers, expired, cancelled>>
  /\ Watched

(* Reading may fail; a disk that has gone looks like a missing log. *)
ReadLog(u) ==
  /\ at[u] = "read"
  /\ \E a \in {Retrieved(u), "retrieval-failed"} :
       Answers(u, IF a # "log" /\ u \in cancelled THEN "cancelled" ELSE a)
  /\ UNCHANGED <<command, device, simulator, markers, expired, cancelled>>
  /\ Watched

-----------------------------------------------------------------------------
(* `device disk unmount`. *)

FindVolume(u) ==
  /\ command[u] = "unmount" /\ at[u] = "begin"
  /\ IF Mounted THEN Continues(u, "eject") ELSE Answers(u, "not-mounted")
  /\ UNCHANGED <<command, device, simulator, markers, expired, cancelled>>
  /\ Watched

(* From here on what was seen of the device counts afresh. *)
Eject(u) ==
  /\ at[u] = "eject"
  /\ \/ /\ Mounted /\ u \notin cancelled
        /\ mode' = "resetting"
        /\ Continues(u, "poll")
        /\ seen' = [Witnessed EXCEPT ![u] = {"resetting"}]
     \/ /\ Answers(u, "eject-failed")
        /\ UNCHANGED mode
        /\ Watched
  /\ UNCHANGED <<command, logs, simulator, markers, expired, cancelled>>

OverWhenCancelled(u) == u \in cancelled
Over(u) == u \in expired \cup cancelled

(* The probe of the connection runs under the same deadline. *)
Reconnected(u) == mode = "usb" /\ ~Over(u)

Poll(u) ==
  /\ at[u] = "poll"
  /\ IF Reconnected(u) THEN Answers(u, "connected") ELSE Continues(u, "pause")
  /\ UNCHANGED <<command, device, simulator, markers, expired, cancelled>>
  /\ Watched

(* Half a second later, unless time is up or the user gave up. *)
Pause(u) ==
  /\ at[u] = "pause"
  /\ \/ Continues(u, "poll")
     \/ Over(u) /\ Answers(u, IF u \in cancelled THEN "disk-mode-failed"
                              ELSE "reconnect-timeout")
  /\ UNCHANGED <<command, device, simulator, markers, expired, cancelled>>
  /\ Watched

-----------------------------------------------------------------------------
(* `probe connection`: pdutil opens the device and does nothing to it. *)
AskDevice(u) ==
  /\ command[u] = "connection" /\ at[u] = "begin"
  /\ \/ u \notin cancelled /\ Answers(u, IF mode = "usb" THEN "ready" ELSE "not-connected")
     \/ u \in cancelled /\ Answers(u, "cancelled")
     \/ Answers(u, "probe-failed")
  /\ UNCHANGED <<command, device, simulator, markers, expired, cancelled>>
  /\ Watched

-----------------------------------------------------------------------------
(* `probe simulator --run`. *)

(* The probe's game is built, inspected and packaged in a directory of its *)
(* own, and removed with it.                                               *)
BuildGame(u) ==
  /\ command[u] = "simulator" /\ at[u] = "begin"
  /\ \/ u \notin cancelled /\ Continues(u, "launch")
     \/ u \in cancelled /\ Answers(u, "cancelled")
     \/ Answers(u, "probe-failed")
  /\ UNCHANGED <<command, device, simulator, markers, expired, cancelled>>
  /\ Watched

Launch(u) ==
  /\ at[u] = "launch"
  /\ \/ /\ u \notin cancelled
        /\ simulator' = [simulator EXCEPT ![u] = "running"]
        /\ Continues(u, "init")
     \/ /\ Answers(u, IF u \in cancelled THEN "cancelled" ELSE "probe-failed")
        /\ UNCHANGED simulator
  /\ UNCHANGED <<command, device, markers, expired, cancelled>>
  /\ Watched

FollowingAtOnce(u) == "kill"
Following(u) == IF at[u] = "init" THEN "update" ELSE "kill"

(* Each marker is looked for before the deadline is. *)
SeeMarker(u) ==
  /\ at[u] \in {"init", "update"}
  /\ at[u] \in markers[u]
  /\ Continues(u, Following(u))
  /\ UNCHANGED <<command, device, simulator, markers, expired, cancelled>>
  /\ Watched

StopWaiting(u) ==
  /\ at[u] \in {"init", "update"}
  /\ at[u] \notin markers[u]
  /\ Over(u)
  /\ at' = [at EXCEPT ![u] = "kill"]
  /\ answer' = [answer EXCEPT ![u] = "cancelled"]
  /\ UNCHANGED <<command, device, simulator, markers, expired, cancelled>>
  /\ Watched

Kill(u) ==
  /\ at[u] = "kill"
  /\ simulator' = [simulator EXCEPT ![u] = "killed"]
  /\ Answers(u, IF answer[u] = "none" THEN "event" ELSE answer[u])
  /\ UNCHANGED <<command, device, markers, expired, cancelled>>
  /\ Watched

-----------------------------------------------------------------------------
(* What happens around them. *)

(* The Simulator's game writes its markers, init first; it may crash, or   *)
(* take too long, and then writes no more.                                 *)
GameRuns(u) ==
  /\ simulator[u] = "running"
  /\ \E m \in {"init", "update"} \ markers[u] :
       /\ m = "update" => "init" \in markers[u]
       /\ markers' = [markers EXCEPT ![u] = @ \cup {m}]
  /\ UNCHANGED <<command, at, answer, device, simulator, expired, cancelled, seen>>

(* 15 seconds are up. *)
Expire(u) ==
  /\ at[u] \in {"poll", "pause", "init", "update"}
  /\ u \notin expired
  /\ expired' = expired \cup {u}
  /\ UNCHANGED <<command, at, answer, device, simulator, markers, cancelled, seen>>

Interrupt(u) ==
  /\ Active(u)
  /\ cancelled = {}
  /\ cancelled' = {u}
  /\ UNCHANGED <<command, at, answer, device, simulator, markers, expired, seen>>

(* The device is plugged in or comes back, is unplugged, ejected by the    *)
(* operating system, or crashes and writes a log.                          *)
DeviceActs ==
  /\ \/ mode' \in {"usb", "away"} /\ mode \in {"away", "resetting"} /\ UNCHANGED logs
     \/ mode' = "away" /\ mode \in {"usb", "disk"} /\ UNCHANGED logs
     \/ mode' = "resetting" /\ mode = "disk" /\ UNCHANGED logs
     \/ \E l \in Logs \ logs : mode = "usb" /\ logs' = logs \cup {l} /\ UNCHANGED mode
  /\ UNCHANGED <<command, at, answer, simulator, markers, expired, cancelled>>
  /\ Watched

ProbeStep(u) ==
  \/ FindDisk(u) \/ ToolMissing(u) \/ FindLog(u) \/ DataDisk(u) \/ ReadLog(u)
  \/ FindVolume(u) \/ Eject(u) \/ Poll(u) \/ Pause(u) \/ AskDevice(u)
  \/ BuildGame(u) \/ Launch(u) \/ SeeMarker(u) \/ StopWaiting(u) \/ Kill(u)

ProbeSteps == \E u \in Users : ProbeStep(u)
TimePasses == \E u \in Users : Expire(u)
TimeIsUp == \E u \in Users : Pause(u) /\ ~Active(u)'

ProbeNext ==
  \/ ProbeSteps \/ TimePasses \/ DeviceActs
  \/ \E u \in Users : GameRuns(u) \/ Interrupt(u)

(* Some command that can go on does, time passes, and of a timer and a     *)
(* deadline that are both due again and again each is taken.               *)
ProbeFairness == WF_probing(ProbeSteps) /\ WF_probing(TimePasses) /\ SF_probing(TimeIsUp)
ProbeSpec == ProbeInit /\ [][ProbeNext]_probing /\ ProbeFairness

-----------------------------------------------------------------------------
Modes == {"away", "usb", "disk", "resetting"}
ProbePlaces == {"begin", "datadisk", "read", "eject", "poll", "pause", "launch", "init",
                "update", "kill", "returned"}
Results == {"disk", "disk-mode-failed", "tool-not-found", "cancelled", "log",
            "log-not-found", "retrieval-failed", "not-connected", "not-mounted",
            "eject-failed", "connected", "reconnect-timeout", "ready", "probe-failed", "event"}

ProbeTypeOK ==
  /\ at \in [Users -> ProbePlaces]
  /\ answer \in [Users -> Results \cup {"none"}]
  /\ mode \in Modes
  /\ logs \in SUBSET Logs
  /\ simulator \in [Users -> {"none", "running", "killed"}]
  /\ markers \in [Users -> SUBSET {"init", "update"}]
  /\ expired \in SUBSET Users
  /\ cancelled \in SUBSET Users
  /\ seen \in [Users -> SUBSET Modes]

(* An answer tells what was so while the command ran, whatever the device  *)
(* and the other commands did: a disk that was mounted, a device that came *)
(* back after the eject and not before, a wait that took its full time, a  *)
(* Simulator that reported both events.  A returned command leaves no      *)
(* Simulator behind.                                                       *)
AnswersTruly ==
  \A u \in Users : ~Active(u) =>
    /\ answer[u] \in {"disk", "log"} => "disk" \in seen[u]
    /\ answer[u] \in {"ready", "connected"} => "usb" \in seen[u]
    /\ answer[u] = "not-connected" => seen[u] # {"usb"}
    /\ answer[u] = "not-mounted" => seen[u] # {"disk"}
    /\ answer[u] = "reconnect-timeout" => u \in expired \ cancelled
    /\ answer[u] = "event" => markers[u] = {"init", "update"}
    /\ simulator[u] # "running"

(* Every command returns: none waits for the device or the Simulator for   *)
(* longer than its time.                                                   *)
EveryCommandEnds == <>[](\A u \in Users : ~Active(u))
=============================================================================
