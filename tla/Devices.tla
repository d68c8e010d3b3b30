---- MODULE Devices ----
(***************************************************************************)
(* The preview of an app: the emulators the sidecar starts, the app it     *)
(* launches on a device, and the mirror of the device's screen.            *)
(*                                                                         *)
(* Nothing of this is stored: managed and launches are maps in memory,     *)
(* while the machines and the apps are processes of their own.  What adb   *)
(* says is asked in child processes, so a boot looks, waits and writes     *)
(* while other requests, the machines and the panel go on.                 *)
(***************************************************************************)
EXTENDS Integers, FiniteSets

CONSTANTS
    Avds,          \* the machines defined here
    Boots,         \* boot requests; each makes at most one entry of managed
    Serials,       \* devices an app can be launched on
    Apps,          \* flutter run processes
    Sockets,       \* websockets of the mirror
    MaxRestarts    \* bound on restarts of the sidecar

ASSUME DeviceBounds ==
    /\ MaxRestarts \in Nat
    /\ {"none", "no", "kill"} \cap (Avds \cup Boots \cup Apps \cup Sockets) = {}

VARIABLES
    vm,            \* the machines, as adb sees them
    managed,       \* which request's entry the map holds for an AVD
    entry,         \* the ManagedEmulator a request made
    boot,          \* the boot requests
    killing,       \* the kill request: its AVD, and the entry it found
    emuPanel,      \* EmulatorPanel: what is busy, what it saw of each AVD
    launches, app, \* app-launcher's map and the processes it started
    ws, scrcpy,    \* a socket of the mirror, and its session of the device
    mirror,        \* LiveScrcpyStream: its socket, all it ever had, its overlay
    restarts,
    (* observers *)
    raced,         \* two boots were under way before either had an entry
    revived,       \* a boot declared ready an entry that had been stopped
    orphans,       \* sockets that closed while their session was opening
    late           \* the overlay was last set by a socket that was replaced

emulators == <<vm, managed, entry, boot, killing, emuPanel, raced, revived>>
apps == <<launches, app>>
streams == <<ws, scrcpy, mirror, orphans, late>>
deviceVars == <<emulators, apps, streams, restarts>>

NoEntry == [state |-> "none", avd |-> "none", alive |-> FALSE]
NoKill == [avd |-> "none", entry |-> "none"]
NoBoot == [at |-> "idle", avd |-> "none"]

DeviceInit ==
    /\ vm \in [Avds -> {"off", "up"}]
    /\ managed = [a \in Avds |-> "none"]
    /\ entry = [b \in Boots |-> NoEntry]
    /\ boot = [b \in Boots |-> NoBoot]
    /\ killing = NoKill
    /\ emuPanel = [busy |-> "no", seen |-> [a \in Avds |-> "none"]]
    /\ launches = [s \in Serials |-> "none"]
    /\ app = [x \in Apps |-> "none"]
    /\ ws = [k \in Sockets |-> "none"] /\ scrcpy = [k \in Sockets |-> "none"]
    /\ mirror = [socket |-> "none", mine |-> {}, overlay |-> "connecting"]
    /\ restarts = 0
    /\ raced = FALSE /\ revived = FALSE /\ orphans = {} /\ late = FALSE
----------------------------------------------------------------------------
(* Emulators.                                                              *)

StateOf(a) == IF managed[a] = "none" THEN "none" ELSE entry[managed[a]].state
Active == {a \in Avds : StateOf(a) \in {"booting", "ready"}}

(* A boot that has passed its checks and has no entry yet.                 *)
Searching(b) == boot[b].at \in {"looking", "adopting", "listing"}

Emu == UNCHANGED <<apps, streams, restarts>>
To(b, at) == boot' = [boot EXCEPT ![b].at = at]

(* The panel's request comes back.                                         *)
Finish(b, at) ==
    /\ To(b, at)
    /\ emuPanel' = IF emuPanel.busy = b THEN [emuPanel EXCEPT !.busy = "no"] ELSE emuPanel

(* Mutant: only the AVD that is asked for is looked up.                    *)
BootAnyway(b, a) ==
    /\ boot[b].at = "idle"
    /\ emuPanel.busy = "no" /\ emuPanel.seen[a] # "ready"
    /\ IF a \in Active
       THEN boot' = [boot EXCEPT ![b] = [at |-> "done", avd |-> a]] /\ UNCHANGED <<emuPanel, raced>>
       ELSE /\ boot' = [boot EXCEPT ![b] = [at |-> "looking", avd |-> a]]
            /\ emuPanel' = [emuPanel EXCEPT !.busy = b]
            /\ raced' = (raced \/ \E c \in Boots : Searching(c))
    /\ Emu /\ UNCHANGED <<vm, managed, entry, killing, revived>>

(* bootAvd: an active machine, this one or another, is returned at once.   *)
Boot(b, a) ==
    /\ boot[b].at = "idle"
    /\ emuPanel.busy = "no" /\ emuPanel.seen[a] # "ready"
    /\ IF Active # {}
       THEN boot' = [boot EXCEPT ![b] = [at |-> "done", avd |-> a]] /\ UNCHANGED <<emuPanel, raced>>
       ELSE /\ boot' = [boot EXCEPT ![b] = [at |-> "looking", avd |-> a]]
            /\ emuPanel' = [emuPanel EXCEPT !.busy = b]
            /\ raced' = (raced \/ \E c \in Boots : Searching(c))
    /\ Emu /\ UNCHANGED <<vm, managed, entry, killing, revived>>

(* adb answers; a machine that is up may still not answer its console.     *)
Looked(b) ==
    /\ boot[b].at = "looking"
    /\ \/ vm[boot[b].avd] = "up" /\ To(b, "adopting")
       \/ To(b, "listing")
    /\ Emu /\ UNCHANGED <<vm, managed, entry, killing, emuPanel, raced, revived>>

Register(b, row) ==
    /\ entry' = [entry EXCEPT ![b] = row]
    /\ managed' = [managed EXCEPT ![boot[b].avd] = b]

Adopt(b) ==
    /\ boot[b].at = "adopting"
    /\ Register(b, [state |-> "ready", avd |-> boot[b].avd, alive |-> FALSE])
    /\ Finish(b, "done")
    /\ Emu /\ UNCHANGED <<vm, killing, raced, revived>>

(* No binary, or no AVD of that name.                                      *)
BootRefused(b) ==
    /\ boot[b].at = "listing"
    /\ Finish(b, "failed")
    /\ Emu /\ UNCHANGED <<vm, managed, entry, killing, raced, revived>>

Spawn(b) ==
    /\ boot[b].at = "listing"
    /\ Register(b, [state |-> "booting", avd |-> boot[b].avd, alive |-> TRUE])
    /\ vm' = [vm EXCEPT ![boot[b].avd] = IF @ = "off" THEN "starting" ELSE @]
    /\ To(b, "polling")
    /\ Emu /\ UNCHANGED <<killing, emuPanel, raced, revived>>

(* child.on('exit'): the launcher may exit while its machine runs on.      *)
LauncherExits(b) ==
    LET a == entry[b].avd
    IN  /\ entry[b].alive
        /\ entry' = [entry EXCEPT ![b].alive = FALSE,
                                  ![b].state = IF managed[a] = b /\ @ # "ready" THEN "stopped" ELSE @]
        /\ vm' \in {vm, [vm EXCEPT ![a] = "off"]}
        /\ Emu /\ UNCHANGED <<managed, boot, killing, emuPanel, raced, revived>>

(* The loop of bootAvd: one turn, and what adb answers in it.              *)
PollBoot(b) ==
    /\ boot[b].at = "polling"
    /\ IF entry[b].state = "stopped" THEN Finish(b, "failed") ELSE To(b, "asking") /\ UNCHANGED emuPanel
    /\ Emu /\ UNCHANGED <<vm, managed, entry, killing, raced, revived>>

Answered(b) ==
    /\ boot[b].at = "asking"
    /\ \/ To(b, "polling")
       \/ vm[boot[b].avd] = "up" /\ To(b, "unlocking")
    /\ Emu /\ UNCHANGED <<vm, managed, entry, killing, emuPanel, raced, revived>>

(* After the screen is unlocked the entry is ready, whatever it became.    *)
Ready(b) ==
    /\ boot[b].at = "unlocking"
    /\ entry' = [entry EXCEPT ![b].state = "ready"]
    /\ revived' = (revived \/ entry[b].state = "stopped")
    /\ Finish(b, "done")
    /\ Emu /\ UNCHANGED <<vm, managed, killing, raced>>

(* BOOT_TIMEOUT_MS: the entry stays as it is, and nobody waits for it.     *)
BootTimesOut(b) ==
    /\ boot[b].at = "polling"
    /\ Finish(b, "failed")
    /\ Emu /\ UNCHANGED <<vm, managed, entry, killing, raced, revived>>

(* killEmulator: offered while the panel saw the machine ready.            *)
Kill(a) ==
    /\ killing = NoKill /\ emuPanel.busy = "no" /\ emuPanel.seen[a] = "ready"
    /\ killing' = [avd |-> a, entry |-> managed[a]]
    /\ emuPanel' = [emuPanel EXCEPT !.busy = "kill"]
    /\ Emu /\ UNCHANGED <<vm, managed, entry, boot, raced, revived>>

(* `emu kill`, or if adb fails the child; a failure is only logged, and    *)
(* the entry that was found counts as stopped.                             *)
Killed ==
    /\ killing # NoKill
    /\ vm' \in {vm, [vm EXCEPT ![killing.avd] = "off"]}
    /\ entry' = [b \in Boots |-> IF b # killing.entry THEN entry[b]
                                 ELSE [entry[b] EXCEPT !.state = "stopped",
                                                       !.alive = @ /\ vm' # vm]]
    /\ killing' = NoKill
    /\ emuPanel' = IF emuPanel.busy = "kill" THEN [emuPanel EXCEPT !.busy = "no"] ELSE emuPanel
    /\ Emu /\ UNCHANGED <<managed, boot, raced, revived>>

(* The machines themselves.                                                *)
MachineMoves(a) ==
    /\ \/ vm[a] = "starting" /\ vm' = [vm EXCEPT ![a] = "up"]
       \/ vm[a] # "off" /\ vm' = [vm EXCEPT ![a] = "off"]
    /\ Emu /\ UNCHANGED <<managed, entry, boot, killing, emuPanel, raced, revived>>

(* emulatorStatus, every two seconds.                                      *)
PollPanel ==
    /\ emuPanel' = [emuPanel EXCEPT !.seen = [a \in Avds |-> StateOf(a)]]
    /\ Emu /\ UNCHANGED <<vm, managed, entry, boot, killing, raced, revived>>

(* The operator leaves the page and comes back; the requests go on.        *)
Reopen ==
    /\ emuPanel.busy # "no"
    /\ emuPanel' = [emuPanel EXCEPT !.busy = "no"]
    /\ Emu /\ UNCHANGED <<vm, managed, entry, boot, killing, raced, revived>>

EmulatorNext ==
    \/ \E b \in Boots :
           \/ \E a \in Avds : Boot(b, a)
           \/ Looked(b) \/ Adopt(b) \/ BootRefused(b) \/ Spawn(b) \/ LauncherExits(b)
           \/ PollBoot(b) \/ Answered(b) \/ Ready(b) \/ BootTimesOut(b)
    \/ \E a \in Avds : Kill(a) \/ MachineMoves(a)
    \/ Killed \/ PollPanel \/ Reopen
----------------------------------------------------------------------------
(* Apps.  "told" is a process that was sent a signal; it may take a while. *)

App == UNCHANGED <<emulators, streams, restarts>>

StopAll == [x \in Apps |-> IF app[x] = "running" /\ \E s \in Serials : launches[s] = x
                           THEN "told" ELSE app[x]]

(* Mutant: only the launch on this device gives way.                       *)
LaunchHere(x, s) ==
    /\ app[x] = "none"
    /\ app' = [y \in Apps |-> IF y = x THEN "running"
                              ELSE IF app[y] = "running" /\ launches[s] = y THEN "told" ELSE app[y]]
    /\ launches' = [launches EXCEPT ![s] = x]
    /\ App

(* launchProjectApp: what runs anywhere is stopped first, also when the    *)
(* project or its repository is then not found.                            *)
LaunchApp(x, s) ==
    /\ app[x] = "none"
    /\ \/ /\ app' = [StopAll EXCEPT ![x] = "running"]
          /\ launches' = [t \in Serials |-> IF t = s THEN x ELSE "none"]
       \/ app' = StopAll /\ launches' = [t \in Serials |-> "none"]
    /\ App

StopTaskApp(s) ==
    /\ launches[s] # "none"
    /\ app' = [app EXCEPT ![launches[s]] = IF @ = "running" THEN "told" ELSE @]
    /\ launches' = [launches EXCEPT ![s] = "none"]
    /\ App

AppExits(x) ==
    /\ app[x] \in {"running", "told", "orphan"}
    /\ app' = [app EXCEPT ![x] = "gone"]
    /\ UNCHANGED launches /\ App

(* The sidecar dies and comes back: the maps are empty, its sockets break, *)
(* what it had started may run on.                                         *)
Restart ==
    /\ restarts < MaxRestarts
    /\ restarts' = restarts + 1
    /\ managed' = [a \in Avds |-> "none"]
    /\ entry' = [b \in Boots |-> NoEntry]
    /\ boot' = [b \in Boots |-> IF boot[b].at = "idle" THEN NoBoot ELSE [boot[b] EXCEPT !.at = "failed"]]
    /\ killing' = NoKill
    /\ emuPanel' = [emuPanel EXCEPT !.busy = "no"]
    /\ launches' = [s \in Serials |-> "none"]
    /\ \E left \in SUBSET {x \in Apps : app[x] = "running"} :
           app' = [x \in Apps |-> IF x \in left THEN "orphan"
                                  ELSE IF app[x] = "running" THEN "gone" ELSE app[x]]
    /\ ws' = [k \in Sockets |-> CASE ws[k] = "open" -> "closing"
                                   [] ws[k] = "connecting" -> "aborted"
                                   [] OTHER -> ws[k]]
    /\ scrcpy' = [k \in Sockets |-> IF scrcpy[k] = "none" THEN "none" ELSE "closed"]
    /\ UNCHANGED <<vm, raced, revived, mirror, orphans, late>>

AppNext == \/ \E x \in Apps : AppExits(x) \/ \E s \in Serials : LaunchApp(x, s)
           \/ \E s \in Serials : StopTaskApp(s)
----------------------------------------------------------------------------
(* The mirror.                                                             *)

Mirror == UNCHANGED <<emulators, apps, restarts>>
Overlay(text, k) ==
    IF k \notin mirror.mine \/ (text = "closed" /\ mirror.overlay = "error")
    THEN UNCHANGED <<mirror, late>>
    ELSE mirror' = [mirror EXCEPT !.overlay = text] /\ late' = (k # mirror.socket)

(* A socket that is closed while it connects reports an error, too.        *)
Shut(k) == [j \in Sockets |-> IF j = k /\ ws[j] \in {"connecting", "open"}
                              THEN IF ws[j] = "open" THEN "closing" ELSE "aborted" ELSE ws[j]]

(* The effect of LiveScrcpyStream runs: on mount, for another device or    *)
(* after the button, which alone resets the overlay.                       *)
Connect(k) ==
    /\ ws[k] = "none"
    /\ ws' = [Shut(mirror.socket) EXCEPT ![k] = "connecting"]
    /\ \/ /\ mirror.overlay \in (IF mirror.socket = "none" THEN {"connecting"} ELSE {"closed", "error"})
          /\ mirror' = [socket |-> k, mine |-> mirror.mine \cup {k}, overlay |-> "connecting"]
       \/ /\ mirror.socket # "none"
          /\ mirror' = [mirror EXCEPT !.socket = k, !.mine = @ \cup {k}]
    /\ UNCHANGED <<scrcpy, orphans, late>> /\ Mirror

Leave ==
    /\ mirror.socket # "none"
    /\ ws' = Shut(mirror.socket)
    /\ mirror' = [socket |-> "none", mine |-> {}, overlay |-> "connecting"]
    /\ UNCHANGED <<scrcpy, orphans, late>> /\ Mirror

(* Mutant: the overlay is not told.                                        *)
UpgradedSilently(k) ==
    /\ ws[k] = "connecting"
    /\ ws' = [ws EXCEPT ![k] = "open"]
    /\ scrcpy' = [scrcpy EXCEPT ![k] = "opening"]
    /\ UNCHANGED <<mirror, late, orphans>> /\ Mirror

(* onopen in the panel, onOpen in the sidecar.                             *)
Upgraded(k) ==
    /\ ws[k] = "connecting"
    /\ ws' = [ws EXCEPT ![k] = "open"]
    /\ scrcpy' = [scrcpy EXCEPT ![k] = "opening"]
    /\ Overlay("streaming", k)
    /\ UNCHANGED orphans /\ Mirror

ConnectFails(k) ==
    /\ ws[k] \in {"connecting", "aborted"}
    /\ ws' = [ws EXCEPT ![k] = "closed"]
    /\ Overlay("error", k)
    /\ UNCHANGED <<scrcpy, orphans>> /\ Mirror

(* openScrcpySession: the socket may be gone by now.                       *)
SessionOpens(k) ==
    /\ scrcpy[k] = "opening"
    /\ scrcpy' = [scrcpy EXCEPT ![k] = "open"]
    /\ UNCHANGED <<ws, mirror, orphans, late>> /\ Mirror

SessionFails(k) ==
    /\ scrcpy[k] = "opening"
    /\ scrcpy' = [scrcpy EXCEPT ![k] = "closed"]
    /\ ws' = Shut(k)
    /\ UNCHANGED <<mirror, orphans, late>> /\ Mirror

(* Mutant: the handler forgets the session without closing it.             *)
CloseForgets(k) ==
    /\ ws[k] = "closing"
    /\ ws' = [ws EXCEPT ![k] = "closed"]
    /\ orphans' = IF scrcpy[k] = "opening" THEN orphans \cup {k} ELSE orphans
    /\ Overlay("closed", k)
    /\ UNCHANGED scrcpy /\ Mirror

(* onclose in the panel, onClose in the sidecar, where a session that is   *)
(* still opening is not known.                                             *)
Closed(k) ==
    /\ ws[k] = "closing"
    /\ ws' = [ws EXCEPT ![k] = "closed"]
    /\ scrcpy' = [scrcpy EXCEPT ![k] = IF @ = "open" THEN "closed" ELSE @]
    /\ orphans' = IF scrcpy[k] = "opening" THEN orphans \cup {k} ELSE orphans
    /\ Overlay("closed", k)
    /\ Mirror

(* The video ends without an error: nothing is closed, the last picture    *)
(* stays.  A read that throws closes the socket.                           *)
PumpVideo(k) ==
    /\ scrcpy[k] = "open" /\ ws[k] = "open"
    /\ ws' = Shut(k)
    /\ UNCHANGED <<scrcpy, mirror, orphans, late>> /\ Mirror

(* A touch or a key meets a dead control socket.                           *)
HandleControl(k) ==
    /\ mirror.socket = k /\ scrcpy[k] = "open" /\ ws[k] = "open"
    /\ scrcpy' = [scrcpy EXCEPT ![k] = "closed"]
    /\ ws' = Shut(k)
    /\ UNCHANGED <<mirror, orphans, late>> /\ Mirror

MirrorNext ==
    \/ \E k \in Sockets :
           \/ Connect(k) \/ Upgraded(k) \/ ConnectFails(k) \/ SessionOpens(k) \/ SessionFails(k)
           \/ Closed(k) \/ PumpVideo(k) \/ HandleControl(k)
    \/ Leave

DeviceNext == EmulatorNext \/ AppNext \/ MirrorNext \/ Restart
DeviceSpec == DeviceInit /\ [][DeviceNext]_deviceVars
----------------------------------------------------------------------------
DeviceTypeOK ==
    /\ vm \in [Avds -> {"off", "starting", "up"}]
    /\ managed \in [Avds -> Boots \cup {"none"}]
    /\ \A b \in Boots : /\ entry[b].state \in {"none", "booting", "ready", "stopped"}
                        /\ boot[b].at \in {"idle", "looking", "adopting", "listing", "polling",
                                           "asking", "unlocking", "done", "failed"}
    /\ killing = NoKill \/ killing \in [avd : Avds, entry : Boots \cup {"none"}]
    /\ emuPanel.busy \in Boots \cup {"no", "kill"}
    /\ emuPanel.busy \in Boots => boot[emuPanel.busy].at \notin {"idle", "done", "failed"}
    /\ emuPanel.busy = "kill" => killing # NoKill
    /\ launches \in [Serials -> Apps \cup {"none"}]
    /\ app \in [Apps -> {"none", "running", "told", "orphan", "gone"}]
    /\ ws \in [Sockets -> {"none", "connecting", "open", "closing", "aborted", "closed"}]
    /\ scrcpy \in [Sockets -> {"none", "opening", "open", "closed"}]
    /\ mirror.overlay \in {"connecting", "streaming", "error", "closed"}

(* The tasks share one emulator: of the machines the sidecar manages at    *)
(* most one is booting or ready, unless two boots overlapped before either *)
(* had an entry, or a boot called ready what had stopped under it.         *)
OneMachine == Cardinality(Active) <= 1 \/ raced \/ revived

(* Every app that was not told to stop is the one of the map, which holds  *)
(* one, so that two projects never run on the shared emulator and the      *)
(* operator can always stop what runs, until a restart forgets it.         *)
OneApp ==
    /\ Cardinality({s \in Serials : launches[s] # "none"}) <= 1
    /\ \A x \in Apps : app[x] = "running" => \E s \in Serials : launches[s] = x

(* The projects share one preview: one machine, with one app on it that    *)
(* the operator can stop.                                                  *)
OnePreview == OneMachine /\ OneApp

(* A session of the device ends with its socket, whoever closed it and     *)
(* whatever was under way, except where the socket went while the session *)
(* was being opened: that one nobody closes.                               *)
SessionsEnd ==
    \A k \in Sockets : scrcpy[k] = "open" /\ ws[k] = "closed" => k \in orphans

(* The overlay covers a live picture only where a socket that was replaced *)
(* reports its end late.                                                   *)
OverlayHonest ==
    mirror.socket # "none" /\ ws[mirror.socket] = "open" => mirror.overlay = "streaming" \/ late

(* At both ends of the mirror's sockets, what is shown and what runs on    *)
(* the device follow the socket, in whatever order its ends are reported.  *)
MirrorHonest == SessionsEnd /\ OverlayHonest
====
