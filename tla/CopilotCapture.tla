---------------------------- MODULE CopilotCapture ----------------------------
(***************************************************************************)
(* Capturing the microphone and the loopbacks of the playback devices for  *)
(* the copilot on Windows: a controller thread opens the sources, watches  *)
(* the devices and rebuilds what failed, until its handle tells it to      *)
(* stop.  Source: crates/agentdictate-app/src/copilot/win/audio.rs and     *)
(* comms_mic.rs.                                                           *)
(*                                                                         *)
(* A controller sleeps between its passes over the sources; opening a      *)
(* device, and with it a pass, takes any time.                             *)
(***************************************************************************)
EXTENDS Naturals, Sequences, FiniteSetsExt

CONSTANTS
  Devices,     \* names of audio devices
  Settings,    \* the settings that are on when a capture starts, some of them
  RestartAfter, CheckAfter, \* time between two attempts to open a source, and
                            \* between two looks at the devices: 2 s and 3 s
  MaxStarts,   \* bound on the captures started
  MaxTroubles, \* bound on streams that fail and microphones that do not answer
  MaxMoves     \* bound on the changes of a default device

VARIABLES
  devices,  \* the default devices, for calls and for everything else; there are some
  caller,   \* "idle", "starting", "running" or "stopping": the engine
  ctl,      \* the controllers, in the order they were started
  orphan,   \* a communications microphone given up while it started
  moved,    \* history: a device changed since the last pass began
  troubles, moves

vars == <<devices, caller, ctl, orphan, moved, troubles, moves>>

None == "none"
DefaultDevices ==
  [input : Devices, call_input : Devices, output : Devices, call_output : Devices]
Kinds == <<"microphone", "playback", "call playback">>
KindSet == {Kinds[i] : i \in DOMAIN Kinds}
SourcesOf == [microphone |-> {"microphone"}, system_audio |-> {"playback", "call playback"}]

\* The call device, when it is not already the default playback device.
SeparateCallDevice ==
  IF devices.call_output = devices.output THEN None ELSE devices.call_output

\* The device each source would capture now.
CurrentDevice(kind) ==
  CASE kind = "call playback" -> SeparateCallDevice
    [] kind = "playback" -> devices.output
    [] OTHER -> devices.call_input

\* What opening a source may give, and whether the communications microphone was
\* given up on the way.
BuildStream(kind) ==
  [device : {CurrentDevice(kind), None}, late : {FALSE}]
    \cup IF kind = "microphone" THEN [device : {devices.input, None}, late : BOOLEAN] ELSE {}

\* The next source of those enabled; 4 when there is none.
After(i, enabled) == Min({j \in i + 1..3 : Kinds[j] \in enabled} \cup {4})

Controller(enabled) ==
  [phase |-> "start", at |-> After(0, enabled), building |-> FALSE, checking |-> FALSE,
   stop |-> FALSE, ready |-> "none", enabled |-> enabled, check |-> 0,
   streams |-> [k \in KindSet |-> None], failed |-> {},
   since |-> [k \in KindSet |-> 0], processors |-> {}]

Init ==
  /\ LET device == CHOOSE d \in Devices : TRUE
     IN \E calls, call_input \in Devices :
          devices = [input |-> device, call_input |-> call_input, output |-> device,
                     call_output |-> calls]
  /\ caller = "idle" /\ ctl = <<>> /\ moved = FALSE
  /\ orphan = [phase |-> "none", stop |-> FALSE]
  /\ troubles = 0 /\ moves = 0

Latest == Len(ctl)

-----------------------------------------------------------------------------
(* The handle, in the engine's thread.                                     *)

Start ==
  /\ caller = "idle" /\ Latest < MaxStarts
  /\ \E on \in Settings :
       ctl' = Append(ctl, Controller(UNION {SourcesOf[setting] : setting \in on}))
  /\ caller' = "starting"
  /\ UNCHANGED <<devices, orphan, moved, troubles, moves>>

Started ==
  /\ caller = "starting" /\ ctl[Latest].ready = "ok"
  /\ caller' = "running"
  /\ UNCHANGED <<devices, ctl, orphan, moved, troubles, moves>>

\* "Audio devices did not respond": the controller is left to itself.
StartTimesOut ==
  /\ caller = "starting" /\ ctl[Latest].ready = "none"
  /\ caller' = "idle"
  /\ ctl' = [ctl EXCEPT ![Latest] = [ctl[Latest] EXCEPT !.stop = TRUE]]
  /\ UNCHANGED <<devices, orphan, moved, troubles, moves>>

Stop ==
  /\ caller = "running"
  /\ caller' = "stopping"
  /\ ctl' = [ctl EXCEPT ![Latest] = [ctl[Latest] EXCEPT !.stop = TRUE]]
  /\ UNCHANGED <<devices, orphan, moved, troubles, moves>>

\* The controller is waited for when it was told to stop, or could not start.
Joined ==
  /\ \/ caller = "stopping"
     \/ caller = "starting" /\ ctl[Latest].ready = "error"
  /\ ctl[Latest].phase = "gone"
  /\ caller' = "idle"
  /\ UNCHANGED <<devices, ctl, orphan, moved, troubles, moves>>

-----------------------------------------------------------------------------
(* A controller.                                                           *)

Kind(c) == Kinds[ctl[c].at]
Active(c) == ctl[c].at \in 1..3

\* A source gets its processor whether or not its device could be opened; the call
\* device only when it is wanted.
OpenSource(c) ==
  /\ ctl[c].phase = "start" /\ Active(c)
  /\ \E built \in IF Kind(c) = "call playback" /\ SeparateCallDevice = None
                  THEN [device : {None}, late : {FALSE}] ELSE BuildStream(Kind(c)) :
       /\ built.late => orphan.phase = "none" /\ troubles < MaxTroubles
       /\ orphan' = IF built.late THEN [phase |-> "starting", stop |-> TRUE] ELSE orphan
       /\ troubles' = troubles + (IF built.late THEN 1 ELSE 0)
       /\ ctl' = [ctl EXCEPT ![c] =
            [ctl[c] EXCEPT !.streams[Kind(c)] = built.device, !.at = After(@, ctl[c].enabled),
                      !.since[Kind(c)] = 0, !.processors = @ \cup {Kind(c)}]]
  /\ UNCHANGED <<devices, caller, moved, moves>>

Ready(c, answer) == IF caller = "starting" /\ c = Latest THEN answer ELSE ctl[c].ready

SourcesOpened(c) ==
  LET none == \A k \in KindSet : ctl[c].streams[k] = None
  IN /\ ctl[c].phase = "start" /\ ctl[c].at = 4
     /\ ctl' = [ctl EXCEPT ![c] =
          IF none THEN [ctl[c] EXCEPT !.phase = "drain", !.at = 0, !.stop = TRUE, !.ready = Ready(c, "error")]
          ELSE [ctl[c] EXCEPT !.phase = "watch", !.at = 0, !.ready = Ready(c, "ok")]]
     /\ UNCHANGED <<devices, caller, orphan, moved, troubles, moves>>

PassBegins(c) ==
  /\ ctl[c].phase = "watch" /\ ctl[c].at = 0 /\ ~ctl[c].stop
  /\ ctl[c].check = CheckAfter \/ ctl[c].failed # {}
  /\ LET checking == ctl[c].check = CheckAfter
     IN /\ ctl' = [ctl EXCEPT ![c] =
             [ctl[c] EXCEPT !.at = After(0, ctl[c].enabled), !.checking = checking,
                       !.check = IF checking THEN 0 ELSE @]]
        /\ moved' = IF checking THEN FALSE ELSE moved
  /\ UNCHANGED <<devices, caller, orphan, troubles, moves>>

\* Whether the source is to be opened anew: its device changed, it has none though
\* there is one, or it failed.
ToRestart(c, kind) ==
  LET s == ctl[c]
      other == s.checking /\ CurrentDevice(kind) \notin {None, s.streams[kind]}
  IN (other \/ kind \in s.failed) /\ ~(s.since[kind] < RestartAfter)

\* The call device now matches the default; one loopback is enough.
Redundant(c, kind) ==
  /\ ctl[c].checking /\ kind = "call playback"
  /\ CurrentDevice(kind) = None /\ ctl[c].streams[kind] # None

Visit(c) ==
  /\ ctl[c].phase = "watch" /\ Active(c) /\ ~ctl[c].building
  /\ LET kind == Kind(c)
     IN IF Redundant(c, kind)
        THEN ctl' = [ctl EXCEPT ![c] =
               [ctl[c] EXCEPT !.streams[kind] = None, !.at = After(@, ctl[c].enabled)]]
        ELSE IF ToRestart(c, kind)
        THEN ctl' = [ctl EXCEPT ![c] =
               [ctl[c] EXCEPT !.streams[kind] = None, !.building = TRUE,
                         !.failed = @ \ {kind}, !.since[kind] = 0]]
        ELSE ctl' = [ctl EXCEPT ![c] = [ctl[c] EXCEPT !.at = After(@, ctl[c].enabled)]]
  /\ UNCHANGED <<devices, caller, orphan, moved, troubles, moves>>

Rebuild(c) ==
  /\ ctl[c].building
  /\ \E built \in BuildStream(Kind(c)) :
       /\ built.late => orphan.phase = "none" /\ troubles < MaxTroubles
       /\ orphan' = IF built.late THEN [phase |-> "starting", stop |-> TRUE] ELSE orphan
       /\ troubles' = troubles + (IF built.late THEN 1 ELSE 0)
       /\ ctl' = [ctl EXCEPT ![c] =
            [ctl[c] EXCEPT !.streams[Kind(c)] = built.device, !.building = FALSE,
                      !.at = After(@, ctl[c].enabled)]]
  /\ UNCHANGED <<devices, caller, moved, moves>>

PassEnds(c) ==
  /\ ctl[c].phase = "watch" /\ ctl[c].at = 4
  /\ ctl' = [ctl EXCEPT ![c] = [ctl[c] EXCEPT !.at = 0, !.checking = FALSE]]
  /\ UNCHANGED <<devices, caller, orphan, moved, troubles, moves>>

\* The loop ends at the flag: the streams are closed, then the processors awaited.
Close(c) ==
  /\ ctl[c].phase = "watch" /\ ctl[c].at = 0 /\ ctl[c].stop
  /\ ctl' = [ctl EXCEPT ![c] =
       [ctl[c] EXCEPT !.phase = "drain", !.streams = [k \in KindSet |-> None],
                 !.failed = {}, !.check = 0, !.since = [k \in KindSet |-> 0]]]
  /\ UNCHANGED <<devices, caller, orphan, moved, troubles, moves>>

ProcessorEnds(c) ==
  /\ ctl[c].stop
  /\ \E kind \in ctl[c].processors : ctl' = [ctl EXCEPT ![c] = [ctl[c] EXCEPT !.processors = @ \ {kind}]]
  /\ UNCHANGED <<devices, caller, orphan, moved, troubles, moves>>

Gone(c) ==
  /\ ctl[c].phase = "drain" /\ ctl[c].processors = {}
  /\ ctl' = [ctl EXCEPT ![c] = [ctl[c] EXCEPT !.phase = "gone"]]
  /\ UNCHANGED <<devices, caller, orphan, moved, troubles, moves>>

-----------------------------------------------------------------------------
(* Streams, devices and time.                                              *)

StreamFails(c, kind) ==
  /\ ctl[c].streams[kind] # None /\ kind \notin ctl[c].failed /\ troubles < MaxTroubles
  /\ ctl' = [ctl EXCEPT ![c] = [ctl[c] EXCEPT !.failed = @ \cup {kind}]]
  /\ troubles' = troubles + 1
  /\ UNCHANGED <<devices, caller, orphan, moved, moves>>

\* The microphone given up starts after all, or fails to; it captures until it
\* reads the flag.
OrphanGoesOn ==
  /\ \/ orphan.phase = "starting" /\ orphan' \in {[orphan EXCEPT !.phase = p] : p \in {"open", "none"}}
     \/ orphan.phase = "open" /\ orphan.stop /\ orphan' = [orphan EXCEPT !.phase = "none"]
  /\ UNCHANGED <<devices, caller, ctl, moved, troubles, moves>>

DeviceChanges ==
  /\ moves < MaxMoves /\ \E c \in DOMAIN ctl : ctl[c].phase = "watch" /\ ~ctl[c].stop
  /\ devices' \in DefaultDevices \ {devices}
  /\ moved' = TRUE /\ moves' = moves + 1
  /\ UNCHANGED <<caller, ctl, orphan, troubles>>

Tick ==
  LET later(n, max) == IF n < max THEN n + 1 ELSE n
  IN /\ \E c \in DOMAIN ctl : ctl[c].phase = "watch" /\ ~ctl[c].stop
     /\ ctl' = [c \in DOMAIN ctl |-> IF ctl[c].phase # "watch" THEN ctl[c] ELSE
                 [ctl[c] EXCEPT !.check = later(@, CheckAfter),
                    !.since = [k \in KindSet |-> later(@[k], RestartAfter)]]]
     /\ UNCHANGED <<devices, caller, orphan, moved, troubles, moves>>

Next ==
  \/ Start \/ Started \/ StartTimesOut \/ Stop \/ Joined
  \/ \E c \in DOMAIN ctl :
       \/ OpenSource(c) \/ SourcesOpened(c) \/ PassBegins(c) \/ Visit(c)
       \/ Rebuild(c) \/ PassEnds(c) \/ Close(c) \/ ProcessorEnds(c) \/ Gone(c)
       \/ \E kind \in KindSet : StreamFails(c, kind)
  \/ OrphanGoesOn \/ DeviceChanges \/ Tick

Spec == Init /\ [][Next]_vars

-----------------------------------------------------------------------------
\* What is captured is wanted, or was told to stop: a capture whose start took too
\* long, a microphone given up, and a handle that was stopped leave nothing open;
\* and once stop has returned, everything is closed (audio.rs, start, stop and
\* run_controller; comms_mic.rs, start).
CaptureIsWanted ==
  /\ \A c \in DOMAIN ctl :
       LET open == ctl[c].processors # {} \/ \E k \in KindSet : ctl[c].streams[k] # None
       IN /\ open => ctl[c].stop \/ (c = Latest /\ caller # "idle")
          /\ ctl[c].phase = "gone" => ~open
          /\ caller = "idle" /\ ctl[c].ready # "none" => ~open
  /\ orphan.phase = "open" => orphan.stop

\* A look at the devices leaves every source on the one it would capture now, and
\* the two loopbacks on different ones, unless it was opened less than two seconds
\* before or could not be (audio.rs, run_controller and restart).
SourcesFollowDevices ==
  \A c \in DOMAIN ctl :
    LET s == ctl[c]
        settled(kind) == s.since[kind] >= RestartAfter
    IN s.phase = "watch" /\ s.at = 0 /\ s.check = 0 /\ ~moved =>
         /\ \A kind \in s.enabled :
              settled(kind) => CurrentDevice(kind) \in {None, s.streams[kind]}
         /\ /\ settled("playback") /\ settled("call playback")
            /\ s.streams["call playback"] # None
            => s.streams["call playback"] # s.streams["playback"]

\* A microphone that works is left alone while the devices never change: it is not
\* closed and opened again at every look at them (audio.rs, build_stream falls back
\* to the raw microphone, current_device_name goes on naming the one for calls).
WorkingMicrophoneStays ==
  [][\A c \in DOMAIN ctl :
       moves = 0 /\ "microphone" \notin ctl[c].failed /\ ~ctl[c].stop =>
         ~(ctl[c].streams["microphone"] # None /\ ctl'[c].streams["microphone"] = None)]_vars

\* The inductive invariant.  A controller that was not told to stop is the one its
\* caller waits for or holds; one whose loop ended holds no stream;
Controllers ==
  [phase : {"start", "watch", "drain", "gone"}, at : 0..4, building : BOOLEAN,
   checking : BOOLEAN, stop : BOOLEAN, ready : {"none", "ok", "error"},
   enabled : SUBSET KindSet, check : Nat, streams : [KindSet -> Devices \cup {None}],
   failed : SUBSET KindSet, since : [KindSet -> Nat], processors : SUBSET KindSet]
Told(c, s) ==
  /\ s.stop \/ (c = Latest /\ caller \in {"starting", "running"})
  /\ s.phase \in {"drain", "gone"} => \A k \in KindSet : s.streams[k] = None
  /\ s.phase = "gone" => s.processors = {}
  /\ s.ready = "error" => s.stop
  /\ s.ready # "none" => s.phase = "gone" \/ (c = Latest /\ caller # "idle")
Telling ==
  /\ devices \in DefaultDevices /\ ctl \in Seq(Controllers)
  /\ caller \in {"idle", "starting", "running", "stopping"}
  /\ caller # "idle" => Latest # 0
  /\ orphan \in [phase : {"none", "starting", "open"}, stop : BOOLEAN]
  /\ orphan.phase # "none" => orphan.stop
  /\ \A c \in DOMAIN ctl : Told(c, ctl[c])

\* and only the newest controller makes passes, in which every source it went by
\* captures its device or was opened less than RestartAfter ago.
Follows(s, kind) == s.since[kind] >= RestartAfter => s.streams[kind] = CurrentDevice(kind)
Unticked(s) == s.check = 0 => \A k \in KindSet : s.since[k] = 0
Passed(s) == {Kinds[i] : i \in {i \in 1..3 : Kinds[i] \in s.enabled /\ (s.checking => i < s.at)}}
Looked(c, s) ==
  /\ s.building => s.phase = "watch" /\ s.at \in 1..3
  /\ s.building /\ s.check = 0 => s.since[Kinds[s.at]] = 0
  /\ s.phase = "start" => s.check = 0 /\ Unticked(s) /\ ~s.checking /\ s.ready = "none"
  /\ s.phase = "watch" /\ (c # Latest \/ caller = "idle") => s.at = 0 /\ Unticked(s)
  /\ c = Latest /\ caller = "starting" /\ s.ready = "none" => s.phase = "start"
  /\ s.at = 0 => ~s.checking
  /\ s.at \in 1..3 => Kinds[s.at] \in s.enabled
  /\ \A k \in KindSet \ s.enabled : s.streams[k] = None
  /\ s.phase = "watch" /\ s.check = 0 /\ ~moved => \A k \in Passed(s) : Follows(s, k)
Looking == moved \in BOOLEAN /\ \A c \in DOMAIN ctl : Looked(c, ctl[c])
=============================================================================
