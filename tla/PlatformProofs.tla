---------------------------- MODULE PlatformProofs ----------------------------
(***************************************************************************)
(* What the recorders, deliverers, shortcut listeners and the copilot's    *)
(* window keep, for any outputs, windows, devices and bounds.  Each part   *)
(* has an inductive invariant, which its module defines next to its        *)
(* properties; the theorems are about MCPlatform's specification, in which *)
(* one of the parts runs.                                                  *)
(***************************************************************************)
EXTENDS MCPlatform, Integers, Sequences, FiniteSetTheorems, TLAPS

-----------------------------------------------------------------------------
(* Delivery on Linux.                                                      *)

\* The X11 deliverer starts in its invariant, and its contract starts with it.
LEMMA X11Init == X11!Init => X11!Chord /\ X11!FocusIsStable /\ Contract!Init
  BY DEF X11!Init, X11!Chord, X11!FocusIsStable, Contract!Init

\* Each of its steps keeps the invariant and is a step of the contract or none.
LEMMA X11Step ==
  ASSUME X11!Chord, X11!FocusIsStable, X11!Next
  PROVE  /\ X11!Chord' /\ X11!FocusIsStable'
         /\ Contract!Next \/ UNCHANGED Contract!vars
<1> USE DEF X11!Chord, X11!FocusIsStable, Contract!Next, Contract!vars,
            Contract!Deliver, Contract!Type, Contract!Return,
            X11!Returns, X11!Continues, X11!Running, X11!delivery, X11!user
<1>1. CASE X11!Deliver
  BY <1>1 DEF X11!Deliver
<1>2. CASE X11!ObserveFails \/ X11!PublishFails
  BY <1>2 DEF X11!ObserveFails, X11!PublishFails
<1>3. ASSUME NEW t \in X11!Targets, X11!Observe(t)
      PROVE  /\ X11!Chord' /\ X11!FocusIsStable'
             /\ Contract!Next \/ UNCHANGED Contract!vars
  BY <1>3 DEF X11!Observe, X11!SameFocus
<1>4. CASE X11!Publish
  BY <1>4 DEF X11!Publish
<1>5. CASE X11!DeadlineReached \/ X11!InjectRefused
  BY <1>5 DEF X11!DeadlineReached, X11!InjectRefused
<1>6. CASE X11!Press \/ X11!Release \/ X11!EmitFails
  BY <1>6 DEF X11!Press, X11!Release, X11!EmitFails
<1>7. CASE X11!Injected
  BY <1>7 DEF X11!Injected
<1>8. CASE X11!TimePasses
  BY <1>8 DEF X11!TimePasses
<1>9. ASSUME NEW t \in X11!Targets, X11!MoveFocus(t)
      PROVE  /\ X11!Chord' /\ X11!FocusIsStable'
             /\ Contract!Next \/ UNCHANGED Contract!vars
  BY <1>9 DEF X11!MoveFocus
<1>10. QED
  BY <1>1, <1>2, <1>3, <1>4, <1>5, <1>6, <1>7, <1>8, <1>9 DEF X11!Next

-----------------------------------------------------------------------------
(* Delivery on Windows.                                                    *)

\* So it is with the deliverer on Windows: its start,
LEMMA SendInit == Send!Init => Send!Chord /\ Send!AimIsTarget /\ Contract!Init
  BY DEF Send!Init, Send!Chord, Send!AimIsTarget, Contract!Init

\* and each of its steps.
LEMMA SendStep ==
  ASSUME Send!Chord, Send!AimIsTarget, Send!Next
  PROVE  /\ Send!Chord' /\ Send!AimIsTarget'
         /\ Contract!Next \/ UNCHANGED Contract!vars
<1> USE DEF Send!Chord, Send!AimIsTarget, Contract!Next, Contract!vars,
            Contract!Deliver, Contract!Type, Contract!Return,
            Send!Returns, Send!Goes, Send!user
<1>1. CASE Send!Prepare \/ Send!Prepared
  BY <1>1 DEF Send!Prepare, Send!Prepared
<1>2. CASE Send!Deliver
  BY <1>2 DEF Send!Deliver
<1>3. CASE Send!ModifiersStay \/ Send!NoTarget \/ Send!CopyFails \/ Send!TargetMoved
  BY <1>3 DEF Send!ModifiersStay, Send!NoTarget, Send!CopyFails, Send!TargetMoved
<1>4. CASE Send!ModifiersUp \/ Send!SeeTarget \/ Send!Copy \/ Send!LookAgain \/ Send!FeelAgain
  BY <1>4 DEF Send!ModifiersUp, Send!SeeTarget, Send!Copy, Send!LookAgain, Send!FeelAgain
<1>5. CASE Send!SendInput
  BY <1>5 DEF Send!SendInput
<1>6. CASE Send!Release \/ Send!ReleaseFails
  BY <1>6 DEF Send!Release, Send!ReleaseFails
<1>7. CASE Send!Sent
  BY <1>7 DEF Send!Sent
<1>8. ASSUME NEW w \in Send!Fronts, Send!MoveFocus(w)
      PROVE  /\ Send!Chord' /\ Send!AimIsTarget'
             /\ Contract!Next \/ UNCHANGED Contract!vars
  BY <1>8 DEF Send!MoveFocus
<1>9. CASE Send!PressModifier
  BY <1>9 DEF Send!PressModifier
<1>10. QED
  BY <1>1, <1>2, <1>3, <1>4, <1>5, <1>6, <1>7, <1>8, <1>9 DEF Send!Next

-----------------------------------------------------------------------------
(* The two deliverers.                                                     *)

Delivering ==
  /\ part = "linux delivery" => X11!Chord /\ X11!FocusIsStable
  /\ part = "windows delivery" => Send!Chord /\ Send!AimIsTarget

\* The part the platform runs starts right,
LEMMA DeliveringInit == Init => Delivering /\ Contract!Init
  BY X11Init, SendInit DEF Init, Delivering, Contract!Init

\* and a step of that part or of another keeps the contract.
LEMMA DeliveringStep ==
  Delivering /\ [Next]_vars => Delivering' /\ [Contract!Next]_(Contract!vars)
<1> SUFFICES ASSUME Delivering, [Next]_vars
             PROVE  Delivering' /\ (Contract!Next \/ UNCHANGED Contract!vars)
  OBVIOUS
<1>1. CASE part = "linux delivery" /\ X11!Next /\ part' = part
  BY <1>1, X11Step DEF Delivering
<1>2. CASE part = "windows delivery" /\ Send!Next /\ part' = part
  BY <1>2, SendStep DEF Delivering
<1>3. CASE part \notin {"linux delivery", "windows delivery"} /\ part' = part
           /\ UNCHANGED <<outcome, typed, held>>
  BY <1>3 DEF Delivering, Contract!vars
<1>4. CASE UNCHANGED vars
  BY <1>4 DEF vars, Delivering, Contract!vars, X11!Chord, X11!FocusIsStable, X11!Protocol,
              Send!Chord, Send!AimIsTarget
<1>5. QED
  BY <1>1, <1>2, <1>3, <1>4 DEF Next

\* Either deliverer implements the contract the daemon's exactly-once delivery rests
\* on: at most one paste per call, an error only if nothing was typed, a submission
\* only if everything was, and a key left down only after an ambiguous outcome
\* (ports.rs, Deliverer; PasteDelivery and emit_chord on Linux, deliver and
\* SendInput, with a release that may fail, on Windows).
THEOREM DeliverersKeepTheContract == Spec => ImplementsDelivery
<1>1. Spec => []Delivering
  BY DeliveringInit, DeliveringStep, PTL DEF Spec
<1>2. QED
  BY <1>1, DeliveringInit, DeliveringStep, PTL DEF Spec, ImplementsDelivery, Contract!Spec

-----------------------------------------------------------------------------
(* The recorder on Linux: its children.                                    *)

\* The recorder on Linux starts with no recording,
LEMMA OwningInit == Linux!Init => Linux!Owning
<1> SUFFICES ASSUME Linux!Init PROVE Linux!Owning
  OBVIOUS
<1>1. s1 = "idle" /\ s2 = 0 /\ s3 = 0 /\ s6 = {} /\ s7 = {} /\ s12 = FALSE /\ s10 = TRUE
  BY DEF Linux!Init
<1>2. s9 \in Sinks
  BY DEF Linux!Init
<1>3. s4 = [j \in Linux!Jobs |-> "none"]
  BY DEF Linux!Init
<1>4. s2 \in 0..MaxJobs
  BY <1>1, RecordersAssumption
<1>5. Linux!RecorderIsOwned
  BY <1>1, <1>3 DEF Linux!RecorderIsOwned
<1>6. QED
  BY <1>1, <1>2, <1>3, <1>4, <1>5 DEF Linux!Owning

\* and every step keeps the owner at the recording of the daemon.
LEMMA OwningStep ==
  ASSUME Linux!Owning, Linux!Next
  PROVE  Linux!Owning'
<1> USE RecordersAssumption
    DEF Linux!Owning, Linux!RecorderIsOwned, Linux!Jobs, Linux!ownerVars
<1>1. CASE Linux!StartRecording
  BY <1>1 DEF Linux!StartRecording
<1>2. CASE Linux!SpawnFails \/ Linux!StopRecording
  BY <1>2 DEF Linux!SpawnFails, Linux!StopRecording
<1>3. CASE Linux!Spawn
  BY <1>3 DEF Linux!Spawn
<1>4. CASE Linux!Ready
  BY <1>4 DEF Linux!Ready
<1>5. CASE Linux!NotReady
  BY <1>5 DEF Linux!NotReady
<1>6. CASE Linux!StopEnds
  BY <1>6 DEF Linux!StopEnds
<1>7. CASE Linux!InspectFails \/ Linux!RestoreOutput \/ Linux!UpdateSettings
  BY <1>7 DEF Linux!InspectFails, Linux!RestoreOutput, Linux!UpdateSettings
<1>8. ASSUME NEW w \in s8.workers, Linux!FadeStep(w) PROVE Linux!Owning'
  BY <1>8 DEF Linux!FadeStep
<1>9. ASSUME NEW j \in Linux!Jobs, Linux!Capture(j) \/ Linux!ChildExits(j) \/ Linux!NotifyExit(j)
      PROVE  Linux!Owning'
  BY <1>9 DEF Linux!Capture, Linux!ChildExits, Linux!NotifyExit
<1>10. ASSUME NEW s \in Sinks, Linux!SetVolume(s) \/ Linux!SelectSink(s) PROVE Linux!Owning'
  BY <1>10 DEF Linux!SetVolume, Linux!SelectSink
<1>11. QED
  BY <1>1, <1>2, <1>3, <1>4, <1>5, <1>6, <1>7, <1>8, <1>9, <1>10 DEF Linux!Next

-----------------------------------------------------------------------------
(* The recorder on Linux: its outputs.                                     *)

\* A failed pactl call spends one trouble and keeps the volumes restorable.
LEMMA TroubledKeeps ==
  ASSUME NEW o, Linux!Restorable(o), NEW p \in Linux!Troubled(o)
  PROVE  Linux!Restorable(p) /\ p = [o EXCEPT !.troubles = @ + 1]
  BY DEF Linux!Restorable, Linux!Outputs, Linux!Troubled, Linux!NoOutput

\* So does writing a volume, reduced only while the original is saved,
LEMMA WritesKeep ==
  ASSUME NEW o, Linux!Restorable(o), NEW level \in Linux!Levels, NEW restored \in BOOLEAN,
         restored => level \notin Linux!Reduced, NEW p \in Linux!Writes(o, level, restored)
  PROVE  Linux!Restorable(p)
<1>1. CASE p = o \/ p \in Linux!Troubled(o)
  BY <1>1, TroubledKeeps
<1>2. CASE o.saved # Linux!NoOutput /\ restored
           /\ p = [o EXCEPT !.volume[o.saved.name] = level, !.saved = Linux!NoOutput]
  BY <1>2 DEF Linux!Restorable, Linux!Outputs, Linux!NoOutput, Linux!Levels, Linux!Reduced
<1>3. CASE o.saved # Linux!NoOutput
           /\ p = [o EXCEPT !.volume[o.saved.name] = level, !.saved = [@ EXCEPT !.applied = level]]
  <2>1. o.saved.name \in Sinks
    BY <1>3 DEF Linux!Restorable, Linux!Outputs
  <2>2. p \in Linux!Outputs /\ p.saved = [o.saved EXCEPT !.applied = level]
        /\ p.workers = o.workers /\ p.volume = [o.volume EXCEPT ![o.saved.name] = level]
    BY <1>3, <2>1 DEF Linux!Restorable, Linux!Outputs
  <2>3. p.saved.name = o.saved.name /\ p.saved.applied = level
        /\ p.saved.original = o.saved.original
    BY <2>2 DEF Linux!Restorable, Linux!Outputs
  <2>4. \A s \in Sinks : p.volume[s] \in Linux!Reduced =>
          p.saved.name = s /\ p.saved.applied = p.volume[s]
    BY <2>1, <2>2, <2>3 DEF Linux!Restorable, Linux!Outputs
  <2>5. QED
    BY <2>1, <2>2, <2>3, <2>4, RecordersAssumption DEF Linux!Restorable
<1>4. QED
  BY <1>1, <1>2, <1>3 DEF Linux!Writes

\* a ramp of such writes,
LEMMA RampsKeep ==
  ASSUME NEW o, Linux!Restorable(o), NEW target \in Linux!Levels, NEW fade \in BOOLEAN,
         NEW restoring \in BOOLEAN, restoring => target \notin Linux!Reduced,
         NEW p \in Linux!Ramps(o, target, fade, restoring)
  PROVE  Linux!Restorable(p)
<1>1. CASE ~fade
  BY <1>1, WritesKeep DEF Linux!Ramps
<1>2. CASE fade /\ p = [o EXCEPT !.workers = @ \cup {[generation |-> o.generation,
                        target |-> target, restoring |-> restoring, next |-> "mid"]}]
  BY <1>2 DEF Linux!Restorable, Linux!Outputs, Linux!Levels
<1>3. CASE fade /\ \E q \in Linux!Troubled(o) :
                     p \in IF restoring THEN Linux!Writes(q, target, TRUE) ELSE {q}
  BY <1>3, TroubledKeeps, WritesKeep
<1>4. QED
  BY <1>1, <1>2, <1>3 DEF Linux!Ramps

\* a restore,
LEMMA RestoresKeep ==
  ASSUME NEW o, Linux!Restorable(o), NEW fade \in BOOLEAN, NEW q \in Linux!Restores(o, fade)
  PROVE  Linux!Restorable(q)
<1> DEFINE p == [o EXCEPT !.generation = @ + 1]
<1>1. Linux!Restorable(p)
  BY DEF Linux!Restorable, Linux!Outputs
<1>2. CASE q = p \/ q \in Linux!Troubled(p)
  BY <1>1, <1>2, TroubledKeeps
<1>3. CASE p.volume[p.saved.name] # p.saved.applied /\ q = [p EXCEPT !.saved = Linux!NoOutput]
  <2> HIDE DEF p
  <2>1. QED
    BY <1>1, <1>3 DEF Linux!Restorable, Linux!Outputs, Linux!NoOutput, Linux!Levels, Linux!Reduced
<1>4. CASE q \in Linux!Ramps(p, p.saved.original, fade, TRUE)
  <2> HIDE DEF p
  <2>1. p.saved.original \in Linux!Levels \ Linux!Reduced
    BY <1>1 DEF Linux!Restorable, Linux!Outputs
  <2>2. QED
    BY <1>1, <1>4, <2>1, RampsKeep
<1>5. QED
  BY <1>2, <1>3, <1>4 DEF Linux!Restores

\* and a duck of the sink that is the default.
LEMMA DucksKeep ==
  ASSUME NEW o, Linux!Restorable(o), s9 \in Sinks, NEW q \in Linux!Ducks(o)
  PROVE  Linux!Restorable(q)
<1>1. PICK p \in Linux!Restores(o, FALSE) :
        q \in IF ~s10 \/ p.saved # Linux!NoOutput THEN {p}
              ELSE Linux!Troubled(p) \cup
                   UNION {Linux!Ramps([p EXCEPT !.saved = [name |-> s9,
                                  original |-> p.volume[s9], applied |-> p.volume[s9]]],
                                "low", fade, FALSE) : fade \in BOOLEAN}
  BY DEF Linux!Ducks
<1>2. Linux!Restorable(p)
  BY RestoresKeep
<1> DEFINE r == [p EXCEPT !.saved = [name |-> s9, original |-> p.volume[s9],
                                     applied |-> p.volume[s9]]]
<1>3. CASE q = p \/ q \in Linux!Troubled(p)
  BY <1>2, <1>3, TroubledKeeps
<1>4. ASSUME p.saved = Linux!NoOutput, NEW fade \in BOOLEAN,
             q \in Linux!Ramps(r, "low", fade, FALSE)
      PROVE  Linux!Restorable(q)
  <2> HIDE DEF r
  <2>0. p.saved.name = "none"
    BY <1>4 DEF Linux!NoOutput
  <2>1. \A s \in Sinks : p.volume[s] \notin Linux!Reduced
    BY <1>2, <2>0, RecordersAssumption DEF Linux!Restorable
  <2> USE DEF r
  <2>2. Linux!Restorable(r)
    BY <1>2, <2>1, RecordersAssumption DEF Linux!Restorable, Linux!Outputs
  <2>3. "low" \in Linux!Levels
    BY DEF Linux!Levels
  <2> HIDE DEF r
  <2>4. QED
    BY <1>4, <2>2, <2>3, RampsKeep
<1>5. QED
  BY <1>1, <1>3, <1>4

\* The volumes are the users' own at the start,
LEMMA RestorableInit == Linux!Init => Linux!Restorable(s8)
  BY DEF Linux!Init, Linux!Restorable, Linux!Outputs, Linux!NoOutput, Linux!Levels,
         Linux!Reduced

\* and every step of the recorder keeps them restorable.
LEMMA RestorableStep ==
  ASSUME Linux!Owning, Linux!Restorable(s8), Linux!Next
  PROVE  Linux!Restorable(s8)'
<1> USE DEF Linux!ownerVars
<1>0. s9 \in Sinks
  BY DEF Linux!Owning
<1>1. CASE Linux!StartRecording
  <2>1. PICK q \in Linux!Ducks(s8) : s8' = q
    BY <1>1 DEF Linux!StartRecording
  <2>2. Linux!Restorable(q)
    BY <1>0, DucksKeep
  <2>3. QED
    BY <2>1, <2>2 DEF Linux!Restorable
<1>2. CASE Linux!RestoreOutput \/ (Linux!UpdateSettings /\ s10)
  <2>1. PICK fade \in BOOLEAN : s8' \in Linux!Restores(s8, fade)
    BY <1>2 DEF Linux!RestoreOutput, Linux!UpdateSettings
  <2>2. PICK q \in Linux!Restores(s8, fade) : s8' = q
    BY <2>1
  <2>3. Linux!Restorable(q)
    BY RestoresKeep
  <2>4. QED
    BY <2>2, <2>3 DEF Linux!Restorable
<1>3. CASE UNCHANGED s8
  BY <1>3 DEF Linux!Restorable
<1>4. ASSUME NEW w \in s8.workers, Linux!FadeStep(w) PROVE Linux!Restorable(s8)'
  <2> DEFINE o == [s8 EXCEPT !.workers = @ \ {w}]
             last == w.next = w.target
  <2>1. /\ Linux!Restorable(o) /\ w.next \in Linux!Levels
        /\ w.restoring \in BOOLEAN /\ w.target \in Linux!Levels
        /\ w.restoring => w.target \notin Linux!Reduced
        /\ [w EXCEPT !.next = w.target] \in [generation : Nat, target : Linux!Levels,
                                             restoring : BOOLEAN, next : Linux!Levels]
    BY DEF Linux!Restorable, Linux!Outputs
  <2>2. PICK q : s8' = q /\ (q = o \/ \E p \in Linux!Writes(o, w.next, w.restoring /\ last) :
          q = [p EXCEPT !.workers = IF last \/ p.troubles # o.troubles THEN @
                                    ELSE @ \cup {[w EXCEPT !.next = w.target]}])
    BY <1>4 DEF Linux!FadeStep
  <2>3. ASSUME NEW p \in Linux!Writes(o, w.next, w.restoring /\ last),
               q = [p EXCEPT !.workers = IF last \/ p.troubles # o.troubles THEN @
                                    ELSE @ \cup {[w EXCEPT !.next = w.target]}]
        PROVE  Linux!Restorable(q)
    <3>1. Linux!Restorable(p)
      <4>1. (w.restoring /\ last) \in BOOLEAN
        BY <2>1
      <4> HIDE DEF o
      <4>2. QED
        BY <2>1, <2>3, <4>1, WritesKeep
    <3> HIDE DEF o
    <3>2. QED
      BY <2>1, <2>3, <3>1 DEF Linux!Restorable, Linux!Outputs
  <2>4. Linux!Restorable(q)
    BY <2>1, <2>2, <2>3
  <2>5. QED
    BY <2>2, <2>4 DEF Linux!Restorable
<1>5. ASSUME NEW s \in Sinks, Linux!SetVolume(s) PROVE Linux!Restorable(s8)'
  BY <1>5 DEF Linux!SetVolume, Linux!Restorable, Linux!Outputs, Linux!Levels, Linux!Reduced
<1>6. CASE Linux!InspectFails
  BY <1>6 DEF Linux!InspectFails, Linux!Restorable, Linux!Outputs
<1>7. CASE Linux!SpawnFails \/ Linux!Spawn \/ Linux!Ready \/ Linux!NotReady
           \/ Linux!StopRecording \/ Linux!StopEnds \/ (Linux!UpdateSettings /\ ~s10)
  BY <1>3, <1>7 DEF Linux!SpawnFails, Linux!Spawn, Linux!Ready, Linux!NotReady,
     Linux!StopRecording, Linux!StopEnds, Linux!UpdateSettings
<1>8. ASSUME NEW j \in Linux!Jobs, Linux!Capture(j) \/ Linux!ChildExits(j) \/ Linux!NotifyExit(j)
      PROVE  Linux!Restorable(s8)'
  BY <1>3, <1>8 DEF Linux!Capture, Linux!ChildExits, Linux!NotifyExit
<1>9. ASSUME NEW s \in Sinks, Linux!SelectSink(s) PROVE Linux!Restorable(s8)'
  BY <1>3, <1>9 DEF Linux!SelectSink
<1>10. QED
  BY <1>1, <1>2, <1>4, <1>5, <1>6, <1>7, <1>8, <1>9 DEF Linux!Next

-----------------------------------------------------------------------------
(* The recorder on Windows: its captures.                                  *)

\* The recorder on Windows starts with no command sent.
LEMMA CommandingInit == Win!Init => Win!Commanding /\ Win!Reporting
<1> SUFFICES ASSUME Win!Init PROVE Win!Commanding /\ Win!Reporting
  OBVIOUS
<1>1. s1 = "idle" /\ s2 = 0 /\ s3 = <<>> /\ s4 = "none" /\ s5 = 0 /\ s6 = 0
      /\ s10 = [j \in Win!Jobs |-> 0]
  BY DEF Win!Init
<1>2. Win!Taken = 0
  <2>1. Win!Sent = 2 * 0 - 0
    BY <1>1 DEF Win!Sent
  <2>2. Len(s3) = 0
    BY <1>1
  <2>3. QED
    BY <2>1, <2>2 DEF Win!Taken
<1>3. QED
  BY <1>1, <1>2, RecordersAssumption DEF Win!Commanding, Win!Reporting

\* What asking the owner for one more thing, and its taking one, do to the queue.
LEMMA Asked ==
  ASSUME Win!Commanding, NEW c \in {"start", "finish"} \X Win!Jobs, s3' = Append(s3, c),
         Win!Sent' = Win!Sent + 1, Win!Place(c) = Win!Sent + 1
  PROVE  /\ s3' \in Seq({"start", "finish"} \X Win!Jobs) /\ Win!Taken' = Win!Taken
         /\ \A i \in DOMAIN s3' : Win!Place(s3'[i]) = Win!Taken + i
<1>1. /\ s3' \in Seq({"start", "finish"} \X Win!Jobs) /\ Len(s3') = Len(s3) + 1
      /\ Len(s3) \in Nat /\ \A i \in 1..Len(s3) : s3'[i] = s3[i]
      /\ s3'[Len(s3) + 1] = c
  BY DEF Win!Commanding
<1>2. Win!Sent \in Int
  BY RecordersAssumption DEF Win!Sent, Win!Commanding
<1>3. Win!Taken' = Win!Taken /\ Win!Taken + Len(s3) = Win!Sent
  BY <1>1, <1>2 DEF Win!Taken
<1>4. ASSUME NEW i \in DOMAIN s3' PROVE Win!Place(s3'[i]) = Win!Taken + i
  <2>1. CASE i = Len(s3) + 1
    BY <1>1, <1>2, <1>3, <2>1 DEF Win!Taken
  <2>2. CASE i \in 1..Len(s3)
    BY <1>1, <2>2 DEF Win!Commanding
  <2>3. QED
    BY <1>1, <2>1, <2>2
<1>5. QED
  BY <1>1, <1>3, <1>4

\* Taking the first command moves the owner by one, and the rest keep their places.
LEMMA TakenOff ==
  ASSUME Win!Commanding, s3 # <<>>, s3' = Tail(s3), Win!Sent' = Win!Sent
  PROVE  /\ s3' \in Seq({"start", "finish"} \X Win!Jobs) /\ Win!Taken' = Win!Taken + 1
         /\ Win!Taken \in Int /\ Win!Taken < Win!Sent
         /\ \A i \in DOMAIN s3' : Win!Place(s3'[i]) = Win!Taken + 1 + i
         /\ Head(s3) \in {"start", "finish"} \X Win!Jobs /\ Win!Place(Head(s3)) = Win!Taken + 1
<1>1. /\ s3' \in Seq({"start", "finish"} \X Win!Jobs) /\ Len(s3') = Len(s3) - 1
      /\ Len(s3) \in Nat \ {0} /\ \A i \in 1..Len(s3') : s3'[i] = s3[i + 1]
      /\ Head(s3) = s3[1] /\ Head(s3) \in {"start", "finish"} \X Win!Jobs
  BY DEF Win!Commanding
<1>2. Win!Sent \in Int
  BY RecordersAssumption DEF Win!Sent, Win!Commanding
<1>3. Win!Taken' = Win!Taken + 1 /\ Win!Taken \in Int /\ Win!Taken < Win!Sent
  BY <1>1, <1>2 DEF Win!Taken
<1>4. Win!Place(Head(s3)) = Win!Taken + 1
  <2>1. 1 \in DOMAIN s3 /\ s3[1] = Head(s3)
    BY <1>1
  <2>2. Win!Place(s3[1]) = Win!Taken + 1
    BY <2>1 DEF Win!Commanding
  <2>3. QED
    BY <2>1, <2>2
<1>5. ASSUME NEW i \in DOMAIN s3' PROVE Win!Place(s3'[i]) = Win!Taken + 1 + i
  <2>1. i \in Int /\ i + 1 \in 1..Len(s3) /\ s3'[i] = s3[i + 1]
    BY <1>1
  <2>2. Win!Place(s3[i + 1]) = Win!Taken + (i + 1)
    BY <2>1 DEF Win!Commanding
  <2>3. QED
    BY <1>3, <2>1, <2>2
<1>6. QED
  BY <1>1, <1>3, <1>4, <1>5

\* Every step keeps the owner at the recording its commands lead to.
LEMMA CommandingStep ==
  ASSUME Win!Commanding, Win!Reporting, Win!Next
  PROVE  Win!Commanding' /\ Win!Reporting'
<1> USE RecordersAssumption DEF Win!Jobs, Win!callerVars, Win!ownerVars, Win!workerVars, Win!userVars
<1>0. /\ s1 \in {"idle", "starting", "recording", "aborting", "finishing"} /\ s2 \in 0..MaxJobs
      /\ Win!Sent = 2 * s2 - (IF s1 \in {"starting", "recording"} THEN 1 ELSE 0)
      /\ Win!Taken = Win!Sent - Len(s3) /\ Len(s3) \in Nat /\ Win!Sent \in Int /\ Win!Taken \in Nat
  BY DEF Win!Commanding, Win!Sent, Win!Taken
<1>1. CASE Win!Start
  <2> DEFINE c == <<"start", s2 + 1>>
  <2>1. /\ s1 = "idle" /\ s2' = s2 + 1 /\ s1' = "starting" /\ s4' = "none" /\ s3' = Append(s3, c)
        /\ s2 < MaxJobs /\ UNCHANGED <<s5, s6, s9, s10>>
    BY <1>1 DEF Win!Start
  <2>2. Win!Sent' = Win!Sent + 1 /\ c \in {"start", "finish"} \X Win!Jobs
    BY <1>0, <2>1 DEF Win!Sent
  <2>3. Win!Place(c) = Win!Sent + 1
    BY <1>0, <2>1 DEF Win!Place
  <2>4. /\ s3' \in Seq({"start", "finish"} \X Win!Jobs) /\ Win!Taken' = Win!Taken
        /\ \A i \in DOMAIN s3' : Win!Place(s3'[i]) = Win!Taken + i
    <3> HIDE DEF c
    <3>1. QED
      BY <2>1, <2>2, <2>3, Asked
  <2>5. (\A i \in DOMAIN s3 : Win!Place(s3[i]) = Win!Taken + i)'
    BY <2>4 DEF Win!Place
  <2>6. Win!Commanding'
    <3>1. s2' \in 0..MaxJobs /\ s2' \in Win!Jobs
      BY <1>0, <2>1
    <3>2. s4' # "ok" /\ s1' = "starting"
      BY <2>1
    <3> HIDE DEF c
    <3>3. QED
      BY <1>0, <2>1, <2>4, <2>5, <3>1, <3>2 DEF Win!Commanding
  <2>7. QED
    BY <2>1, <2>4, <2>6 DEF Win!Reporting
<1>2. CASE Win!StartFails \/ Win!Stop
  <2> DEFINE c == <<"finish", s2>>
  <2>1. /\ s1 \in {"starting", "recording"} /\ s2' = s2 /\ s1' \in {"aborting", "finishing"}
        /\ s3' = Append(s3, c) /\ UNCHANGED <<s5, s6, s9, s10>>
    BY <1>2 DEF Win!StartFails, Win!Stop, Win!Finish
  <2>2. Win!Sent' = Win!Sent + 1 /\ c \in {"start", "finish"} \X Win!Jobs
    <3>1. s2 \in Win!Jobs /\ s2 \in 0..MaxJobs
      BY <2>1 DEF Win!Commanding
    <3>2. Win!Sent = 2 * s2 - 1 /\ Win!Sent' = 2 * s2
      BY <2>1, <3>1 DEF Win!Sent
    <3>3. QED
      BY <3>1, <3>2
  <2>3. Win!Place(c) = Win!Sent + 1
    BY <1>0, <2>1 DEF Win!Place
  <2>4. /\ s3' \in Seq({"start", "finish"} \X Win!Jobs) /\ Win!Taken' = Win!Taken
        /\ \A i \in DOMAIN s3' : Win!Place(s3'[i]) = Win!Taken + i
    <3> HIDE DEF c
    <3>1. QED
      BY <2>1, <2>2, <2>3, Asked
  <2>5. (\A i \in DOMAIN s3 : Win!Place(s3[i]) = Win!Taken + i)'
    BY <2>4 DEF Win!Place
  <2>6. Win!Commanding'
    BY <1>0, <2>1, <2>4, <2>5 DEF Win!Commanding
  <2>7. QED
    BY <2>1, <2>4, <2>6 DEF Win!Reporting
<1>3. ASSUME UNCHANGED <<s2, s3, s5, s6, s9, s10>>,
             \/ s1' = s1 /\ s4' = s4
             \/ s1 = "starting" /\ s4 = "ok" /\ s1' = "recording"
             \/ s1 \in {"aborting", "finishing"} /\ s1' = "idle"
      PROVE  Win!Commanding' /\ Win!Reporting'
  <2>1. Win!Sent' = Win!Sent
    BY <1>0, <1>3 DEF Win!Sent
  <2>2. Win!Taken' = Win!Taken
    BY <1>3, <2>1 DEF Win!Taken
  <2>3. (\A i \in DOMAIN s3 : Win!Place(s3[i]) = Win!Taken + i)'
    BY <1>3, <2>2 DEF Win!Place, Win!Commanding
  <2>4. Win!Commanding'
    BY <1>3, <2>2, <2>3 DEF Win!Commanding
  <2>5. QED
    BY <1>3, <2>2, <2>4 DEF Win!Reporting
<1>4. CASE Win!Started \/ Win!FinishEnds \/ Win!UpdateSettings
  BY <1>3, <1>4 DEF Win!Started, Win!FinishEnds, Win!UpdateSettings
<1>5. CASE Win!TakeDucking \/ Win!Discover \/ Win!Fade \/ Win!RestoreEnds
           \/ Win!RestoreFails \/ Win!SetVolume
  BY <1>3, <1>5 DEF Win!TakeDucking, Win!Discover, Win!Fade, Win!RestoreEnds,
                    Win!RestoreFails, Win!SetVolume
<1>6. ASSUME Win!TakeStart \/ Win!TakeFinish
      PROVE  /\ Win!Sent' = Win!Sent /\ Win!Taken' = Win!Taken + 1 /\ s5 = 0 /\ Win!Taken < Win!Sent
             /\ s3' \in Seq({"start", "finish"} \X Win!Jobs)
             /\ (\A i \in DOMAIN s3 : Win!Place(s3[i]) = Win!Taken + i)'
             /\ Win!Place(Head(s3)) = Win!Taken + 1
             /\ Head(s3)[1] \in {"start", "finish"} /\ Head(s3)[2] \in Win!Jobs
             /\ UNCHANGED <<s1, s2, s9, s10>>
             /\ ~(s1 = "recording") /\ ~(s1 = "starting" /\ s4 = "ok")
  <2>1. s3 # <<>> /\ s3' = Tail(s3) /\ s5 = 0 /\ UNCHANGED <<s1, s2, s9, s10>>
    BY <1>6 DEF Win!TakeStart, Win!TakeFinish
  <2>2. Win!Sent' = Win!Sent
    BY <2>1 DEF Win!Sent
  <2>3. /\ s3' \in Seq({"start", "finish"} \X Win!Jobs) /\ Win!Taken' = Win!Taken + 1
        /\ Win!Taken \in Int /\ Win!Taken < Win!Sent
        /\ \A i \in DOMAIN s3' : Win!Place(s3'[i]) = Win!Taken + 1 + i
        /\ Head(s3) \in {"start", "finish"} \X Win!Jobs /\ Win!Place(Head(s3)) = Win!Taken + 1
    BY <2>1, <2>2, TakenOff
  <2>4. (\A i \in DOMAIN s3 : Win!Place(s3[i]) = Win!Taken + i)'
    BY <2>3 DEF Win!Place
  <2>5. ~(s1 = "recording") /\ ~(s1 = "starting" /\ s4 = "ok")
    BY <1>0, <2>3 DEF Win!Commanding
  <2>6. QED
    BY <2>1, <2>2, <2>3, <2>4, <2>5
<1>7. CASE Win!TakeStart
  <2>1. s6 = 0
    <3>1. 2 * Head(s3)[2] - 1 = Win!Taken + 1 /\ Head(s3)[2] \in Int
      BY <1>6, <1>7 DEF Win!TakeStart, Win!Place
    <3>2. s6 \in Int /\ (s6 # 0 => Win!Taken = 2 * s6 - 1)
      BY DEF Win!Commanding
    <3>3. \A a, b, n \in Int : ~(2 * a - 1 = n + 1 /\ n = 2 * b - 1)
      OBVIOUS
    <3>4. PICK a \in Int : a = Head(s3)[2]
      BY <3>1
    <3>5. PICK b \in Int : b = s6
      BY <3>2
    <3>6. PICK n \in Int : n = Win!Taken
      <4>1. Win!Taken \in Nat
        BY <1>0, Zenon
      <4>2. QED
        BY <4>1
    <3>7. 2 * a - 1 = n + 1 /\ (b # 0 => n = 2 * b - 1)
      BY <3>1, <3>2, <3>4, <3>5, <3>6
    <3>8. QED
      BY <3>3, <3>5, <3>7
  <2>2. /\ s5' = Head(s3)[2] /\ s6' = s6 /\ s4' = s4
        /\ 2 * s5' - 1 = Win!Taken'
    BY <1>6, <1>7, <2>1 DEF Win!TakeStart, Win!Place
  <2>3. Win!Commanding'
    <3>1. /\ s1' \in {"idle", "starting", "recording", "aborting", "finishing"}
          /\ s2' \in 0..MaxJobs /\ (s1' # "idle" => s2' \in Win!Jobs) /\ Win!Taken' >= 0
      <4>1. UNCHANGED <<s1, s2>>
        BY <1>7 DEF Win!TakeStart
      <4>2. s1 # "idle" => s2 \in Win!Jobs
        BY DEF Win!Commanding
      <4>3. Win!Taken' = Win!Taken + 1
        BY <1>6, <1>7
      <4>4. Win!Taken >= 0 /\ Win!Taken \in Int
        <5>1. Win!Taken \in Nat
          BY <1>0, Zenon
        <5>2. QED
          BY <5>1
      <4>5. QED
        BY <1>0, <4>1, <4>2, <4>3, <4>4
    <3>2. s6' = 0 /\ s5' \in 0..MaxJobs /\ 0 \in 0..MaxJobs /\ Win!Taken' = 2 * s5' - 1
      BY <1>6, <1>7, <2>1, <2>2
    <3>3. ~(s1' = "starting" /\ s4' = "ok") /\ s1' # "recording"
      BY <1>6, <1>7, <2>2
    <3>4. QED
      BY <1>6, <1>7, <3>1, <3>2, <3>3 DEF Win!Commanding
  <2>4. Win!Reporting'
    <3>1. s10' = s10 /\ s9' = s9 /\ s6' = 0 /\ Win!Taken' = Win!Taken + 1
      BY <1>6, <1>7, <2>1, <2>2
    <3>2. s10 \in [Win!Jobs -> 0..1]
      BY DEF Win!Reporting
    <3>3. ASSUME NEW j \in Win!Jobs, j = s5' \/ (j = s6' /\ ~s9') \/ 2 * j - 1 > Win!Taken'
          PROVE  s10'[j] = 0
      <4>1. j \in Int /\ j # 0 /\ Win!Taken \in Int
        <5>1. s3 # <<>> /\ s3' = Tail(s3)
          BY <1>7 DEF Win!TakeStart
        <5>2. Win!Taken \in Int
          BY <1>6, <1>7, <5>1, TakenOff
        <5>3. QED
          BY <1>0, <5>2
      <4>2. 2 * j - 1 > Win!Taken
        <5>1. \/ j = s5' /\ 2 * s5' - 1 = Win!Taken + 1
              \/ 2 * j - 1 > Win!Taken + 1
          BY <2>2, <3>1, <3>3, <4>1
        <5>2. \A a, n \in Int : 2 * a - 1 = n + 1 \/ 2 * a - 1 > n + 1 => 2 * a - 1 > n
          OBVIOUS
        <5>3. QED
          BY <4>1, <5>1, <5>2
      <4>3. QED
        BY <3>1, <4>2 DEF Win!Reporting
    <3>4. QED
      BY <3>1, <3>2, <3>3 DEF Win!Reporting
  <2>5. QED
    BY <2>3, <2>4
<1>8. CASE Win!TakeFinish
  <2>1. 2 * Head(s3)[2] = Win!Taken + 1
    BY <1>6, <1>8 DEF Win!TakeFinish, Win!Place
  <2>2. s6' = 0 /\ s5' = 0
    <3>1. s6 \in Int /\ (s6 # 0 => Win!Taken = 2 * s6 - 1) /\ Head(s3)[2] \in Int
      BY <1>6, <1>8 DEF Win!Commanding
    <3>2. \A a, b, n \in Int : 2 * a = n + 1 /\ n = 2 * b - 1 => a = b
      OBVIOUS
    <3>3. s6 # 0 => s6 = Head(s3)[2]
      BY <1>0, <2>1, <3>1, <3>2
    <3>4. QED
      BY <1>6, <1>8, <3>3 DEF Win!TakeFinish
  <2>3. s1' = s1 /\ (s1 = "starting" => s4' = s4)
    BY <1>6, <1>8 DEF Win!TakeFinish, Win!Answers, Win!Awaited
  <2>4. Win!Commanding'
    BY <1>0, <1>6, <1>8, <2>2, <2>3 DEF Win!Commanding
  <2>5. Win!Reporting'
    BY <1>0, <1>6, <1>8, <2>2 DEF Win!Reporting
  <2>6. QED
    BY <2>4, <2>5
<1>9. ASSUME UNCHANGED <<s1, s2, s3>>
      PROVE  /\ Win!Sent' = Win!Sent /\ Win!Taken' = Win!Taken
             /\ (\A i \in DOMAIN s3 : Win!Place(s3[i]) = Win!Taken + i)'
  <2>1. Win!Sent' = Win!Sent
    BY <1>9 DEF Win!Sent
  <2>2. Win!Taken' = Win!Taken
    BY <1>9, <2>1 DEF Win!Taken
  <2>3. QED
    BY <1>9, <2>1, <2>2 DEF Win!Place, Win!Commanding
<1>10. CASE Win!OpenSucceeds
  <2>1. UNCHANGED <<s1, s2, s3, s4, s10>> /\ s5 # 0 /\ s5' = 0 /\ s6' = s5 /\ s9' = FALSE
    BY <1>10 DEF Win!OpenSucceeds
  <2>2. s6 = 0
    BY <2>1 DEF Win!Commanding
  <2>3. Win!Commanding'
    BY <1>9, <2>1, <2>2 DEF Win!Commanding
  <2>4. QED
    BY <1>9, <2>1, <2>2, <2>3 DEF Win!Reporting
<1>11. CASE Win!OpenFails
  <2>1. UNCHANGED <<s1, s2, s3, s6, s9, s10>> /\ s5 # 0 /\ s5' = 0 /\ (s4' = "ok" => s4 = "ok")
    BY <1>11 DEF Win!OpenFails, Win!Answers
  <2>2. s6 = 0
    BY <2>1 DEF Win!Commanding
  <2>3. Win!Commanding'
    BY <1>9, <2>1, <2>2 DEF Win!Commanding
  <2>4. QED
    BY <1>9, <2>1, <2>2, <2>3 DEF Win!Reporting
<1>12. CASE Win!Samples
  <2>1. UNCHANGED <<s1, s2, s3, s5, s6, s9, s10>> /\ s6 # 0
        /\ (s1 = "starting" /\ s4' = "ok" => s4 = "ok" \/ s6 = s2)
    BY <1>12 DEF Win!Samples, Win!Answers, Win!Awaited
  <2>2. Win!Commanding'
    BY <1>9, <2>1 DEF Win!Commanding
  <2>3. QED
    BY <1>9, <2>1, <2>2 DEF Win!Reporting
<1>13. CASE Win!CaptureFails
  <2>1. UNCHANGED <<s1, s2, s3, s5, s6>> /\ s6 # 0 /\ (s4' = "ok" => s4 = "ok")
        /\ ~s9 /\ s9' = TRUE /\ s10' = [s10 EXCEPT ![s6] = @ + 1]
    BY <1>13 DEF Win!CaptureFails, Win!Answers
  <2>2. Win!Commanding'
    BY <1>9, <2>1 DEF Win!Commanding
  <2>3. s10[s6] = 0 /\ s6 \in Win!Jobs /\ s5 = 0 /\ Win!Taken = 2 * s6 - 1
    BY <2>1 DEF Win!Commanding, Win!Reporting
  <2>4. s10' \in [Win!Jobs -> 0..1] /\ \A j \in Win!Jobs : j # s6 => s10'[j] = s10[j]
    BY <2>1, <2>3 DEF Win!Reporting
  <2>5. QED
    BY <1>9, <2>1, <2>2, <2>3, <2>4 DEF Win!Reporting
<1>14. QED
  BY <1>1, <1>2, <1>4, <1>5, <1>7, <1>8, <1>10, <1>11, <1>12, <1>13 DEF Win!Next

\* The capture then follows the daemon.
LEMMA CommandingFollows ==
  ASSUME Win!Commanding, Win!Reporting
  PROVE  Win!CaptureFollowsDaemon
<1>1. ASSUME s1 = "idle", s3 = <<>>, s6 # 0 PROVE FALSE
  <2>1. /\ s6 \in Int /\ s2 \in Int /\ Win!Taken = 2 * s6 - 1
        /\ Len(s3) = 0 /\ s1 \notin {"starting", "recording"}
    BY <1>1, RecordersAssumption DEF Win!Commanding
  <2>2. Win!Taken = 2 * s2 - 0 - 0
    BY <2>1 DEF Win!Taken, Win!Sent
  <2>3. \A a, b \in Int : 2 * a - 1 # 2 * b - 0 - 0
    OBVIOUS
  <2>4. QED
    BY <2>1, <2>2, <2>3
<1>2. \A j \in Win!Jobs : s10[j] <= 1
  BY DEF Win!Reporting
<1>3. QED
  BY <1>1, <1>2 DEF Win!CaptureFollowsDaemon, Win!Commanding

-----------------------------------------------------------------------------
(* The recorder on Windows: the playback.                                  *)

\* The ducking worker starts with nothing lowered,
LEMMA DuckingInit == Win!Init => Win!Ducking
<1> SUFFICES ASSUME Win!Init PROVE Win!Ducking
  OBVIOUS
<1>1. s1 = "idle" /\ s11 = <<>> /\ s12 = FALSE /\ s13 = FALSE /\ s14 = Win!NoSession
      /\ s15 = "full"
  BY DEF Win!Init
<1>2. s11 \in Seq({"duck", "stay", "restore"})
  BY <1>1
<1>3. QED
  BY <1>1, <1>2 DEF Win!Ducking

\* every step keeps what it needs to give the volumes back,
LEMMA DuckingStep ==
  ASSUME Win!Ducking, Win!Next
  PROVE  Win!Ducking'
<1> USE DEF Win!callerVars, Win!ownerVars, Win!workerVars, Win!userVars
<1> DEFINE Orders == {"duck", "stay", "restore"}
<1>1. ASSUME NEW order \in Orders, s11' = Append(s11, order)
      PROVE  s11' \in Seq(Orders) /\ s11' # <<>> /\ s11'[Len(s11')] = order
  BY <1>1 DEF Win!Ducking
<1>2. CASE Win!Start
  <2>1. /\ \E order \in Orders : s11' = Append(s11, order)
        /\ s1' = "starting" /\ UNCHANGED Win!workerVars
    BY <1>2 DEF Win!Start
  <2>2. s11' \in Seq(Orders)
    BY <1>1, <2>1
  <2>3. QED
    BY <2>1, <2>2 DEF Win!Ducking, Win!NoSession
<1>3. CASE Win!StartFails \/ Win!Stop \/ (Win!UpdateSettings /\ s16)
  <2>1. s11' = Append(s11, "restore") /\ UNCHANGED Win!workerVars
    BY <1>3 DEF Win!StartFails, Win!Stop, Win!Finish, Win!UpdateSettings
  <2>2. s11' \in Seq(Orders) /\ s11' # <<>> /\ s11'[Len(s11')] # "duck"
    BY <1>1, <2>1
  <2>3. QED
    BY <2>1, <2>2 DEF Win!Ducking, Win!NoSession
<1>4. CASE Win!Started \/ Win!FinishEnds \/ (Win!UpdateSettings /\ ~s16)
  BY <1>4 DEF Win!Started, Win!FinishEnds, Win!UpdateSettings, Win!Ducking, Win!NoSession
<1>5. CASE Win!TakeStart \/ Win!OpenSucceeds \/ Win!OpenFails
           \/ Win!TakeFinish \/ Win!Samples \/ Win!CaptureFails
  <2>1. UNCHANGED <<s1, s11, s12, s13, s14, s15>>
    BY <1>5 DEF Win!TakeStart, Win!OpenSucceeds, Win!OpenFails, Win!TakeFinish, Win!Samples,
       Win!CaptureFails
  <2>2. QED
    BY <2>1 DEF Win!Ducking, Win!NoSession
<1>6. CASE Win!TakeDucking
  <2>1. /\ s11 # <<>> /\ s11' = Tail(s11) /\ ~s13
        /\ s12' = (Head(s11) = "duck") /\ s13' = (Head(s11) # "duck")
        /\ UNCHANGED <<s1, s14, s15>>
    BY <1>6 DEF Win!TakeDucking
  <2>2. s11' \in Seq(Orders)
    BY <2>1 DEF Win!Ducking
  <2>3. IF s11' = <<>> THEN Head(s11) = s11[Len(s11)] ELSE s11'[Len(s11')] = s11[Len(s11)]
    <3>1. /\ Len(s11) \in Nat \ {0} /\ Len(s11') = Len(s11) - 1 /\ Head(s11) = s11[1]
          /\ \A i \in 1..Len(s11') : s11'[i] = s11[i + 1]
      BY <2>1 DEF Win!Ducking
    <3>2. CASE s11' = <<>>
      <4>1. Len(s11') = 0
        BY <3>2
      <4>2. Len(s11) = 1
        BY <3>1, <4>1
      <4>3. Head(s11) = s11[Len(s11)]
        BY <3>1, <4>2
      <4> HIDE DEF Orders
      <4>4. QED
        BY <3>2, <4>3
    <3>3. CASE s11' # <<>>
      <4>1. Len(s11') # 0
        BY <2>2, <3>3
      <4>2. Len(s11') \in 1..Len(s11') /\ Len(s11') + 1 = Len(s11)
        BY <3>1, <4>1
      <4>3. QED
        BY <3>1, <3>3, <4>2
    <3>4. QED
      BY <3>2, <3>3
  <2>4. s12' \in BOOLEAN /\ s13' \in BOOLEAN /\ ~(s12' /\ s13') /\ (s12' \/ s13')
    BY <2>1
  <2>5. s1' \in {"idle", "aborting", "finishing"} =>
          IF s11' = <<>> THEN ~s12' ELSE s11'[Len(s11')] # "duck"
    BY <2>1, <2>3 DEF Win!Ducking
  <2>6. QED
    BY <2>1, <2>2, <2>4, <2>5 DEF Win!Ducking, Win!NoSession
<1>7. CASE Win!Discover
  <2>1. /\ s12 /\ s14' = [original |-> s15, last |-> s15, target |-> "low"] /\ s14 = Win!NoSession
        /\ UNCHANGED <<s1, s11, s12, s13, s15>>
    BY <1>7 DEF Win!Discover
  <2>2. s14' \in Win!Entries /\ s15 # "low"
    BY <2>1 DEF Win!Ducking, Win!Entries
  <2>3. QED
    BY <2>1, <2>2 DEF Win!Ducking
<1>8. CASE Win!Fade
  <2>1. /\ s14 # Win!NoSession /\ s14.last # s14.target /\ ~s13
        /\ UNCHANGED <<s1, s11, s12, s13>>
        /\ \/ s15 = s14.last /\ s15' = s14.target /\ s14' = [s14 EXCEPT !.last = s14.target]
           \/ s15' = s15 /\ s14' = [s14 EXCEPT !.target = s14.last]
    BY <1>8 DEF Win!Fade
  <2>2. s14 \in Win!Entries /\ s12
    BY <2>1 DEF Win!Ducking
  <2>3. s14' \in Win!Entries /\ s15' \in {"full", "user", "lost", "low"}
        /\ (s15' = "low" => s14'.last = "low")
    BY <2>1, <2>2 DEF Win!Ducking, Win!Entries
  <2>4. s14' # Win!NoSession
    BY <2>3 DEF Win!NoSession, Win!Entries
  <2>5. QED
    BY <2>1, <2>2, <2>3, <2>4 DEF Win!Ducking
<1>9. CASE Win!RestoreEnds
  <2>1. /\ s13' = FALSE /\ s14' = Win!NoSession /\ UNCHANGED <<s1, s11, s12>>
        /\ s15' = IF s14 # Win!NoSession /\ s15 = s14.last THEN s14.original ELSE s15
    BY <1>9 DEF Win!RestoreEnds
  <2>2. s15' \in {"full", "user", "lost"}
    BY <2>1 DEF Win!Ducking, Win!Entries
  <2>3. QED
    BY <2>1, <2>2 DEF Win!Ducking
<1>10. CASE Win!RestoreFails
  <2>1. /\ s13' = FALSE /\ s14' = Win!NoSession /\ UNCHANGED <<s1, s11, s12>>
        /\ s15' = IF s15 = "low" THEN "lost" ELSE s15
    BY <1>10 DEF Win!RestoreFails
  <2>2. s15' \in {"full", "user", "lost"}
    BY <2>1 DEF Win!Ducking
  <2>3. QED
    BY <2>1, <2>2 DEF Win!Ducking
<1>11. CASE Win!SetVolume
  BY <1>11 DEF Win!SetVolume, Win!Ducking, Win!NoSession
<1>12. QED
  BY <1>2, <1>3, <1>4, <1>5, <1>6, <1>7, <1>8, <1>9, <1>10, <1>11 DEF Win!Next

\* and with that playback is restored.
LEMMA DuckingRestores == Win!Ducking => Win!PlaybackIsRestored
  BY DEF Win!Ducking, Win!PlaybackIsRestored

-----------------------------------------------------------------------------
(* The copilot's capture: what is open is wanted.                          *)

\* The next source is a later one that is enabled, with none enabled in between.
LEMMA NextSource ==
  ASSUME NEW i \in 0..3, NEW enabled
  PROVE  /\ Copilot!After(i, enabled) \in i + 1..4
         /\ Copilot!After(i, enabled) # 4 =>
              Copilot!Kinds[Copilot!After(i, enabled)] \in enabled
         /\ \A j \in i + 1..3 : j < Copilot!After(i, enabled) => Copilot!Kinds[j] \notin enabled
<1> DEFINE Rest == {j \in i + 1..3 : Copilot!Kinds[j] \in enabled} \cup {4}
<1>1. \E m \in Rest : \A n \in Rest : m <= n
  <2>1. CASE 4 \in Rest /\ 3 \notin Rest /\ 2 \notin Rest /\ 1 \notin Rest
    BY <2>1
  <2>2. CASE 3 \in Rest /\ 2 \notin Rest /\ 1 \notin Rest
    BY <2>2
  <2>3. CASE 2 \in Rest /\ 1 \notin Rest
    BY <2>3
  <2>4. CASE 1 \in Rest
    BY <2>4
  <2>5. QED
    BY <2>1, <2>2, <2>3, <2>4
<1>2. Copilot!After(i, enabled) = CHOOSE m \in Rest : \A n \in Rest : m <= n
  BY DEF Copilot!After, Copilot!Min
<1>3. /\ Copilot!After(i, enabled) \in Rest
      /\ \A n \in Rest : Copilot!After(i, enabled) <= n
  <2> HIDE DEF Rest
  <2>1. QED
    BY <1>1, <1>2
<1>4. QED
  BY <1>3

\* The copilot starts with no controller.
LEMMA CaptureInit == Copilot!Init => Copilot!Telling /\ Copilot!Looking
<1> SUFFICES ASSUME Copilot!Init PROVE Copilot!Telling /\ Copilot!Looking
  OBVIOUS
<1>1. s2 = "idle" /\ s3 = <<>> /\ s4 = [phase |-> "none", stop |-> FALSE] /\ s5 = FALSE
  BY DEF Copilot!Init
<1>2. s1 \in Copilot!DefaultDevices
  BY DEF Copilot!Init, Copilot!DefaultDevices
<1>3. DOMAIN s3 = {} /\ s3 \in Seq(Copilot!Controllers)
  BY <1>1
<1>4. QED
  BY <1>1, <1>2, <1>3 DEF Copilot!Telling, Copilot!Looking

\* The kinds of sources are three, and a pass goes by some of them.
LEMMA KindsArePassed ==
  /\ Copilot!KindSet = {"microphone", "playback", "call playback"}
  /\ \A i \in 1..3 : Copilot!Kinds[i] \in Copilot!KindSet
  /\ \A s : Copilot!Passed(s) \subseteq Copilot!KindSet
<1>1. /\ DOMAIN Copilot!Kinds = 1..3 /\ Copilot!Kinds[1] = "microphone"
      /\ Copilot!Kinds[2] = "playback" /\ Copilot!Kinds[3] = "call playback"
  BY DEF Copilot!Kinds
<1>2. \A i \in 1..3 : Copilot!Kinds[i] \in Copilot!KindSet
  BY <1>1 DEF Copilot!KindSet
<1>4. Copilot!KindSet = {"microphone", "playback", "call playback"}
  <2>1. ASSUME NEW k \in Copilot!KindSet PROVE k \in {"microphone", "playback", "call playback"}
    <3>1. PICK i \in 1..3 : k = Copilot!Kinds[i]
      BY <1>1 DEF Copilot!KindSet
    <3>2. i = 1 \/ i = 2 \/ i = 3
      OBVIOUS
    <3>3. QED
      BY <1>1, <3>1, <3>2
  <2>2. 1 \in 1..3 /\ 2 \in 1..3 /\ 3 \in 1..3
    OBVIOUS
  <2>3. {"microphone", "playback", "call playback"} \subseteq Copilot!KindSet
    BY <1>1, <1>2, <2>2
  <2>4. QED
    BY <2>1, <2>3
<1>5. QED
  BY <1>2, <1>4 DEF Copilot!Passed

\* A step of one controller, or of the caller with the newest one.
LEMMA ControllerSteps ==
  ASSUME Copilot!Telling, Copilot!Looking, NEW c \in DOMAIN s3, NEW s \in Copilot!Controllers,
         s3' = [s3 EXCEPT ![c] = s], s1' = s1,
         s2' \in {"idle", "starting", "running", "stopping"}, s2' = s2 \/ c = Len(s3),
         s4' \in [phase : {"none", "starting", "open"}, stop : BOOLEAN],
         s4'.phase # "none" => s4'.stop,
         s5' = s5 \/ (s5' = FALSE /\ c = Len(s3)),
         (Copilot!Told(c, s))', (Copilot!Looked(c, s))'
  PROVE  Copilot!Telling' /\ Copilot!Looking'
<1>1. /\ s3' \in Seq(Copilot!Controllers) /\ Len(s3') = Len(s3) /\ DOMAIN s3' = DOMAIN s3
      /\ s3'[c] = s /\ (\A d \in DOMAIN s3 : d # c => s3'[d] = s3[d])
      /\ DOMAIN s3 = 1..Len(s3) /\ Len(s3) \in Nat
  BY DEF Copilot!Telling
<1>2. ASSUME NEW d \in DOMAIN s3, d # c
      PROVE  Copilot!Told(d, s3[d])' /\ Copilot!Looked(d, s3[d])'
  <2>1. PICK r \in Copilot!Controllers : r = s3[d] /\ r = s3'[d]
    BY <1>1, <1>2 DEF Copilot!Telling
  <2>2. Copilot!Told(d, r) /\ Copilot!Looked(d, r)
    BY <2>1 DEF Copilot!Telling, Copilot!Looking
  <2>3. (Copilot!Told(d, r))'
    BY <1>1, <1>2, <2>2 DEF Copilot!Told, Copilot!Latest
  <2>4. /\ Copilot!Passed(r)' = Copilot!Passed(r) /\ Copilot!Unticked(r)' = Copilot!Unticked(r)
        /\ \A k : (Copilot!Follows(r, k))' = Copilot!Follows(r, k)
    BY DEF Copilot!Passed, Copilot!Unticked, Copilot!Follows, Copilot!CurrentDevice,
       Copilot!SeparateCallDevice
  <2>5. ASSUME s5' = s5 PROVE (Copilot!Looked(d, r))'
    BY <1>1, <1>2, <2>2, <2>4, <2>5 DEF Copilot!Looked, Copilot!Latest
  <2>6. ASSUME s5' = FALSE, c = Len(s3) PROVE (Copilot!Looked(d, r))'
    <3>1. r.phase = "watch" /\ r.check = 0 => \A k \in Copilot!KindSet : r.since[k] = 0
      BY <1>2, <2>2, <2>6 DEF Copilot!Looked, Copilot!Latest, Copilot!Unticked
    <3>2. r.phase = "watch" /\ r.check = 0 => \A k \in Copilot!Passed(r) : Copilot!Follows(r, k)
      <4>1. Copilot!Passed(r) \subseteq Copilot!KindSet
        BY KindsArePassed
      <4>2. ~(0 >= RestartAfter)
        BY CaptureAssumption
      <4>3. QED
        BY <3>1, <4>1, <4>2 DEF Copilot!Follows
    <3>3. QED
      BY <1>1, <1>2, <2>2, <2>4, <2>6, <3>2 DEF Copilot!Looked, Copilot!Latest
  <2>7. (Copilot!Looked(d, r))'
    BY <2>5, <2>6
  <2>8. QED
    BY <2>1, <2>3, <2>7
<1>3. Copilot!Telling'
  <2>1. \A d \in DOMAIN s3' : Copilot!Told(d, s3[d])'
    BY <1>1, <1>2
  <2>2. QED
    BY <1>1, <2>1 DEF Copilot!Telling, Copilot!Latest
<1>4. Copilot!Looking'
  <2>1. \A d \in DOMAIN s3' : Copilot!Looked(d, s3[d])'
    BY <1>1, <1>2
  <2>2. s5' \in BOOLEAN
    BY DEF Copilot!Looking
  <2>3. QED
    BY <2>1, <2>2 DEF Copilot!Looking
<1>5. QED
  BY <1>3, <1>4

\* A stream that is built is on a device or missing.
LEMMA StreamsAreBuilt ==
  ASSUME Copilot!Telling, NEW kind, NEW built \in Copilot!BuildStream(kind)
  PROVE  built.device \in Devices \cup {Copilot!None} /\ built.late \in BOOLEAN
  BY DEF Copilot!BuildStream, Copilot!CurrentDevice,
     Copilot!SeparateCallDevice, Copilot!Telling, Copilot!DefaultDevices

\* What is known of the controller that takes a step.
LEMMA ControllerKnown ==
  ASSUME Copilot!Telling, Copilot!Looking, NEW c \in DOMAIN s3
  PROVE  /\ s3[c] \in Copilot!Controllers /\ Copilot!Told(c, s3[c]) /\ Copilot!Looked(c, s3[c])
         /\ s4 \in [phase : {"none", "starting", "open"}, stop : BOOLEAN]
         /\ s4.phase # "none" => s4.stop
         /\ s2 \in {"idle", "starting", "running", "stopping"}
         /\ \A s : Len([s3 EXCEPT ![c] = s]) = Len(s3)
  BY DEF Copilot!Telling, Copilot!Looking

\* Opening a source keeps the capture's invariant,
LEMMA OpenSourceSteps ==
  ASSUME Copilot!Telling, Copilot!Looking, NEW c \in DOMAIN s3, Copilot!OpenSource(c)
  PROVE  Copilot!Telling' /\ Copilot!Looking'
<1>1. PICK o \in Copilot!Controllers : o = s3[c] /\ Copilot!Told(c, o) /\ Copilot!Looked(c, o)
  BY ControllerKnown
<1>2. PICK kind : kind = Copilot!Kinds[o.at] /\ kind = Copilot!Kind(c)
  BY <1>1 DEF Copilot!Kind
<1>3. o.phase = "start" /\ o.at \in 1..3 /\ s1' = s1 /\ s2' = s2 /\ s5' = s5
  BY <1>1 DEF Copilot!OpenSource, Copilot!Active
<1>4. kind \in Copilot!KindSet /\ kind \in o.enabled
  BY <1>1, <1>2, <1>3, KindsArePassed DEF Copilot!Looked
<1>5. PICK at : at = Copilot!After(o.at, o.enabled)
  OBVIOUS
<1>6. at \in 2..4 /\ (at # 4 => Copilot!Kinds[at] \in o.enabled)
  BY <1>3, <1>5, NextSource
<1>7. PICK built :
        /\ built.device \in Devices \cup {Copilot!None} /\ built.late \in BOOLEAN
        /\ s4' = IF built.late THEN [phase |-> "starting", stop |-> TRUE] ELSE s4
        /\ s3' = [s3 EXCEPT ![c] = [s3[c] EXCEPT !.streams[Copilot!Kind(c)] = built.device,
                                             !.at = Copilot!After(@, s3[c].enabled),
                                             !.since[Copilot!Kind(c)] = 0,
                                             !.processors = @ \cup {Copilot!Kind(c)}]]
  <2>1. PICK built \in IF Copilot!Kind(c) = "call playback" /\ Copilot!SeparateCallDevice = Copilot!None
                       THEN [device : {Copilot!None}, late : {FALSE}]
                       ELSE Copilot!BuildStream(Copilot!Kind(c)) :
          /\ s4' = IF built.late THEN [phase |-> "starting", stop |-> TRUE] ELSE s4
          /\ s3' = [s3 EXCEPT ![c] = [s3[c] EXCEPT !.streams[Copilot!Kind(c)] = built.device,
                                               !.at = Copilot!After(@, s3[c].enabled),
                                               !.since[Copilot!Kind(c)] = 0,
                                               !.processors = @ \cup {Copilot!Kind(c)}]]
    BY DEF Copilot!OpenSource
  <2>2. built.device \in Devices \cup {Copilot!None} /\ built.late \in BOOLEAN
    BY StreamsAreBuilt
  <2>3. QED
    BY <2>1, <2>2
<1>8. PICK s : s = [o EXCEPT !.streams[kind] = built.device, !.at = at,
                              !.since[kind] = 0, !.processors = @ \cup {kind}]
  OBVIOUS
<1>9. s3' = [s3 EXCEPT ![c] = s]
  <2>1. kind = Copilot!Kind(c) /\ o = s3[c] /\ at = Copilot!After(s3[c].at, s3[c].enabled)
    BY <1>1, <1>2, <1>5
  <2>2. s = [s3[c] EXCEPT !.streams[Copilot!Kind(c)] = built.device,
                          !.at = Copilot!After(@, s3[c].enabled),
                          !.since[Copilot!Kind(c)] = 0,
                          !.processors = @ \cup {Copilot!Kind(c)}]
    BY <1>8, <2>1
  <2>3. QED
    BY <1>7, <2>2
<1>10. s \in Copilot!Controllers
  <2>1. [o.streams EXCEPT ![kind] = built.device] \in [Copilot!KindSet -> Devices \cup {Copilot!None}]
    BY <1>7 DEF Copilot!Controllers
  <2>2. [o.since EXCEPT ![kind] = 0] \in [Copilot!KindSet -> Nat]
    BY DEF Copilot!Controllers
  <2>3. (o.processors \cup {kind}) \in SUBSET Copilot!KindSet /\ at \in 0..4
    BY <1>4, <1>6 DEF Copilot!Controllers
  <2>4. QED
    BY <1>8, <2>1, <2>2, <2>3 DEF Copilot!Controllers
<1>11. Len(s3') = Len(s3)
  BY <1>9, ControllerKnown
<1>12. (Copilot!Told(c, s))'
  BY <1>1, <1>3, <1>8, <1>11 DEF Copilot!Told, Copilot!Latest, Copilot!Controllers
<1>13. (Copilot!Looked(c, s))'
  BY <1>1, <1>3, <1>4, <1>6, <1>8, <1>11
     DEF Copilot!Looked, Copilot!Unticked, Copilot!Latest, Copilot!Controllers
<1>14. QED
  BY <1>3, <1>7, <1>10, <1>12, <1>13, <1>9, ControllerSteps, ControllerKnown

\* and so does the end of the start.
LEMMA SourcesOpenedSteps ==
  ASSUME Copilot!Telling, Copilot!Looking, NEW c \in DOMAIN s3, Copilot!SourcesOpened(c)
  PROVE  Copilot!Telling' /\ Copilot!Looking'
<1>1. PICK o \in Copilot!Controllers : o = s3[c] /\ Copilot!Told(c, o) /\ Copilot!Looked(c, o)
  BY ControllerKnown
<1> DEFINE none == \A k \in Copilot!KindSet : o.streams[k] = Copilot!None
<1>3. PICK answer : answer = IF s2 = "starting" /\ c = Len(s3)
                             THEN IF none THEN "error" ELSE "ok" ELSE o.ready
  OBVIOUS
<1>2. PICK s : s = IF none THEN [o EXCEPT !.phase = "drain", !.at = 0, !.stop = TRUE, !.ready = answer]
                   ELSE [o EXCEPT !.phase = "watch", !.at = 0, !.ready = answer]
  OBVIOUS
<1>4. s3' = [s3 EXCEPT ![c] = s]
  <2>1. CASE none
    BY <1>1, <1>2, <1>3, <2>1 DEF Copilot!SourcesOpened, Copilot!Ready, Copilot!Latest
  <2>2. CASE ~none
    BY <1>1, <1>2, <1>3, <2>2 DEF Copilot!SourcesOpened, Copilot!Ready, Copilot!Latest
  <2>3. QED
    BY <2>1, <2>2
<1>5. o.phase = "start" /\ UNCHANGED <<s1, s2, s4, s5>>
  BY <1>1 DEF Copilot!SourcesOpened
<1>6. s \in Copilot!Controllers
  <2>0. answer \in {"none", "ok", "error"} /\ 0 \in 0..4
    BY <1>3 DEF Copilot!Controllers
  <2> HIDE DEF none
  <2>1. CASE none
    <3>1. s = [o EXCEPT !.phase = "drain", !.at = 0, !.stop = TRUE, !.ready = answer]
      BY <1>2, <2>1
    <3>2. QED
      BY <2>0, <3>1 DEF Copilot!Controllers
  <2>2. CASE ~none
    <3>1. s = [o EXCEPT !.phase = "watch", !.at = 0, !.ready = answer]
      BY <1>2, <2>2
    <3>2. QED
      BY <2>0, <3>1 DEF Copilot!Controllers
  <2>3. QED
    BY <2>1, <2>2
<1>7. Len(s3') = Len(s3)
  BY <1>4, ControllerKnown
<1>8. (Copilot!Told(c, s))'
  BY <1>1, <1>2, <1>3, <1>4, <1>5, <1>7 DEF Copilot!Told, Copilot!Latest, Copilot!Controllers
<1>9. (Copilot!Looked(c, s))'
  <2>1. \A k \in Copilot!KindSet : s.since[k] = 0
    BY <1>1, <1>2, <1>5 DEF Copilot!Looked, Copilot!Unticked, Copilot!Controllers
  <2>2. \A k \in Copilot!Passed(s)' : (Copilot!Follows(s, k))'
    <3>1. Copilot!Passed(s)' \subseteq Copilot!KindSet
      BY KindsArePassed DEF Copilot!Passed
    <3>2. ~(0 >= RestartAfter)
      BY CaptureAssumption
    <3>3. QED
      BY <2>1, <3>1, <3>2 DEF Copilot!Follows
  <2>3. QED
    <3>1. /\ s.building = o.building /\ s.check = 0 /\ s.checking = o.checking /\ s.at = 0
          /\ s.enabled = o.enabled /\ s.streams = o.streams /\ s.phase # "start"
          /\ c = Len(s3) /\ s2 = "starting" => s.ready # "none"
      BY <1>1, <1>2, <1>3, <1>5 DEF Copilot!Looked, Copilot!Controllers
    <3>2. ~o.building /\ ~o.checking
      BY <1>1, <1>5 DEF Copilot!Looked
    <3>3. QED
      BY <1>1, <1>5, <1>7, <2>1, <2>2, <3>1, <3>2
         DEF Copilot!Looked, Copilot!Unticked, Copilot!Latest
<1>10. QED
  BY <1>4, <1>5, <1>6, <1>8, <1>9, ControllerSteps, ControllerKnown

\* What a controller goes by when it goes on to the next source.
LEMMA PassedOn ==
  ASSUME NEW o \in Copilot!Controllers, NEW s \in Copilot!Controllers, o.at \in 1..3,
         s.at = Copilot!After(o.at, o.enabled), s.enabled = o.enabled, s.checking = o.checking
  PROVE  Copilot!Passed(s) \subseteq Copilot!Passed(o) \cup {Copilot!Kinds[o.at]}
<1>1. ASSUME NEW k \in Copilot!Passed(s), k # Copilot!Kinds[o.at] PROVE k \in Copilot!Passed(o)
  <2>1. PICK i \in 1..3 : k = Copilot!Kinds[i] /\ Copilot!Kinds[i] \in s.enabled
                          /\ (s.checking => i < s.at)
    BY DEF Copilot!Passed
  <2>2. i # o.at
    BY <1>1, <2>1
  <2>3. s.checking => ~(i \in o.at + 1..3)
    BY <2>1, NextSource
  <2>4. o.checking => i < o.at
    BY <2>1, <2>2, <2>3
  <2>5. QED
    BY <2>1, <2>4 DEF Copilot!Passed
<1>2. QED
  BY <1>1

\* A kind has a device, the call only where there is one.
LEMMA CurrentDevices ==
  ASSUME Copilot!Telling, NEW kind \in Copilot!KindSet
  PROVE  /\ Copilot!CurrentDevice(kind) \in Devices \cup {Copilot!None}
         /\ kind # "call playback" => Copilot!CurrentDevice(kind) # Copilot!None
  BY CaptureAssumption DEF Copilot!Telling, Copilot!DefaultDevices, Copilot!CurrentDevice,
     Copilot!SeparateCallDevice, Copilot!None

\* Whether a source follows its device depends on the devices and its stream only.
LEMMA FollowsUnchanged ==
  ASSUME s1' = s1, NEW s, NEW k
  PROVE  /\ Copilot!Passed(s)' = Copilot!Passed(s) /\ Copilot!Unticked(s)' = Copilot!Unticked(s)
         /\ (Copilot!Follows(s, k))' = Copilot!Follows(s, k)
  BY DEF Copilot!Passed, Copilot!Unticked, Copilot!Follows, Copilot!CurrentDevice,
     Copilot!SeparateCallDevice

\* Going by a source in a pass keeps the capture's invariant,
LEMMA VisitSteps ==
  ASSUME Copilot!Telling, Copilot!Looking, NEW c \in DOMAIN s3, Copilot!Visit(c)
  PROVE  Copilot!Telling' /\ Copilot!Looking'
<1>1. PICK o \in Copilot!Controllers : o = s3[c] /\ Copilot!Told(c, o) /\ Copilot!Looked(c, o)
  BY ControllerKnown
<1>2. PICK kind : kind = Copilot!Kinds[o.at] /\ kind = Copilot!Kind(c)
  BY <1>1 DEF Copilot!Kind
<1>3. o.phase = "watch" /\ o.at \in 1..3 /\ ~o.building /\ UNCHANGED <<s1, s2, s4, s5>>
  BY <1>1 DEF Copilot!Visit, Copilot!Active
<1>4. /\ kind \in Copilot!KindSet /\ kind \in o.enabled /\ c = Len(s3) /\ s2 # "idle"
      /\ o.checking \in BOOLEAN
  <2>1. kind \in Copilot!KindSet
    BY <1>2, <1>3, KindsArePassed
  <2>2. kind \in o.enabled /\ c = Len(s3) /\ s2 # "idle"
    BY <1>1, <1>2, <1>3 DEF Copilot!Looked, Copilot!Latest
  <2>3. o.checking \in BOOLEAN
    BY DEF Copilot!Controllers
  <2>4. QED
    BY <2>1, <2>2, <2>3
<1>5. PICK at : at = Copilot!After(o.at, o.enabled)
  OBVIOUS
<1>6. at \in 2..4 /\ (at # 4 => Copilot!Kinds[at] \in o.enabled)
  BY <1>3, <1>5, NextSource
<1>7. PICK s : /\ \/ /\ s = [o EXCEPT !.streams[kind] = Copilot!None, !.at = at]
                     /\ o.checking /\ Copilot!CurrentDevice(kind) = Copilot!None
                  \/ s = [o EXCEPT !.streams[kind] = Copilot!None, !.building = TRUE,
                                   !.failed = @ \ {kind}, !.since[kind] = 0]
                  \/ /\ s = [o EXCEPT !.at = at]
                     /\ ~Copilot!Redundant(c, kind) /\ ~Copilot!ToRestart(c, kind)
               /\ s3' = [s3 EXCEPT ![c] = s]
  <2>1. CASE Copilot!Redundant(c, kind)
    <3>1. s3' = [s3 EXCEPT ![c] = [o EXCEPT !.streams[kind] = Copilot!None, !.at = at]]
      BY <1>1, <1>2, <1>5, <2>1 DEF Copilot!Visit
    <3>2. o.checking /\ Copilot!CurrentDevice(kind) = Copilot!None
      BY <1>1, <2>1 DEF Copilot!Redundant
    <3>3. QED
      BY <3>1, <3>2
  <2>2. CASE ~Copilot!Redundant(c, kind) /\ Copilot!ToRestart(c, kind)
    <3>1. s3' = [s3 EXCEPT ![c] = [o EXCEPT !.streams[kind] = Copilot!None, !.building = TRUE,
                                   !.failed = @ \ {kind}, !.since[kind] = 0]]
      BY <1>1, <1>2, <2>2 DEF Copilot!Visit
    <3>2. QED
      BY <3>1
  <2>3. CASE ~Copilot!Redundant(c, kind) /\ ~Copilot!ToRestart(c, kind)
    <3>1. s3' = [s3 EXCEPT ![c] = [o EXCEPT !.at = at]]
      BY <1>1, <1>2, <1>5, <2>3 DEF Copilot!Visit
    <3>2. QED
      BY <2>3, <3>1
  <2>4. QED
    BY <2>1, <2>2, <2>3
<1>8. /\ s \in Copilot!Controllers /\ s.phase = "watch" /\ s.enabled = o.enabled
      /\ s.checking = o.checking /\ s.check = o.check /\ s.stop = o.stop /\ s.ready = o.ready
  <2>1. [o.streams EXCEPT ![kind] = Copilot!None] \in [Copilot!KindSet -> Devices \cup {Copilot!None}]
    BY DEF Copilot!Controllers
  <2>2. [o.since EXCEPT ![kind] = 0] \in [Copilot!KindSet -> Nat]
    BY DEF Copilot!Controllers
  <2>3. at \in 0..4 /\ (o.failed \ {kind}) \in SUBSET Copilot!KindSet
    BY <1>6 DEF Copilot!Controllers
  <2>4. QED
    BY <1>3, <1>7, <2>1, <2>2, <2>3 DEF Copilot!Controllers
<1>9. Len(s3') = Len(s3)
  BY <1>7, ControllerKnown
<1>10. (Copilot!Told(c, s))'
  BY <1>1, <1>3, <1>8, <1>9 DEF Copilot!Told, Copilot!Latest
<1>11. s.check = 0 /\ ~s5 => \A k \in Copilot!Passed(s) : Copilot!Follows(s, k)
  <2>1. ASSUME s.check = 0, ~s5, NEW k \in Copilot!Passed(s) PROVE Copilot!Follows(s, k)
    <3>1. \A l \in Copilot!Passed(o) : Copilot!Follows(o, l)
      BY <1>1, <1>3, <1>8, <2>1 DEF Copilot!Looked
    <3>2. Copilot!Passed(s) \subseteq Copilot!Passed(o) \cup {kind}
      <4>1. CASE s.at = at
        BY <1>2, <1>3, <1>5, <1>8, <4>1, PassedOn
      <4>2. CASE s.at = o.at
        BY <1>8, <4>2 DEF Copilot!Passed
      <4>3. QED
        BY <1>7, <4>1, <4>2 DEF Copilot!Controllers
    <3>3. CASE k # kind
      <4>1. k \in Copilot!KindSet /\ k \in Copilot!Passed(o)
        BY <3>2, <3>3, KindsArePassed
      <4>2. s.streams[k] = o.streams[k] /\ s.since[k] = o.since[k]
        <5>1. CASE s = [o EXCEPT !.streams[kind] = Copilot!None, !.at = at]
          BY <3>3, <4>1, <5>1 DEF Copilot!Controllers
        <5>2. CASE s = [o EXCEPT !.streams[kind] = Copilot!None, !.building = TRUE,
                                 !.failed = @ \ {kind}, !.since[kind] = 0]
          BY <3>3, <4>1, <5>2 DEF Copilot!Controllers
        <5>3. CASE s = [o EXCEPT !.at = at]
          BY <5>3 DEF Copilot!Controllers
        <5>4. QED
          BY <1>7, <5>1, <5>2, <5>3
      <4>3. QED
        BY <3>1, <4>1, <4>2 DEF Copilot!Follows
    <3>4. CASE k = kind /\ s = [o EXCEPT !.streams[kind] = Copilot!None, !.at = at]
               /\ Copilot!CurrentDevice(kind) = Copilot!None
      <4>1. s.streams[kind] = Copilot!None
        BY <1>4, <3>4 DEF Copilot!Controllers
      <4>2. QED
        BY <3>4, <4>1 DEF Copilot!Follows
    <3>5. CASE k = kind /\ s = [o EXCEPT !.streams[kind] = Copilot!None, !.building = TRUE,
                                         !.failed = @ \ {kind}, !.since[kind] = 0]
      <4>1. s.since[kind] = 0
        BY <1>4, <3>5 DEF Copilot!Controllers
      <4>2. ~(0 >= RestartAfter)
        BY CaptureAssumption
      <4>3. QED
        BY <3>5, <4>1, <4>2 DEF Copilot!Follows
    <3>6. CASE k = kind /\ s = [o EXCEPT !.at = at] /\ ~Copilot!Redundant(c, kind)
               /\ ~Copilot!ToRestart(c, kind)
      <4>1. s.streams = o.streams /\ s.since = o.since
        BY <3>6 DEF Copilot!Controllers
      <4>2. CASE ~o.checking
        <5>1. kind \in Copilot!Passed(o)
          BY <1>2, <1>3, <1>4, <4>2 DEF Copilot!Passed
        <5>2. QED
          BY <3>1, <3>6, <4>1, <5>1 DEF Copilot!Follows
      <4>3. CASE o.checking
        <5>1. o.since[kind] \in Nat /\ RestartAfter \in Nat
          BY <1>4, CaptureAssumption DEF Copilot!Controllers
        <5>2. o.since[kind] >= RestartAfter =>
                Copilot!CurrentDevice(kind) \in {Copilot!None, o.streams[kind]}
          BY <1>1, <3>6, <4>3, <5>1 DEF Copilot!ToRestart
        <5>3. kind = "call playback" /\ Copilot!CurrentDevice(kind) = Copilot!None =>
                o.streams[kind] = Copilot!None
          BY <1>1, <3>6, <4>3 DEF Copilot!Redundant
        <5>4. kind # "call playback" => Copilot!CurrentDevice(kind) # Copilot!None
          BY <1>4, CurrentDevices
        <5>5. QED
          BY <3>6, <4>1, <5>2, <5>3, <5>4 DEF Copilot!Follows
      <4>4. QED
        BY <4>2, <4>3
    <3>10. QED
      BY <1>7, <3>3, <3>4, <3>5, <3>6
  <2>2. QED
    BY <2>1
<1>12. (s.check = 0 /\ ~s5 => \A k \in Copilot!Passed(s) : Copilot!Follows(s, k))'
  BY <1>3, <1>11, FollowsUnchanged
<1>13. /\ s.building => s.at = o.at /\ s.since[kind] = 0
       /\ s.at = o.at \/ s.at = at
       /\ \A k \in Copilot!KindSet : s.streams[k] = o.streams[k] \/ s.streams[k] = Copilot!None
  <2>1. CASE s = [o EXCEPT !.streams[kind] = Copilot!None, !.at = at]
    BY <1>3, <2>1 DEF Copilot!Controllers
  <2>2. CASE s = [o EXCEPT !.streams[kind] = Copilot!None, !.building = TRUE,
                           !.failed = @ \ {kind}, !.since[kind] = 0]
    BY <1>4, <2>2 DEF Copilot!Controllers
  <2>3. CASE s = [o EXCEPT !.at = at]
    BY <1>3, <2>3 DEF Copilot!Controllers
  <2>4. QED
    BY <1>7, <2>1, <2>2, <2>3
<1>14. (Copilot!Looked(c, s))'
  <2>1. \A k \in Copilot!KindSet \ s.enabled : s.streams[k] = Copilot!None
    BY <1>1, <1>8, <1>13 DEF Copilot!Looked
  <2>2. s.at # 0 /\ (s.at \in 1..3 => Copilot!Kinds[s.at] \in s.enabled)
    <3>1. CASE s.at = o.at
      <4>1. s.at # 0
        BY <1>3, <3>1
      <4>2. Copilot!Kinds[s.at] \in s.enabled
        BY <1>2, <1>4, <1>8, <3>1
      <4>3. QED
        BY <4>1, <4>2
    <3>2. CASE s.at = at
      BY <1>6, <1>8, <3>2
    <3>3. QED
      BY <1>13, <3>1, <3>2
  <2>3. s.building => s.at \in 1..3 /\ s.since[Copilot!Kinds[s.at]] = 0
    BY <1>2, <1>3, <1>13
  <2>4. ~(c = Len(s3) /\ s2 = "starting" /\ s.ready = "none")
    BY <1>1, <1>3, <1>8 DEF Copilot!Looked, Copilot!Latest
  <2>5. QED
    BY <1>3, <1>4, <1>8, <1>9, <1>12, <2>1, <2>2, <2>3, <2>4 DEF Copilot!Looked, Copilot!Latest
<1>15. QED
  BY <1>3, <1>7, <1>8, <1>10, <1>14, ControllerSteps, ControllerKnown

\* so does building its stream anew,
LEMMA RebuildSteps ==
  ASSUME Copilot!Telling, Copilot!Looking, NEW c \in DOMAIN s3, Copilot!Rebuild(c)
  PROVE  Copilot!Telling' /\ Copilot!Looking'
<1>1. PICK o \in Copilot!Controllers : o = s3[c] /\ Copilot!Told(c, o) /\ Copilot!Looked(c, o)
  BY ControllerKnown
<1>2. PICK kind : kind = Copilot!Kinds[o.at] /\ kind = Copilot!Kind(c)
  BY <1>1 DEF Copilot!Kind
<1>3. o.phase = "watch" /\ o.at \in 1..3 /\ UNCHANGED <<s1, s2, s5>>
      /\ (o.check = 0 => o.since[kind] = 0)
  BY <1>1, <1>2 DEF Copilot!Rebuild, Copilot!Looked
<1>4. kind \in Copilot!KindSet /\ kind \in o.enabled /\ c = Len(s3) /\ s2 # "idle"
  <2>1. kind \in Copilot!KindSet
    BY <1>2, <1>3, KindsArePassed
  <2>2. kind \in o.enabled /\ c = Len(s3) /\ s2 # "idle"
    BY <1>1, <1>2, <1>3 DEF Copilot!Looked, Copilot!Latest
  <2>3. QED
    BY <2>1, <2>2
<1>5. PICK at : at = Copilot!After(o.at, o.enabled)
  OBVIOUS
<1>6. at \in 2..4 /\ (at # 4 => Copilot!Kinds[at] \in o.enabled)
  BY <1>3, <1>5, NextSource
<1>7. PICK built \in Copilot!BuildStream(Copilot!Kind(c)) :
        /\ s4' = IF built.late THEN [phase |-> "starting", stop |-> TRUE] ELSE s4
        /\ s3' = [s3 EXCEPT ![c] = [s3[c] EXCEPT !.streams[Copilot!Kind(c)] = built.device,
                                                 !.building = FALSE,
                                                 !.at = Copilot!After(@, s3[c].enabled)]]
  BY DEF Copilot!Rebuild
<1>8. built.device \in Devices \cup {Copilot!None} /\ built.late \in BOOLEAN
  BY StreamsAreBuilt
<1>9. PICK s : s = [o EXCEPT !.streams[kind] = built.device, !.building = FALSE, !.at = at]
  OBVIOUS
<1>10. s3' = [s3 EXCEPT ![c] = s]
  BY <1>1, <1>2, <1>5, <1>7, <1>9
<1>11. /\ s \in Copilot!Controllers /\ s.phase = "watch" /\ s.enabled = o.enabled
       /\ s.checking = o.checking /\ s.check = o.check /\ s.stop = o.stop /\ s.ready = o.ready
       /\ s.since = o.since /\ s.at = at
  <2>1. [o.streams EXCEPT ![kind] = built.device] \in [Copilot!KindSet -> Devices \cup {Copilot!None}]
    BY <1>8 DEF Copilot!Controllers
  <2>2. at \in 0..4
    BY <1>6
  <2>3. QED
    BY <1>3, <1>9, <2>1, <2>2 DEF Copilot!Controllers
<1>12. /\ ~s.building
       /\ \A k \in Copilot!KindSet : k # kind => s.streams[k] = o.streams[k]
  BY <1>9 DEF Copilot!Controllers
<1>13. Len(s3') = Len(s3)
  BY <1>10, ControllerKnown
<1>14. (Copilot!Told(c, s))'
  BY <1>1, <1>3, <1>11, <1>13 DEF Copilot!Told, Copilot!Latest
<1>15. s.check = 0 /\ ~s5 => \A k \in Copilot!Passed(s) : Copilot!Follows(s, k)
  <2>1. ASSUME s.check = 0, ~s5, NEW k \in Copilot!Passed(s) PROVE Copilot!Follows(s, k)
    <3>1. Copilot!Passed(s) \subseteq Copilot!Passed(o) \cup {kind}
      BY <1>2, <1>3, <1>5, <1>11, PassedOn
    <3>2. CASE k # kind
      <4>1. k \in Copilot!KindSet /\ k \in Copilot!Passed(o)
        BY <3>1, <3>2, KindsArePassed
      <4>2. Copilot!Follows(o, k)
        BY <1>1, <1>3, <1>11, <2>1, <4>1 DEF Copilot!Looked
      <4>3. QED
        BY <1>11, <1>12, <3>2, <4>1, <4>2 DEF Copilot!Follows
    <3>3. CASE k = kind
      <4>1. ~(0 >= RestartAfter)
        BY CaptureAssumption
      <4>2. QED
        BY <1>3, <1>11, <2>1, <3>3, <4>1 DEF Copilot!Follows
    <3>4. QED
      BY <3>2, <3>3
  <2>2. QED
    BY <2>1
<1>16. (s.check = 0 /\ ~s5 => \A k \in Copilot!Passed(s) : Copilot!Follows(s, k))'
  BY <1>3, <1>15, FollowsUnchanged
<1>17. (Copilot!Looked(c, s))'
  <2>1. \A k \in Copilot!KindSet \ s.enabled : s.streams[k] = Copilot!None
    BY <1>1, <1>4, <1>11, <1>12 DEF Copilot!Looked
  <2>2. s.at # 0 /\ (s.at \in 1..3 => Copilot!Kinds[s.at] \in s.enabled)
    BY <1>6, <1>11
  <2>3. ~(c = Len(s3) /\ s2 = "starting" /\ s.ready = "none")
    BY <1>1, <1>3, <1>11 DEF Copilot!Looked, Copilot!Latest
  <2>4. QED
    BY <1>3, <1>4, <1>11, <1>12, <1>13, <1>16, <2>1, <2>2, <2>3
       DEF Copilot!Looked, Copilot!Latest
<1>18. QED
  BY <1>3, <1>7, <1>8, <1>10, <1>11, <1>14, <1>17, ControllerSteps, ControllerKnown

\* the beginning of a pass,
LEMMA PassBeginsSteps ==
  ASSUME Copilot!Telling, Copilot!Looking, NEW c \in DOMAIN s3, Copilot!PassBegins(c)
  PROVE  Copilot!Telling' /\ Copilot!Looking'
<1>1. PICK o \in Copilot!Controllers : o = s3[c] /\ Copilot!Told(c, o) /\ Copilot!Looked(c, o)
  BY ControllerKnown
<1>2. PICK checking \in BOOLEAN : checking <=> (o.check = CheckAfter)
  OBVIOUS
<1>3. /\ o.phase = "watch" /\ o.at = 0 /\ UNCHANGED <<s1, s2, s4>>
      /\ s5' = IF checking THEN FALSE ELSE s5
  BY <1>1, <1>2 DEF Copilot!PassBegins
<1>4. c = Len(s3) /\ s2 \in {"starting", "running"} /\ ~o.building /\ ~o.checking
  <2>1. c = Len(s3) /\ s2 \in {"starting", "running"}
    BY <1>1 DEF Copilot!PassBegins, Copilot!Told, Copilot!Latest
  <2>2. ~o.building
    BY <1>1, <1>3 DEF Copilot!Looked
  <2>3. ~o.checking
    BY <1>1, <1>3 DEF Copilot!Looked
  <2>4. QED
    BY <2>1, <2>2, <2>3
<1>5. PICK at : at = Copilot!After(0, o.enabled)
  OBVIOUS
<1>6. /\ at \in 1..4 /\ (at # 4 => Copilot!Kinds[at] \in o.enabled)
      /\ \A i \in 1..3 : i < at => Copilot!Kinds[i] \notin o.enabled
  BY <1>5, NextSource
<1>7. PICK s : s = [o EXCEPT !.at = at, !.checking = checking,
                             !.check = IF checking THEN 0 ELSE @]
  OBVIOUS
<1>8. s3' = [s3 EXCEPT ![c] = s]
  <2>1. CASE checking
    BY <1>1, <1>2, <1>5, <1>7, <2>1 DEF Copilot!PassBegins
  <2>2. CASE ~checking
    BY <1>1, <1>2, <1>5, <1>7, <2>2 DEF Copilot!PassBegins
  <2>3. QED
    BY <2>1, <2>2
<1>9. /\ s \in Copilot!Controllers /\ s.phase = "watch" /\ s.enabled = o.enabled
      /\ s.check = (IF checking THEN 0 ELSE o.check) /\ s.stop = o.stop /\ s.ready = o.ready
      /\ s.since = o.since /\ s.at = at /\ s.streams = o.streams
  <2>1. at \in 0..4 /\ (IF checking THEN 0 ELSE o.check) \in Nat
    BY <1>6 DEF Copilot!Controllers
  <2>2. QED
    BY <1>3, <1>7, <2>1 DEF Copilot!Controllers
<1>10. ~s.building /\ (s.checking <=> checking)
  BY <1>4, <1>7 DEF Copilot!Controllers
<1>11. Len(s3') = Len(s3)
  BY <1>8, ControllerKnown
<1>12. (Copilot!Told(c, s))'
  BY <1>1, <1>3, <1>9, <1>11 DEF Copilot!Told, Copilot!Latest
<1>13. s.check = 0 /\ ~s5' => \A k \in Copilot!Passed(s) : Copilot!Follows(s, k)
  <2>1. CASE checking
    <3>1. Copilot!Passed(s) = {}
      BY <1>6, <1>9, <1>10, <2>1 DEF Copilot!Passed
    <3>2. QED
      BY <3>1
  <2>2. CASE ~checking
    <3>1. Copilot!Passed(s) = Copilot!Passed(o)
      BY <1>4, <1>9, <1>10, <2>2 DEF Copilot!Passed
    <3>2. s.check = 0 /\ ~s5' => \A k \in Copilot!Passed(o) : Copilot!Follows(o, k)
      BY <1>1, <1>3, <1>9, <2>2 DEF Copilot!Looked
    <3>3. QED
      BY <1>9, <3>1, <3>2 DEF Copilot!Follows
  <2>3. QED
    BY <2>1, <2>2
<1>14. (s.check = 0 /\ ~s5 => \A k \in Copilot!Passed(s) : Copilot!Follows(s, k))'
  BY <1>3, <1>13, FollowsUnchanged
<1>15. (Copilot!Looked(c, s))'
  <2>1. \A k \in Copilot!KindSet \ s.enabled : s.streams[k] = Copilot!None
    BY <1>1, <1>9 DEF Copilot!Looked
  <2>2. s.at # 0 /\ (s.at \in 1..3 => Copilot!Kinds[s.at] \in s.enabled)
    BY <1>6, <1>9
  <2>3. ~(c = Len(s3) /\ s2 = "starting" /\ s.ready = "none")
    BY <1>1, <1>3, <1>9 DEF Copilot!Looked, Copilot!Latest
  <2>4. QED
    BY <1>3, <1>4, <1>9, <1>10, <1>11, <1>14, <2>1, <2>2, <2>3
       DEF Copilot!Looked, Copilot!Latest
<1>16. QED
  BY <1>3, <1>4, <1>8, <1>9, <1>12, <1>15, ControllerSteps, ControllerKnown

\* and its end, where every source is as its device.
LEMMA PassEndsSteps ==
  ASSUME Copilot!Telling, Copilot!Looking, NEW c \in DOMAIN s3, Copilot!PassEnds(c)
  PROVE  Copilot!Telling' /\ Copilot!Looking'
<1>1. PICK o \in Copilot!Controllers : o = s3[c] /\ Copilot!Told(c, o) /\ Copilot!Looked(c, o)
  BY ControllerKnown
<1>2. o.phase = "watch" /\ o.at = 4 /\ UNCHANGED <<s1, s2, s4, s5>>
  BY <1>1 DEF Copilot!PassEnds
<1>3. c = Len(s3) /\ s2 # "idle" /\ ~o.building
  <2>1. c = Len(s3) /\ s2 # "idle"
    BY <1>1, <1>2 DEF Copilot!Looked, Copilot!Latest
  <2>2. ~o.building
    BY <1>1, <1>2 DEF Copilot!Looked
  <2>3. QED
    BY <2>1, <2>2
<1>4. PICK s : s = [o EXCEPT !.at = 0, !.checking = FALSE]
  OBVIOUS
<1>5. s3' = [s3 EXCEPT ![c] = s]
  BY <1>1, <1>4 DEF Copilot!PassEnds
<1>6. /\ s \in Copilot!Controllers /\ s.phase = "watch" /\ s.enabled = o.enabled
      /\ s.check = o.check /\ s.stop = o.stop /\ s.ready = o.ready
      /\ s.since = o.since /\ s.at = 0 /\ s.streams = o.streams
  <2>1. 0 \in 0..4
    OBVIOUS
  <2>2. QED
    BY <1>2, <1>4, <2>1 DEF Copilot!Controllers
<1>7. ~s.building /\ ~s.checking
  BY <1>3, <1>4 DEF Copilot!Controllers
<1>8. Len(s3') = Len(s3)
  BY <1>5, ControllerKnown
<1>9. (Copilot!Told(c, s))'
  BY <1>1, <1>2, <1>6, <1>8 DEF Copilot!Told, Copilot!Latest
<1>10. s.check = 0 /\ ~s5 => \A k \in Copilot!Passed(s) : Copilot!Follows(s, k)
  <2>1. Copilot!Passed(s) \subseteq Copilot!Passed(o)
    BY <1>2, <1>6 DEF Copilot!Passed
  <2>2. s.check = 0 /\ ~s5 => \A k \in Copilot!Passed(o) : Copilot!Follows(o, k)
    BY <1>1, <1>2, <1>6 DEF Copilot!Looked
  <2>3. QED
    BY <1>6, <2>1, <2>2 DEF Copilot!Follows
<1>11. (s.check = 0 /\ ~s5 => \A k \in Copilot!Passed(s) : Copilot!Follows(s, k))'
  BY <1>2, <1>10, FollowsUnchanged
<1>12. (Copilot!Looked(c, s))'
  <2>1. \A k \in Copilot!KindSet \ s.enabled : s.streams[k] = Copilot!None
    BY <1>1, <1>6 DEF Copilot!Looked
  <2>2. ~(c = Len(s3) /\ s2 = "starting" /\ s.ready = "none")
    BY <1>1, <1>2, <1>6 DEF Copilot!Looked, Copilot!Latest
  <2>3. QED
    BY <1>2, <1>3, <1>6, <1>7, <1>8, <1>11, <2>1, <2>2 DEF Copilot!Looked, Copilot!Latest
<1>13. QED
  BY <1>2, <1>5, <1>6, <1>9, <1>12, ControllerSteps, ControllerKnown

\* A step that leaves alone what the looks at the devices go by.
LEMMA LookedAgain ==
  ASSUME NEW c, NEW o \in Copilot!Controllers, NEW s, Copilot!Looked(c, o),
         UNCHANGED <<s1, s5>>, Len(s3') = Len(s3),
         s2' = "idle" => s2 = "idle" \/ o.phase # "watch", s2' = "starting" => s2 = "starting",
         s.phase = o.phase, s.at = o.at, s.building = o.building, s.checking = o.checking,
         s.ready = o.ready, s.enabled = o.enabled, s.check = o.check, s.streams = o.streams,
         s.since = o.since
  PROVE  (Copilot!Looked(c, s))'
<1>1. /\ Copilot!Passed(s) = Copilot!Passed(o)
      /\ \A k : Copilot!Follows(s, k) = Copilot!Follows(o, k)
  BY DEF Copilot!Passed, Copilot!Follows
<1>2. s.phase = "watch" /\ s.check = 0 /\ ~s5 => \A k \in Copilot!Passed(s) : Copilot!Follows(s, k)
  BY <1>1 DEF Copilot!Looked
<1>3. (s.phase = "watch" /\ s.check = 0 /\ ~s5 =>
         \A k \in Copilot!Passed(s) : Copilot!Follows(s, k))'
  BY <1>2, FollowsUnchanged
<1>4. QED
  BY <1>3 DEF Copilot!Looked, Copilot!Unticked, Copilot!Latest

\* A controller told to stop closes its streams,
LEMMA CloseSteps ==
  ASSUME Copilot!Telling, Copilot!Looking, NEW c \in DOMAIN s3, Copilot!Close(c)
  PROVE  Copilot!Telling' /\ Copilot!Looking'
<1>1. PICK o \in Copilot!Controllers : o = s3[c] /\ Copilot!Told(c, o) /\ Copilot!Looked(c, o)
  BY ControllerKnown
<1>2. o.phase = "watch" /\ o.at = 0 /\ o.stop /\ UNCHANGED <<s1, s2, s4, s5>>
  BY <1>1 DEF Copilot!Close
<1>3. /\ ~o.building /\ ~o.checking
      /\ ~(c = Len(s3) /\ s2 = "starting" /\ o.ready = "none")
  BY <1>1, <1>2 DEF Copilot!Looked, Copilot!Latest
<1>4. PICK s : s = [o EXCEPT !.phase = "drain", !.streams = [k \in Copilot!KindSet |-> Copilot!None],
                             !.failed = {}, !.check = 0, !.since = [k \in Copilot!KindSet |-> 0]]
  OBVIOUS
<1>5. s3' = [s3 EXCEPT ![c] = s]
  BY <1>1, <1>4 DEF Copilot!Close
<1>6. /\ s \in Copilot!Controllers /\ s.phase = "drain" /\ s.enabled = o.enabled
      /\ s.stop = o.stop /\ s.ready = o.ready /\ s.at = 0
      /\ s.building = o.building /\ s.checking = o.checking
      /\ s.streams = [k \in Copilot!KindSet |-> Copilot!None]
  <2>1. /\ [k \in Copilot!KindSet |-> Copilot!None] \in [Copilot!KindSet -> Devices \cup {Copilot!None}]
        /\ [k \in Copilot!KindSet |-> 0] \in [Copilot!KindSet -> Nat]
    OBVIOUS
  <2>2. QED
    BY <1>2, <1>4, <2>1 DEF Copilot!Controllers
<1>7. Len(s3') = Len(s3)
  BY <1>5, ControllerKnown
<1>8. (Copilot!Told(c, s))'
  BY <1>1, <1>2, <1>6, <1>7 DEF Copilot!Told, Copilot!Latest
<1>9. (Copilot!Looked(c, s))'
  BY <1>2, <1>3, <1>6, <1>7 DEF Copilot!Looked, Copilot!Latest
<1>10. QED
  BY <1>2, <1>5, <1>6, <1>8, <1>9, ControllerSteps, ControllerKnown

\* waits for its processors one by one,
LEMMA ProcessorEndsSteps ==
  ASSUME Copilot!Telling, Copilot!Looking, NEW c \in DOMAIN s3, Copilot!ProcessorEnds(c)
  PROVE  Copilot!Telling' /\ Copilot!Looking'
<1>1. PICK o \in Copilot!Controllers : o = s3[c] /\ Copilot!Told(c, o) /\ Copilot!Looked(c, o)
  BY ControllerKnown
<1>2. UNCHANGED <<s1, s2, s4, s5>>
  BY DEF Copilot!ProcessorEnds
<1>3. PICK kind : s3' = [s3 EXCEPT ![c] = [s3[c] EXCEPT !.processors = @ \ {kind}]]
  BY DEF Copilot!ProcessorEnds
<1>4. PICK s : s = [o EXCEPT !.processors = @ \ {kind}]
  OBVIOUS
<1>5. s3' = [s3 EXCEPT ![c] = s]
  BY <1>1, <1>3, <1>4
<1>6. /\ s \in Copilot!Controllers /\ s.stop = o.stop /\ s.processors \subseteq o.processors
      /\ s.phase = o.phase /\ s.at = o.at /\ s.building = o.building /\ s.checking = o.checking
      /\ s.ready = o.ready /\ s.enabled = o.enabled /\ s.check = o.check
      /\ s.streams = o.streams /\ s.since = o.since
  BY <1>4 DEF Copilot!Controllers
<1>7. Len(s3') = Len(s3)
  BY <1>5, ControllerKnown
<1>8. (Copilot!Told(c, s))'
  BY <1>1, <1>2, <1>6, <1>7 DEF Copilot!Told, Copilot!Latest
<1>9. (Copilot!Looked(c, s))'
  BY <1>1, <1>2, <1>6, <1>7, LookedAgain
<1>10. QED
  BY <1>2, <1>5, <1>6, <1>8, <1>9, ControllerSteps, ControllerKnown

\* and is gone, each keeping the invariant.
LEMMA GoneSteps ==
  ASSUME Copilot!Telling, Copilot!Looking, NEW c \in DOMAIN s3, Copilot!Gone(c)
  PROVE  Copilot!Telling' /\ Copilot!Looking'
<1>1. PICK o \in Copilot!Controllers : o = s3[c] /\ Copilot!Told(c, o) /\ Copilot!Looked(c, o)
  BY ControllerKnown
<1>2. o.phase = "drain" /\ o.processors = {} /\ UNCHANGED <<s1, s2, s4, s5>>
  BY <1>1 DEF Copilot!Gone
<1>3. PICK s : s = [o EXCEPT !.phase = "gone"]
  OBVIOUS
<1>4. s3' = [s3 EXCEPT ![c] = s]
  BY <1>1, <1>3 DEF Copilot!Gone
<1>5. /\ s \in Copilot!Controllers /\ s.phase = "gone" /\ s.stop = o.stop
      /\ s.processors = o.processors /\ s.at = o.at /\ s.building = o.building
      /\ s.checking = o.checking /\ s.ready = o.ready /\ s.enabled = o.enabled
      /\ s.streams = o.streams
  BY <1>3 DEF Copilot!Controllers
<1>6. Len(s3') = Len(s3)
  BY <1>4, ControllerKnown
<1>7. (Copilot!Told(c, s))'
  BY <1>1, <1>2, <1>5, <1>6 DEF Copilot!Told, Copilot!Latest
<1>8. (Copilot!Looked(c, s))'
  BY <1>1, <1>2, <1>5, <1>6 DEF Copilot!Looked, Copilot!Latest
<1>9. QED
  BY <1>2, <1>4, <1>5, <1>7, <1>8, ControllerSteps, ControllerKnown

\* A stream that fails is known to its controller.
LEMMA StreamFailsSteps ==
  ASSUME Copilot!Telling, Copilot!Looking, NEW c \in DOMAIN s3, NEW kind \in Copilot!KindSet,
         Copilot!StreamFails(c, kind)
  PROVE  Copilot!Telling' /\ Copilot!Looking'
<1>1. PICK o \in Copilot!Controllers : o = s3[c] /\ Copilot!Told(c, o) /\ Copilot!Looked(c, o)
  BY ControllerKnown
<1>2. UNCHANGED <<s1, s2, s4, s5>>
  BY DEF Copilot!StreamFails
<1>3. PICK s : s = [o EXCEPT !.failed = @ \cup {kind}]
  OBVIOUS
<1>4. s3' = [s3 EXCEPT ![c] = s]
  BY <1>1, <1>3 DEF Copilot!StreamFails
<1>5. /\ s \in Copilot!Controllers /\ s.stop = o.stop /\ s.processors = o.processors
      /\ s.phase = o.phase /\ s.at = o.at /\ s.building = o.building /\ s.checking = o.checking
      /\ s.ready = o.ready /\ s.enabled = o.enabled /\ s.check = o.check
      /\ s.streams = o.streams /\ s.since = o.since
  BY <1>3 DEF Copilot!Controllers
<1>6. Len(s3') = Len(s3)
  BY <1>4, ControllerKnown
<1>7. (Copilot!Told(c, s))'
  BY <1>1, <1>2, <1>5, <1>6 DEF Copilot!Told, Copilot!Latest
<1>8. (Copilot!Looked(c, s))'
  BY <1>1, <1>2, <1>5, <1>6, LookedAgain
<1>9. QED
  BY <1>2, <1>4, <1>5, <1>7, <1>8, ControllerSteps, ControllerKnown

\* Both ways a controller is told to stop.
LEMMA StopSteps ==
  ASSUME Copilot!Telling, Copilot!Looking, Copilot!StartTimesOut \/ Copilot!Stop
  PROVE  Copilot!Telling' /\ Copilot!Looking'
<1>1. PICK c \in DOMAIN s3 : c = Len(s3)
  BY DEF Copilot!Telling, Copilot!StartTimesOut, Copilot!Stop, Copilot!Latest
<1>2. PICK o \in Copilot!Controllers : o = s3[c] /\ Copilot!Told(c, o) /\ Copilot!Looked(c, o)
  BY ControllerKnown
<1>3. /\ UNCHANGED <<s1, s4, s5>>
      /\ \/ s2 = "starting" /\ s2' = "idle" /\ o.ready = "none"
         \/ s2 = "running" /\ s2' = "stopping"
  BY <1>1, <1>2 DEF Copilot!StartTimesOut, Copilot!Stop, Copilot!Latest
<1>4. s2' = "idle" => o.phase # "watch" /\ o.ready = "none"
  BY <1>1, <1>2, <1>3 DEF Copilot!Looked, Copilot!Latest
<1>5. PICK s : s = [o EXCEPT !.stop = TRUE]
  OBVIOUS
<1>6. s3' = [s3 EXCEPT ![c] = s]
  BY <1>1, <1>2, <1>5 DEF Copilot!StartTimesOut, Copilot!Stop, Copilot!Latest
<1>7. /\ s \in Copilot!Controllers /\ s.stop /\ s.processors = o.processors
      /\ s.phase = o.phase /\ s.at = o.at /\ s.building = o.building /\ s.checking = o.checking
      /\ s.ready = o.ready /\ s.enabled = o.enabled /\ s.check = o.check
      /\ s.streams = o.streams /\ s.since = o.since
  BY <1>5 DEF Copilot!Controllers
<1>8. Len(s3') = Len(s3)
  BY <1>6, ControllerKnown
<1>9. (Copilot!Told(c, s))'
  BY <1>1, <1>2, <1>3, <1>4, <1>7, <1>8 DEF Copilot!Told, Copilot!Latest
<1>10. (Copilot!Looked(c, s))'
  <2>1. (s2' = "idle" => s2 = "idle" \/ o.phase # "watch") /\ (s2' = "starting" => s2 = "starting")
    BY <1>3, <1>4
  <2>2. QED
    BY <1>2, <1>3, <1>7, <1>8, <2>1, LookedAgain
<1>11. QED
  BY <1>1, <1>3, <1>6, <1>7, <1>9, <1>10, ControllerSteps, ControllerKnown

\* A start makes a new controller, the only one not told to stop.
LEMMA StartSteps ==
  ASSUME Copilot!Telling, Copilot!Looking, Copilot!Start
  PROVE  Copilot!Telling' /\ Copilot!Looking'
<1>1. PICK enabled \in SUBSET Copilot!KindSet : s3' = Append(s3, Copilot!Controller(enabled))
  <2>1. PICK on \in Settings :
          s3' = Append(s3, Copilot!Controller(UNION {Copilot!SourcesOf[setting] : setting \in on}))
    BY DEF Copilot!Start
  <2>2. \A setting \in on : Copilot!SourcesOf[setting] \in SUBSET Copilot!KindSet
    <3>1. ASSUME NEW setting \in on PROVE Copilot!SourcesOf[setting] \in SUBSET Copilot!KindSet
      <4>1. setting \in {"microphone", "system_audio"}
        BY CaptureAssumption
      <4>2. /\ Copilot!SourcesOf.microphone \in SUBSET Copilot!KindSet
            /\ Copilot!SourcesOf.system_audio \in SUBSET Copilot!KindSet
        BY KindsArePassed DEF Copilot!SourcesOf
      <4>3. CASE setting = "microphone"
        BY <4>2, <4>3
      <4>4. CASE setting = "system_audio"
        BY <4>2, <4>4
      <4>5. QED
        BY <4>1, <4>3, <4>4
    <3>2. QED
      BY <3>1
  <2>3. QED
    BY <2>1, <2>2
<1>2. s2 = "idle" /\ s2' = "starting" /\ UNCHANGED <<s1, s4, s5>>
  BY DEF Copilot!Start
<1>3. PICK at : at = Copilot!After(0, enabled)
  OBVIOUS
<1>4. at \in 1..4 /\ (at # 4 => Copilot!Kinds[at] \in enabled)
  BY <1>3, NextSource
<1>5. PICK s : s = Copilot!Controller(enabled)
  OBVIOUS
<1>6. /\ s \in Copilot!Controllers /\ s.phase = "start" /\ s.at = at /\ s.enabled = enabled
      /\ s.check = 0 /\ s.ready = "none"
      /\ ~s.building /\ ~s.checking
      /\ s.streams = [k \in Copilot!KindSet |-> Copilot!None]
      /\ s.since = [k \in Copilot!KindSet |-> 0]
  <2>1. at \in 0..4
    BY <1>4
  <2>2. /\ [k \in Copilot!KindSet |-> Copilot!None] \in [Copilot!KindSet -> Devices \cup {Copilot!None}]
        /\ [k \in Copilot!KindSet |-> 0] \in [Copilot!KindSet -> Nat]
    OBVIOUS
  <2>3. QED
    BY <1>3, <1>5, <2>1, <2>2 DEF Copilot!Controller, Copilot!Controllers
<1>7. /\ s3' \in Seq(Copilot!Controllers) /\ Len(s3') = Len(s3) + 1 /\ Len(s3) \in Nat
      /\ DOMAIN s3' = 1..Len(s3) + 1 /\ s3'[Len(s3) + 1] = s
      /\ DOMAIN s3 = 1..Len(s3) /\ \A c \in DOMAIN s3 : s3'[c] = s3[c]
  BY <1>1, <1>5, <1>6 DEF Copilot!Telling
<1>8. ASSUME NEW c \in DOMAIN s3 PROVE Copilot!Told(c, s3[c])' /\ Copilot!Looked(c, s3[c])'
  <2>1. PICK r \in Copilot!Controllers : r = s3[c] /\ Copilot!Told(c, r) /\ Copilot!Looked(c, r)
    BY ControllerKnown
  <2>2. r = s3'[c] /\ c # Len(s3')
    BY <1>7, <2>1
  <2>3. (Copilot!Told(c, r))'
    BY <1>2, <2>1 DEF Copilot!Told
  <2>4. /\ Copilot!Passed(r)' = Copilot!Passed(r) /\ Copilot!Unticked(r)' = Copilot!Unticked(r)
        /\ \A k : (Copilot!Follows(r, k))' = Copilot!Follows(r, k)
    BY <1>2, FollowsUnchanged
  <2>5. (Copilot!Looked(c, r))'
    BY <1>2, <2>1, <2>2, <2>4 DEF Copilot!Looked, Copilot!Latest
  <2>6. QED
    BY <2>2, <2>3, <2>5
<1>9. PICK new : new = Len(s3) + 1
  OBVIOUS
<1>10. (Copilot!Told(new, s))' /\ (Copilot!Looked(new, s))'
  <2>1. (Copilot!Told(new, s))'
    BY <1>2, <1>6, <1>7, <1>9 DEF Copilot!Told, Copilot!Latest
  <2>2. (Copilot!Looked(new, s))'
    BY <1>4, <1>6 DEF Copilot!Looked, Copilot!Unticked
  <2>3. QED
    BY <2>1, <2>2
<1>11. \A c \in DOMAIN s3' : Copilot!Told(c, s3[c])' /\ Copilot!Looked(c, s3[c])'
  <2>1. ASSUME NEW c \in DOMAIN s3' PROVE Copilot!Told(c, s3[c])' /\ Copilot!Looked(c, s3[c])'
    <3>1. CASE c \in DOMAIN s3
      BY <1>8, <3>1
    <3>2. CASE c = new
      BY <1>7, <1>9, <1>10, <3>2
    <3>3. QED
      BY <1>7, <1>9, <3>1, <3>2
  <2>2. QED
    BY <2>1
<1>12. Copilot!Telling'
  BY <1>2, <1>7, <1>11 DEF Copilot!Telling, Copilot!Latest
<1>13. Copilot!Looking'
  BY <1>2, <1>11 DEF Copilot!Looking
<1>14. QED
  BY <1>12, <1>13

\* The caller's steps that leave the controllers alone, and the given up microphone.
LEMMA CallerSteps ==
  ASSUME Copilot!Telling, Copilot!Looking,
         Copilot!Started \/ Copilot!Joined \/ Copilot!OrphanGoesOn
  PROVE  Copilot!Telling' /\ Copilot!Looking'
<1>1. /\ UNCHANGED <<s1, s3, s5>>
      /\ \/ s2 = "starting" /\ s2' = "running" /\ UNCHANGED s4
         \/ /\ \/ s2 = "stopping"
               \/ s2 = "starting" /\ s3[Len(s3)].ready = "error"
            /\ s3[Len(s3)].phase = "gone" /\ s2' = "idle" /\ UNCHANGED s4
         \/ UNCHANGED s2
  BY DEF Copilot!Started, Copilot!Joined, Copilot!OrphanGoesOn, Copilot!Latest
<1>2. s4' \in [phase : {"none", "starting", "open"}, stop : BOOLEAN] /\ (s4'.phase # "none" => s4'.stop)
  <2>1. CASE UNCHANGED s4
    BY <2>1 DEF Copilot!Telling
  <2>2. CASE Copilot!OrphanGoesOn
    <3>1. PICK stop \in BOOLEAN : stop <=> s4.stop
      OBVIOUS
    <3>2. s4.stop /\ \E p \in {"none", "open"} : s4' = [s4 EXCEPT !.phase = p]
      BY <2>2 DEF Copilot!OrphanGoesOn, Copilot!Telling
    <3>3. QED
      BY <3>2 DEF Copilot!Telling
  <2>3. QED
    BY <2>1, <2>2 DEF Copilot!Started, Copilot!Joined
<1>3. ASSUME NEW c \in DOMAIN s3 PROVE Copilot!Told(c, s3[c])' /\ Copilot!Looked(c, s3[c])'
  <2>1. PICK r \in Copilot!Controllers : r = s3[c] /\ Copilot!Told(c, r) /\ Copilot!Looked(c, r)
    BY ControllerKnown
  <2>2. (Copilot!Told(c, r))'
    <3>1. CASE UNCHANGED s2
      BY <1>1, <2>1, <3>1 DEF Copilot!Told, Copilot!Latest
    <3>2. CASE s2 = "starting" /\ s2' = "running"
      BY <1>1, <2>1, <3>2 DEF Copilot!Told, Copilot!Latest
    <3>3. CASE s2 \in {"starting", "stopping"} /\ s2' = "idle"
      <4>1. c = Len(s3) => r.phase = "gone" /\ (s2 = "starting" => r.ready = "error")
        BY <1>1, <2>1, <3>3
      <4>2. QED
        BY <1>1, <2>1, <3>3, <4>1 DEF Copilot!Told, Copilot!Latest
    <3>4. QED
      BY <1>1, <3>1, <3>2, <3>3
  <2>3. /\ Copilot!Passed(r)' = Copilot!Passed(r) /\ Copilot!Unticked(r)' = Copilot!Unticked(r)
        /\ \A k : (Copilot!Follows(r, k))' = Copilot!Follows(r, k)
    BY <1>1, FollowsUnchanged
  <2>4. c = Len(s3) => UNCHANGED s2 \/ s2' = "running" \/ (s2' = "idle" /\ r.phase = "gone")
    BY <1>1, <2>1
  <2>5. (Copilot!Looked(c, r))'
    BY <1>1, <2>1, <2>3, <2>4 DEF Copilot!Looked, Copilot!Latest
  <2>6. QED
    BY <1>1, <2>1, <2>2, <2>5
<1>4. Copilot!Telling'
  BY <1>1, <1>2, <1>3 DEF Copilot!Telling, Copilot!Latest
<1>5. Copilot!Looking'
  BY <1>1, <1>3 DEF Copilot!Looking
<1>6. QED
  BY <1>4, <1>5

\* A device may change at any time.
LEMMA DeviceChangesSteps ==
  ASSUME Copilot!Telling, Copilot!Looking, Copilot!DeviceChanges
  PROVE  Copilot!Telling' /\ Copilot!Looking'
<1>1. s1' \in Copilot!DefaultDevices /\ s5' = TRUE /\ UNCHANGED <<s2, s3, s4>>
  BY DEF Copilot!DeviceChanges
<1>2. Copilot!Telling'
  BY <1>1 DEF Copilot!Telling, Copilot!Told, Copilot!Latest
<1>3. ASSUME NEW c \in DOMAIN s3 PROVE Copilot!Looked(c, s3[c])'
  <2>1. PICK r : r = s3[c] /\ Copilot!Looked(c, r)
    BY ControllerKnown
  <2>2. (Copilot!Looked(c, r))'
    BY <1>1, <2>1 DEF Copilot!Looked, Copilot!Unticked, Copilot!Latest
  <2>3. QED
    BY <1>1, <2>1, <2>2
<1>4. QED
  BY <1>1, <1>2, <1>3 DEF Copilot!Looking

\* Once time passes, the next look at the devices is to come.
LEMMA TickSteps ==
  ASSUME Copilot!Telling, Copilot!Looking, Copilot!Tick
  PROVE  Copilot!Telling' /\ Copilot!Looking'
<1> DEFINE Later(n, max) == IF n < max THEN n + 1 ELSE n
<1>1. /\ UNCHANGED <<s1, s2, s4, s5>>
      /\ s3' = [c \in DOMAIN s3 |-> IF s3[c].phase # "watch" THEN s3[c] ELSE
                 [s3[c] EXCEPT !.check = Later(@, CheckAfter),
                    !.since = [k \in Copilot!KindSet |-> Later(@[k], RestartAfter)]]]
  BY DEF Copilot!Tick
<1>2. \A n \in Nat, max \in Nat \ {0} : Later(n, max) \in Nat \ {0}
  OBVIOUS
<1>3. Len(s3') = Len(s3)
  <2>1. PICK Steps : Steps = {s3'[c] : c \in DOMAIN s3}
    OBVIOUS
  <2>2. s3' = [c \in DOMAIN s3 |-> s3'[c]]
    <3> HIDE DEF Later
    <3>1. QED
      BY <1>1, Zenon
  <2>3. DOMAIN s3 = 1..Len(s3) /\ Len(s3) \in Nat
    BY DEF Copilot!Telling
  <2>4. s3' \in [1..Len(s3) -> Steps]
    BY <2>1, <2>2, <2>3
  <2>5. QED
    BY <2>3, <2>4
<1>4. ASSUME NEW c \in DOMAIN s3
      PROVE  s3'[c] \in Copilot!Controllers /\ Copilot!Told(c, s3[c])' /\ Copilot!Looked(c, s3[c])'
  <2>1. PICK r \in Copilot!Controllers : r = s3[c] /\ Copilot!Told(c, r) /\ Copilot!Looked(c, r)
    BY ControllerKnown
  <2>2. Len(s3') = Len(s3)
    BY <1>3
  <2>3. CASE r.phase # "watch"
    <3>1. s3'[c] = r
      BY <1>1, <2>1, <2>3
    <3>2. (Copilot!Told(c, r))'
      BY <1>1, <2>1, <2>2 DEF Copilot!Told, Copilot!Latest
    <3>3. (Copilot!Looked(c, r))'
      BY <1>1, <2>1, <2>2, LookedAgain
    <3>4. QED
      BY <3>1, <3>2, <3>3
  <2>4. CASE r.phase = "watch"
    <3>1. PICK check \in Nat \ {0} : check = Later(r.check, CheckAfter)
      BY <1>2, CaptureAssumption DEF Copilot!Controllers
    <3>2. PICK since \in [Copilot!KindSet -> Nat] :
            since = [k \in Copilot!KindSet |-> Later(r.since[k], RestartAfter)]
      BY <1>2, CaptureAssumption DEF Copilot!Controllers
    <3>3. PICK s : s = [r EXCEPT !.check = check, !.since = since]
      OBVIOUS
    <3>4. s3'[c] = s
      BY <1>1, <2>1, <2>4, <3>1, <3>2, <3>3
    <3>5. /\ s \in Copilot!Controllers /\ s.stop = r.stop /\ s.processors = r.processors
          /\ s.phase = r.phase /\ s.at = r.at /\ s.building = r.building
          /\ s.checking = r.checking /\ s.ready = r.ready /\ s.enabled = r.enabled
          /\ s.check = check /\ s.streams = r.streams
      BY <3>3 DEF Copilot!Controllers
    <3>6. (Copilot!Told(c, s))'
      BY <1>1, <2>1, <2>2, <3>5 DEF Copilot!Told, Copilot!Latest
    <3>7. s.check # 0
      BY <3>5
    <3>8. (Copilot!Looked(c, s))'
      BY <1>1, <2>1, <2>2, <2>4, <3>5, <3>7 DEF Copilot!Looked, Copilot!Unticked, Copilot!Latest
    <3>9. QED
      BY <3>4, <3>5, <3>6, <3>8
  <2>5. QED
    BY <2>3, <2>4
<1>5. s3' \in Seq(Copilot!Controllers) /\ DOMAIN s3' = DOMAIN s3 /\ Len(s3') = Len(s3)
  <2>1. DOMAIN s3 = 1..Len(s3) /\ Len(s3) \in Nat
    BY DEF Copilot!Telling
  <2>2. s3' \in [1..Len(s3) -> Copilot!Controllers]
    BY <1>1, <1>4, <2>1
  <2>3. QED
    BY <2>1, <2>2
<1>6. Copilot!Telling'
  BY <1>1, <1>4, <1>5 DEF Copilot!Telling, Copilot!Latest
<1>7. Copilot!Looking'
  BY <1>1, <1>4, <1>5 DEF Copilot!Looking
<1>8. QED
  BY <1>6, <1>7

\* So every step of the capture keeps its invariant,
LEMMA CaptureStep ==
  ASSUME Copilot!Telling, Copilot!Looking, Copilot!Next
  PROVE  Copilot!Telling' /\ Copilot!Looking'
<1>1. CASE Copilot!Start
  BY <1>1, StartSteps
<1>2. CASE Copilot!StartTimesOut \/ Copilot!Stop
  BY <1>2, StopSteps
<1>3. CASE Copilot!Started \/ Copilot!Joined \/ Copilot!OrphanGoesOn
  BY <1>3, CallerSteps
<1>4. ASSUME NEW c \in DOMAIN s3,
             \/ Copilot!OpenSource(c) \/ Copilot!SourcesOpened(c) \/ Copilot!PassBegins(c)
             \/ Copilot!Visit(c) \/ Copilot!Rebuild(c) \/ Copilot!PassEnds(c)
             \/ Copilot!Close(c) \/ Copilot!ProcessorEnds(c) \/ Copilot!Gone(c)
             \/ \E kind \in Copilot!KindSet : Copilot!StreamFails(c, kind)
      PROVE  Copilot!Telling' /\ Copilot!Looking'
  BY <1>4, OpenSourceSteps, SourcesOpenedSteps, PassBeginsSteps, VisitSteps, RebuildSteps,
     PassEndsSteps, CloseSteps, ProcessorEndsSteps, GoneSteps, StreamFailsSteps
<1>5. CASE Copilot!DeviceChanges
  BY <1>5, DeviceChangesSteps
<1>6. CASE Copilot!Tick
  BY <1>6, TickSteps
<1>7. QED
  BY <1>1, <1>2, <1>3, <1>4, <1>5, <1>6 DEF Copilot!Next

\* which says that what is captured is wanted and from the current devices.
LEMMA CaptureWanted ==
  ASSUME Copilot!Telling, Copilot!Looking
  PROVE  Copilot!CaptureIsWanted /\ Copilot!SourcesFollowDevices
<1>1. Copilot!CaptureIsWanted
  <2>1. ASSUME NEW c \in DOMAIN s3
        PROVE  LET open == s3[c].processors # {} \/ \E k \in Copilot!KindSet : s3[c].streams[k] # Copilot!None
               IN  /\ open => s3[c].stop \/ (c = Copilot!Latest /\ s2 # "idle")
                   /\ s3[c].phase = "gone" => ~open
                   /\ s2 = "idle" /\ s3[c].ready # "none" => ~open
    BY ControllerKnown DEF Copilot!Told
  <2>2. s4.phase = "open" => s4.stop
    BY DEF Copilot!Telling
  <2>3. QED
    BY <2>1, <2>2 DEF Copilot!CaptureIsWanted
<1>2. ASSUME NEW c \in DOMAIN s3, NEW s \in Copilot!Controllers, s = s3[c],
             s.phase = "watch", s.at = 0, s.check = 0, ~s5
      PROVE  /\ \A kind \in s.enabled : s.since[kind] >= RestartAfter =>
                  Copilot!CurrentDevice(kind) \in {Copilot!None, s.streams[kind]}
             /\ /\ s.since["playback"] >= RestartAfter /\ s.since["call playback"] >= RestartAfter
                /\ s.streams["call playback"] # Copilot!None
                => s.streams["call playback"] # s.streams["playback"]
  <2>1. Copilot!Looked(c, s)
    BY <1>2, ControllerKnown
  <2>2. Copilot!Passed(s) = s.enabled
    <3>1. ~s.checking
      BY <1>2, <2>1 DEF Copilot!Looked
    <3>2. ASSUME NEW k \in s.enabled PROVE k \in Copilot!Passed(s)
      <4>1. k \in Copilot!KindSet
        BY DEF Copilot!Controllers
      <4>2. DOMAIN Copilot!Kinds = 1..3
        BY DEF Copilot!Kinds
      <4>3. PICK i \in 1..3 : k = Copilot!Kinds[i]
        BY <4>1, <4>2 DEF Copilot!KindSet
      <4>4. QED
        BY <3>1, <4>3 DEF Copilot!Passed
    <3>3. Copilot!Passed(s) \subseteq s.enabled
      BY DEF Copilot!Passed
    <3>4. QED
      BY <3>2, <3>3
  <2>3. \A kind \in s.enabled : s.since[kind] >= RestartAfter => s.streams[kind] = Copilot!CurrentDevice(kind)
    BY <1>2, <2>1, <2>2 DEF Copilot!Looked, Copilot!Follows
  <2>4. \A k \in Copilot!KindSet \ s.enabled : s.streams[k] = Copilot!None
    BY <2>1 DEF Copilot!Looked
  <2>5. ASSUME s.since["playback"] >= RestartAfter, s.since["call playback"] >= RestartAfter,
               s.streams["call playback"] # Copilot!None
        PROVE  s.streams["call playback"] # s.streams["playback"]
    <3>1. {"playback", "call playback"} \subseteq Copilot!KindSet
      BY KindsArePassed
    <3>2. s.streams["call playback"] = Copilot!SeparateCallDevice
      BY <2>3, <2>4, <2>5, <3>1 DEF Copilot!CurrentDevice
    <3>3. s.streams["playback"] \in {s1.output, Copilot!None}
      BY <2>3, <2>4, <2>5, <3>1 DEF Copilot!CurrentDevice
    <3>4. QED
      BY <2>5, <3>2, <3>3 DEF Copilot!SeparateCallDevice
  <2>6. QED
    BY <2>3, <2>5
<1>3. Copilot!SourcesFollowDevices
  <2>1. ASSUME NEW c \in DOMAIN s3
        PROVE  LET s == s3[c]
                   settled(kind) == s.since[kind] >= RestartAfter
               IN s.phase = "watch" /\ s.at = 0 /\ s.check = 0 /\ ~s5 =>
                    /\ \A kind \in s.enabled :
                         settled(kind) => Copilot!CurrentDevice(kind) \in {Copilot!None, s.streams[kind]}
                    /\ /\ settled("playback") /\ settled("call playback")
                       /\ s.streams["call playback"] # Copilot!None
                       => s.streams["call playback"] # s.streams["playback"]
    <3>1. PICK s \in Copilot!Controllers : s = s3[c]
      BY ControllerKnown
    <3>2. QED
      BY <1>2, <3>1
  <2>2. QED
    BY <2>1 DEF Copilot!SourcesFollowDevices
<1>4. QED
  BY <1>1, <1>3

-----------------------------------------------------------------------------
(* The recorders and the capture, as the parts that may run.               *)

Recording ==
  /\ part = "linux recorder" => Linux!Owning /\ Linux!Restorable(s8)
  /\ part = "windows recorder" => Win!Commanding /\ Win!Reporting /\ Win!Ducking
  /\ part = "copilot capture" => Copilot!Telling /\ Copilot!Looking

\* Whichever recorder the platform has starts in its invariant,
LEMMA RecordingInit == Init => Recording
  BY OwningInit, RestorableInit, CommandingInit, DuckingInit, CaptureInit DEF Init, Recording

\* and keeps it.
LEMMA RecordingStep == Recording /\ [Next]_vars => Recording'
<1> SUFFICES ASSUME Recording, [Next]_vars PROVE Recording'
  OBVIOUS
<1>1. CASE part = "linux recorder" /\ Linux!Next /\ part' = part
  BY <1>1, OwningStep, RestorableStep DEF Recording
<1>2. CASE part = "windows recorder" /\ Win!Next /\ part' = part
  BY <1>2, CommandingStep, DuckingStep DEF Recording
<1>3. CASE part = "copilot capture" /\ Copilot!Next /\ part' = part
  BY <1>3, CaptureStep DEF Recording
<1>4. CASE part \notin {"linux recorder", "windows recorder", "copilot capture"} /\ part' = part
  BY <1>4 DEF Recording
<1>5. CASE UNCHANGED vars
  <2>1. Linux!Owning' = Linux!Owning /\ Linux!Restorable(s8)' = Linux!Restorable(s8)
    BY <1>5 DEF vars, Linux!Owning, Linux!RecorderIsOwned, Linux!Restorable
  <2>2. /\ Win!Commanding' = Win!Commanding /\ Win!Reporting' = Win!Reporting
        /\ Win!Ducking' = Win!Ducking
    BY <1>5 DEF vars, Win!Commanding, Win!Reporting, Win!Ducking, Win!Sent, Win!Taken
  <2>3. Copilot!Telling' = Copilot!Telling /\ Copilot!Looking' = Copilot!Looking
    BY <1>5 DEF vars, Copilot!Telling, Copilot!Looking, Copilot!Told, Copilot!Looked,
       Copilot!Unticked, Copilot!Passed, Copilot!Follows, Copilot!CurrentDevice,
       Copilot!SeparateCallDevice, Copilot!Latest
  <2>4. QED
    BY <1>5, <2>1, <2>2, <2>3 DEF vars, Recording
<1>6. QED
  BY <1>1, <1>2, <1>3, <1>4, <1>5 DEF Next

\* No microphone or loopback stays open that no recording holds, a recorder's end is
\* reported only once it left, the copilot captures the devices in use, and what
\* ducking lowered is raised again, unless Windows refuses the restoration itself,
\* which is not repeated (recorder.rs, audio_ducking.rs; windows/system.rs,
\* ducking.rs; win/audio.rs, comms_mic.rs).
THEOREM AudioComesBack == Spec => []AudioIsGivenBack
<1>1. Spec => []Recording
  BY RecordingInit, RecordingStep, PTL DEF Spec
<1>2. Recording => AudioIsGivenBack
  <2>1. Linux!Owning => Linux!RecorderIsOwned
    BY DEF Linux!Owning
  <2>2. Linux!Restorable(s8) => Linux!OutputIsRestorable
    BY DEF Linux!Restorable, Linux!OutputIsRestorable
  <2>3. QED
    BY <2>1, <2>2, CommandingFollows, DuckingRestores, CaptureWanted DEF Recording, AudioIsGivenBack
<1>3. QED
  BY <1>1, <1>2, PTL
-----------------------------------------------------------------------------
(* The shortcut's listener and its supervisor, on either platform.  The    *)
(* invariant has four parts: Supervising, what the loop knows of its       *)
(* listener; Agreeing, which shortcut is asked for, listened to and agreed *)
(* on; Reporting, what the newest status says; and Hearing, which          *)
(* keyboards are open.                                                     *)

\* What is finite, and how many there are, is no matter of the module that asks.
LEMMA FiniteIsFinite ==
  ASSUME NEW S
  PROVE  (Keys!IsFiniteSet(S) <=> IsFiniteSet(S)) /\ Keys!Cardinality(S) = Cardinality(S)
  BY DEF Keys!IsFiniteSet, IsFiniteSet, Keys!Cardinality, Cardinality

\* A message sent to a queue comes last and leaves the others where they are.
LEMMA Queued ==
  ASSUME NEW q \in Seq(Keys!Events), NEW m \in Keys!Events, NEW r, r = Append(q, m)
  PROVE  /\ r \in Seq(Keys!Events)
         /\ \E n \in Nat :
              /\ DOMAIN r = DOMAIN q \cup {n}
              /\ \A i \in DOMAIN q : i \in Nat /\ i < n /\ r[i] = q[i]
              /\ r[n] = m
<1>1. r \in Seq(Keys!Events)
  OBVIOUS
<1>2. PICK n \in Nat : n = Len(q) + 1
  OBVIOUS
<1>3. DOMAIN r = DOMAIN q \cup {n}
  BY <1>2
<1>4. \A i \in DOMAIN q : i \in Nat /\ i < n /\ r[i] = q[i]
  BY <1>2
<1>5. r[n] = m
  BY <1>2
<1>6. QED
  BY <1>1, <1>3, <1>4, <1>5

\* Taking the first message moves every other one place forward.
LEMMA Unqueued ==
  ASSUME s7 \in Seq(Keys!Events), s7 # <<>>, s7' = Tail(s7)
  PROVE  /\ s7' \in Seq(Keys!Events)
         /\ 1 \in DOMAIN s7 /\ s7[1] = Head(s7) /\ Head(s7) \in Keys!Events
         /\ \A i \in DOMAIN s7' :
              i \in Nat /\ i + 1 \in DOMAIN s7 /\ i + 1 > 1 /\ s7'[i] = s7[i + 1]
         /\ \A i \in DOMAIN s7 : i # 1 => \E k \in DOMAIN s7' : i = k + 1
<1>1. /\ Len(s7) \in Nat /\ Len(s7) >= 1 /\ DOMAIN s7 = 1..Len(s7)
      /\ Head(s7) = s7[1] /\ Head(s7) \in Keys!Events /\ s7' \in Seq(Keys!Events)
  OBVIOUS
<1>2. /\ DOMAIN s7' = 1..Len(s7) - 1
      /\ \A i \in DOMAIN s7' : s7'[i] = s7[i + 1]
  OBVIOUS
<1>3. \A i \in DOMAIN s7 : i # 1 => i - 1 \in DOMAIN s7' /\ i = (i - 1) + 1
  BY <1>1, <1>2
<1>4. QED
  BY <1>1, <1>2, <1>3

\* Pulling out a keyboard hangs up its handles, and only those.
LEMMA HungUpHandles ==
  ASSUME NEW k, NEW H \in SUBSET Keys!Handles
  PROVE  /\ Keys!HungUp(k, H) \in SUBSET Keys!Handles
              /\ Keys!KeysOf(Keys!HungUp(k, H)) = Keys!KeysOf(H)
         /\ Keys!HungUp(k, H) = {} <=> H = {}
         /\ IsFiniteSet(H) => IsFiniteSet(Keys!HungUp(k, H))
         /\ \A g \in Keys!HungUp(k, H) :
              \E h \in H : g.key = h.key /\ (g.alive <=> h.alive /\ h.key # k)
<1> DEFINE f == [h \in H |-> [h EXCEPT !.alive = h.alive /\ h.key # k]]
<1>1. Keys!HungUp(k, H) = {f[h] : h \in H}
  BY DEF Keys!HungUp
<1>2. ASSUME NEW h \in H
      PROVE  /\ f[h] \in Keys!Handles /\ f[h].key = h.key
             /\ f[h].alive <=> h.alive /\ h.key # k
  BY DEF Keys!Handles
<1>3. IsFiniteSet(H) => IsFiniteSet({f[h] : h \in H})
  <2>1. f \in Surjection(H, {f[h] : h \in H})
    BY DEF Surjection
  <2> HIDE DEF f
  <2>2. QED
    BY <2>1, FS_Surjection
<1> HIDE DEF f
<1>4. Keys!HungUp(k, H) \in SUBSET Keys!Handles
  BY <1>1, <1>2
<1>5. /\ \A g \in Keys!HungUp(k, H) : \E h \in H : g.key = h.key
           /\ (g.alive <=> h.alive /\ h.key # k)
      /\ \A h \in H : \E g \in Keys!HungUp(k, H) : g.key = h.key
  BY <1>1, <1>2
<1>6. Keys!KeysOf(Keys!HungUp(k, H)) = Keys!KeysOf(H)
  BY <1>5 DEF Keys!KeysOf
<1>7. Keys!HungUp(k, H) = {} <=> H = {}
  BY <1>5
<1>8. IsFiniteSet(H) => IsFiniteSet(Keys!HungUp(k, H))
  BY <1>1, <1>3
<1>9. QED
  BY <1>4, <1>5, <1>6, <1>7, <1>8

\* and leaves two handles on one keyboard apart no more than before.
LEMMA HungUpUnlike ==
  ASSUME NEW k, NEW H \in SUBSET Keys!Handles, Keys!Unlike(H)
  PROVE  Keys!Unlike(Keys!HungUp(k, H))
<1>1. ASSUME NEW f \in Keys!HungUp(k, H), NEW g \in Keys!HungUp(k, H), f.key = g.key
      PROVE  f = g
  <2>1. PICK x \in H : f = [x EXCEPT !.alive = x.alive /\ x.key # k]
    BY DEF Keys!HungUp
  <2>2. PICK y \in H : g = [y EXCEPT !.alive = y.alive /\ y.key # k]
    BY DEF Keys!HungUp
  <2>3. x \in Keys!Handles /\ y \in Keys!Handles
    OBVIOUS
  <2>4. f.key = x.key /\ g.key = y.key
    BY <2>1, <2>2, <2>3 DEF Keys!Handles
  <2>5. x = y
    BY <1>1, <2>4 DEF Keys!Unlike
  <2>6. QED
    BY <2>1, <2>2, <2>5
<1>2. QED
  BY <1>1 DEF Keys!Unlike

\* Every step leaves the listener one.
LEMMA ListenerTyped ==
  ASSUME Keys!Supervising, Keys!Agreeing, Keys!Reporting, Keys!Hearing, Keys!Next
  PROVE  s5' \in Keys!Listeners
<1> USE ShortcutsAssumption
<1> USE DEF Keys!Starting, Keys!Running
<1>0. s5 \in Keys!Listeners
  BY DEF Keys!Supervising
<1>1. CASE \E k \in Devices : Keys!Appear(k) \/ Keys!Permit(k)
  BY <1>0, <1>1 DEF Keys!Appear, Keys!Permit
<1>2. ASSUME NEW k \in Devices, Keys!Unplug(k) PROVE s5' \in Keys!Listeners
  <2>1. Keys!HungUp(k, s5.open) \in SUBSET Keys!Handles
          /\ Keys!HungUp(k, s5.got) \in SUBSET Keys!Handles
    BY <1>0, HungUpHandles DEF Keys!Listeners
  <2>2. QED
    BY <1>0, <1>2, <2>1 DEF Keys!Unplug, Keys!Listeners
<1>3. Keys!NoListener \in Keys!Listeners
  BY DEF Keys!NoListener, Keys!Listeners
<1>4. ASSUME Keys!StartFailed PROVE s5' \in Keys!Listeners
  BY <1>3, <1>4 DEF Keys!StartFailed
<1>5. Keys!Handle(Keys!Hook) \in Keys!Handles /\ \A k \in Devices : Keys!Handle(k) \in Keys!Handles
  BY DEF Keys!Handle, Keys!Handles
<1>6. CASE Keys!InstallWatch
  <2>1. {Keys!Handle(Keys!Hook)} \in SUBSET Keys!Handles
    BY <1>5
  <2>2. CASE s5' = [s5 EXCEPT !.at = "scan"]
    BY <1>0, <2>2 DEF Keys!Listeners
  <2>3. CASE s5' = [s5 EXCEPT !.at = "first", !.open = {Keys!Handle(Keys!Hook)}]
    BY <1>0, <2>1, <2>3 DEF Keys!Listeners
  <2>4. \/ s5' = [s5 EXCEPT !.at = "scan"]
        \/ s5' = [s5 EXCEPT !.at = "first", !.open = {Keys!Handle(Keys!Hook)}]
        \/ Keys!StartFailed
    BY <1>6 DEF Keys!InstallWatch
  <2>5. QED
    BY <1>4, <2>2, <2>3, <2>4
<1>7. CASE Keys!Scan
  <2>1. s5.at # "none" => Keys!Discovered(s5.spec) \in SUBSET Devices
    BY <1>0 DEF Keys!Discovered, Keys!Listeners
  <2>2. \/ s5' = [s5 EXCEPT !.at = "first", !.todo = Keys!Discovered(s5.spec)]
        \/ Keys!StartFailed
    BY <1>7 DEF Keys!Scan
  <2>3. s5.at # "none"
    BY <1>7 DEF Keys!Scan
  <2>4. PICK found \in SUBSET Devices : found = Keys!Discovered(s5.spec)
    BY <2>1, <2>3
  <2>5. CASE s5' = [s5 EXCEPT !.at = "first", !.todo = found]
    BY <1>0, <2>5 DEF Keys!Listeners
  <2>6. QED
    BY <1>4, <2>2, <2>4, <2>5
<1>8. ASSUME NEW k \in Devices, Keys!OpenKeyboard(k) PROVE s5' \in Keys!Listeners
  <2>1. (IF s2[k] = "ready" THEN {Keys!Handle(k)} ELSE {}) \in SUBSET Keys!Handles
    BY <1>5
  <2>2. QED
    BY <1>0, <1>8, <2>1 DEF Keys!OpenKeyboard, Keys!Opened, Keys!Listeners
<1>9. CASE Keys!Started \/ Keys!Arm \/ Keys!Recover \/ Keys!Learn \/ Keys!Publish
             \/ \E shortcut \in Shortcuts : Keys!Ask(shortcut)
  BY <1>0, <1>9 DEF Keys!Started, Keys!Arm, Keys!Recover, Keys!Learn, Keys!Publish, Keys!Ask,
     Keys!Listeners
<1>10. CASE Keys!Poll
  <2>1. Keys!Gone \in SUBSET (Devices \cup {Keys!Hook})
    BY <1>0 DEF Keys!Gone, Keys!Listeners, Keys!Handles
  <2>2. [control |-> s5.command # Keys!NoSpec, watch |-> s4, gone |-> Keys!Gone]
          \in [control : BOOLEAN, watch : BOOLEAN, gone : SUBSET (Devices \cup {Keys!Hook})]
    <3>1. s4 \in BOOLEAN
      BY DEF Keys!Hearing
    <3>2. QED
      BY <2>1, <3>1
  <2>3. QED
    BY <1>0, <1>10, <2>2 DEF Keys!Poll, Keys!Listeners
<1>11. CASE Keys!WorkerEnds
  <2>1. s5' = [Keys!NoListener EXCEPT !.reply = s5.reply]
    BY <1>11 DEF Keys!WorkerEnds
  <2>2. QED
    BY <1>0, <2>1 DEF Keys!Listeners, Keys!NoListener
<1>12. CASE Keys!Commands
  BY <1>0, <1>12 DEF Keys!Commands, Keys!Listeners
<1>13. ASSUME Keys!Refuse PROVE s5' \in Keys!Listeners
  BY <1>0, <1>13 DEF Keys!Refuse, Keys!Listeners
<1>14. ASSUME s5.at \in {"rescan", "reopening"}
       PROVE  s5.command \in Shortcuts /\ s5.command \in SUBSET Devices
  BY <1>0, <1>14 DEF Keys!Agreeing, Keys!Listeners
<1>15. ASSUME NEW H \in SUBSET Keys!Handles, s5.at \in {"rescan", "reopening"}, Keys!Accept(H)
       PROVE  s5' \in Keys!Listeners
  BY <1>0, <1>14, <1>15 DEF Keys!Accept, Keys!Listeners
<1>16. CASE Keys!Rescan
  <2>1. Keys!Discovered(s5.command) \in SUBSET Devices
    BY <1>14, <1>16 DEF Keys!Rescan, Keys!Discovered
  <2>2. /\ s5.at = "rescan" /\ s5.open \in SUBSET Keys!Handles
        /\ \/ s5' = [s5 EXCEPT !.at = "reopening", !.got = {},
                               !.todo = Keys!Discovered(s5.command)]
           \/ Keys!Refuse
           \/ Keys!Accept(s5.open)
    BY <1>0, <1>16 DEF Keys!Rescan, Keys!Listeners
  <2>3. CASE s5' = [s5 EXCEPT !.at = "reopening", !.got = {},
                              !.todo = Keys!Discovered(s5.command)]
    BY <1>0, <2>1, <2>3 DEF Keys!Listeners
  <2>4. QED
    BY <1>13, <1>15, <2>2, <2>3
<1>17. CASE Keys!Decide
  BY <1>0, <1>13, <1>15, <1>17 DEF Keys!Decide, Keys!Listeners
<1>18. CASE Keys!Readiness
  <2>1. Cardinality(s5.open) \in Nat
    <3>1. PICK H : H = s5.open /\ IsFiniteSet(H)
      BY FiniteIsFinite DEF Keys!Reporting
    <3>2. QED
      BY <3>1, FS_CardinalityType
  <2>2. {h \in s5.open : h.key \notin s5.seen.gone} \in SUBSET Keys!Handles
    BY <1>0 DEF Keys!Listeners
  <2>3. QED
    BY <1>0, <1>18, <2>1, <2>2, FiniteIsFinite DEF Keys!Readiness, Keys!Listeners
<1>19. CASE Keys!Drain \/ Keys!Report
  BY <1>0, <1>19 DEF Keys!Drain, Keys!Report, Keys!Listeners
<1>20. CASE Keys!Discover
  <2> DEFINE found == Keys!Discovered(s5.spec)
             kept == {h \in s5.open : h.key \in found}
  <2>1. kept \in SUBSET Keys!Handles /\ found \ Keys!KeysOf(kept) \in SUBSET Devices
    BY <1>0 DEF Keys!Listeners, Keys!Discovered
  <2> HIDE DEF found, kept
  <2>2. \/ s5' = [s5 EXCEPT !.at = "status", !.open = kept, !.blind = FALSE,
                                        !.todo = found \ Keys!KeysOf(kept)]
        \/ s5' = [s5 EXCEPT !.at = "status", !.blind = TRUE]
    BY <1>20 DEF Keys!Discover, found, kept
  <2>3. CASE s5' = [s5 EXCEPT !.at = "status", !.blind = TRUE]
    BY <1>0, <2>3 DEF Keys!Listeners
  <2>4. CASE s5' = [s5 EXCEPT !.at = "status", !.open = kept, !.blind = FALSE,
                                          !.todo = found \ Keys!KeysOf(kept)]
    <3> DEFINE left == found \ Keys!KeysOf(kept)
    <3>1. left \in SUBSET Devices /\ s5' = [s5 EXCEPT !.at = "status", !.open = kept,
                                                    !.blind = FALSE, !.todo = left]
      BY <2>1, <2>4
    <3> HIDE DEF left
    <3>2. QED
      BY <1>0, <2>1, <3>1 DEF Keys!Listeners
  <2>5. QED
    BY <2>2, <2>3, <2>4
<1>21. CASE Keys!TakeEvent
  <2>1. \/ s5' = s5
        \/ s5' = [Keys!NoListener EXCEPT !.at = "install", !.spec = s8] /\ s8 # Keys!NoSpec
        \/ s5' = [s5 EXCEPT !.command = s12.spec]
    BY <1>21 DEF Keys!TakeEvent
  <2>2. s12.spec \in Shortcuts \cup {Keys!NoSpec} /\ s8 \in Shortcuts \cup {Keys!NoSpec}
    BY DEF Keys!Agreeing
  <2>3. CASE s5' = [Keys!NoListener EXCEPT !.at = "install", !.spec = s8] /\ s8 # Keys!NoSpec
    <3>1. s8 \in SUBSET Devices
      BY <2>2, <2>3
    <3>2. QED
      BY <1>3, <2>3, <3>1 DEF Keys!Listeners
  <2>4. CASE s5' = [s5 EXCEPT !.command = s12.spec]
    BY <1>0, <2>2, <2>4 DEF Keys!Listeners
  <2>5. QED
    BY <1>0, <2>1, <2>3, <2>4
<1>22. CASE Keys!Reply
  BY <1>0, <1>22 DEF Keys!Reply, Keys!Listeners
<1>23. QED
  BY <1>1, <1>2, <1>6, <1>7, <1>8, <1>9, <1>10, <1>11, <1>12, <1>16, <1>17, <1>18, <1>19,
     <1>20, <1>21, <1>22 DEF Keys!Next, Keys!Environment, Keys!Worker, Keys!Supervisor

\* Only a scan leaves keyboards to open.
LEMMA LeftStep ==
  ASSUME Keys!Supervising, Keys!Next
  PROVE  Keys!Left'
<1>1. s5 \in Keys!Listeners /\ Keys!Left
  BY DEF Keys!Supervising
<1>2. CASE Keys!Environment
  BY <1>1, <1>2 DEF Keys!Environment, Keys!Appear, Keys!Permit, Keys!Unplug, Keys!Left,
     Keys!Listeners
<1>3. CASE Keys!StartFailed
  BY <1>3 DEF Keys!StartFailed, Keys!NoListener, Keys!Left
<1>4. CASE Keys!InstallWatch \/ Keys!Scan
  BY <1>1, <1>3, <1>4 DEF Keys!InstallWatch, Keys!Scan, Keys!Left, Keys!Listeners
<1>5. CASE \E k \in Devices : Keys!OpenKeyboard(k)
  BY <1>1, <1>5 DEF Keys!OpenKeyboard, Keys!Opened, Keys!Left, Keys!Listeners
<1>6. CASE Keys!Poll \/ Keys!Commands \/ Keys!Readiness \/ Keys!Drain \/ Keys!Report \/ Keys!Started
  BY <1>1, <1>6 DEF Keys!Poll, Keys!Commands, Keys!Readiness, Keys!Drain, Keys!Report,
     Keys!Started, Keys!Left, Keys!Listeners
<1>7. CASE Keys!WorkerEnds
  BY <1>7 DEF Keys!WorkerEnds, Keys!NoListener, Keys!Left
<1>8. CASE Keys!Discover
  BY <1>1, <1>8 DEF Keys!Discover, Keys!Left, Keys!Listeners
<1>9. CASE Keys!Rescan
  BY <1>1, <1>9 DEF Keys!Rescan, Keys!Refuse, Keys!Accept, Keys!Left, Keys!Listeners
<1>10. CASE Keys!Decide
  BY <1>1, <1>10 DEF Keys!Decide, Keys!Refuse, Keys!Accept, Keys!Left, Keys!Listeners
<1>11. CASE Keys!Arm \/ Keys!Recover \/ Keys!Learn \/ Keys!Publish \/ Keys!Reply
              \/ \E shortcut \in Shortcuts : Keys!Ask(shortcut)
  BY <1>1, <1>11 DEF Keys!Arm, Keys!Recover, Keys!Learn, Keys!Publish, Keys!Ask, Keys!Reply,
     Keys!Left, Keys!Listeners
<1>12. CASE Keys!TakeEvent
  BY <1>1, <1>12 DEF Keys!TakeEvent, Keys!NoListener, Keys!Left, Keys!Listeners
<1>13. QED
  BY <1>2, <1>4, <1>5, <1>6, <1>7, <1>8, <1>9, <1>10, <1>11, <1>12
     DEF Keys!Next, Keys!Worker, Keys!Supervisor

\* Every step keeps the loop and the listener in step.
LEMMA SupervisingStep ==
  ASSUME Keys!Supervising, Keys!Agreeing, Keys!Reporting, Keys!Hearing, Keys!Next
  PROVE  Keys!Supervising'
<1> USE DEF Keys!Starting, Keys!Running
<1>1. s5' \in Keys!Listeners /\ Keys!Left'
  BY ListenerTyped, LeftStep
<1>2. /\ s1 \in {"linux", "windows"} /\ s5 \in Keys!Listeners /\ s10 \in Nat
      /\ s7 \in Seq(Keys!Events) /\ s6 \in {"loop", "starting", "arming", "asking"}
  BY DEF Keys!Supervising
<1>3. s1' = s1
  BY DEF Keys!Next, Keys!Environment, Keys!Worker, Keys!Supervisor, Keys!Appear, Keys!Permit,
     Keys!Unplug, Keys!Change, Keys!InstallWatch, Keys!Scan,
     Keys!OpenKeyboard, Keys!Started, Keys!Arm, Keys!Recover, Keys!workerFrame, Keys!Poll,
     Keys!WorkerEnds, Keys!Commands, Keys!Rescan, Keys!Decide,
     Keys!Readiness, Keys!Drain, Keys!Discover, Keys!Report, Keys!Ask, Keys!TakeEvent, Keys!Reply,
     Keys!Learn, Keys!Publish
\* What an event sent to the loop must not break.
<1>4. ASSUME NEW kind \in Keys!Statuses \cup {"closed", "changed", "reconfigure"},
             NEW before \in Seq(Keys!Events), NEW after, after = Append(before, Keys!Event(kind)),
             \A i \in DOMAIN before : before[i].gen <= s10
      PROVE  /\ after \in Seq(Keys!Events) /\ \A i \in DOMAIN after : after[i].gen <= s10
             /\ \A i \in DOMAIN after :
                  (i \in DOMAIN before /\ after[i] = before[i]) \/ after[i] = Keys!Event(kind)
             /\ \A i \in DOMAIN before : i \in DOMAIN after /\ after[i] = before[i]
             /\ \E i \in DOMAIN after : after[i] = Keys!Event(kind)
  <2>1. Keys!Event(kind) \in Keys!Events /\ Keys!Event(kind).gen = s10
    BY <1>2 DEF Keys!Event, Keys!Events
  <2>2. PICK n \in Nat :
          /\ DOMAIN after = DOMAIN before \cup {n}
          /\ \A i \in DOMAIN before : i \in Nat /\ i < n /\ after[i] = before[i]
          /\ after[n] = Keys!Event(kind)
    BY <1>4, <2>1, Queued
  <2>3. after \in Seq(Keys!Events)
    BY <1>4, <2>1
  <2>4. QED
    BY <1>2, <1>4, <2>1, <2>2, <2>3
\* A step that leaves the loop, the queue and the listener's place alone.
<1>5. ASSUME UNCHANGED <<s6, s7, s10, s9, s8>>,
             s11' = s11 \/ (s11 = "armed" /\ s11' = "changed"),
             \/ s5'.at = s5.at /\ (s5.at = "none" => s5' = s5)
             \/ s5.at \in Keys!Starting /\ s5'.at \in Keys!Starting
             \/ s5.at \in Keys!Running /\ s5'.at \in Keys!Running
      PROVE  Keys!Supervising'
  BY <1>1, <1>2, <1>3, <1>5 DEF Keys!Supervising, Keys!RecoveryIsArmed, Keys!Listeners
\* The same for a step of the listener's thread that tells the loop something.
<1>6. ASSUME NEW kind \in Keys!Statuses, s7' = Append(s7, Keys!Event(kind)),
             UNCHANGED <<s6, s10, s9, s8, s11>>,
             s5.at \in Keys!Running, s5'.at \in Keys!Running
      PROVE  Keys!Supervising'
  <2>1. \A i \in DOMAIN s7 : s7[i].gen <= s10
    BY DEF Keys!Supervising
  <2>2. /\ s7' \in Seq(Keys!Events) /\ \A i \in DOMAIN s7' : s7'[i].gen <= s10
        /\ \A i \in DOMAIN s7' :
             (i \in DOMAIN s7 /\ s7'[i] = s7[i]) \/ s7'[i] = Keys!Event(kind)
        /\ \A i \in DOMAIN s7 : i \in DOMAIN s7' /\ s7'[i] = s7[i]
    BY <1>2, <1>4, <1>6, <2>1
  <2>3. \A i \in DOMAIN s7' : ~(s7'[i].kind = "closed" /\ s7'[i].gen = s10)
    <3>1. Keys!Event(kind).kind # "closed"
      BY <1>6 DEF Keys!Event, Keys!Statuses
    <3>2. s5.at # "none"
      BY <1>6
    <3>3. \A i \in DOMAIN s7 : ~(s7[i].kind = "closed" /\ s7[i].gen = s10)
      BY <3>2 DEF Keys!Supervising
    <3>4. s10' = s10
      BY <1>6
    <3>5. QED
      BY <2>2, <3>1, <3>3, <3>4
  <2>4. QED
    BY <1>1, <1>2, <1>3, <1>6, <2>2, <2>3 DEF Keys!Supervising, Keys!RecoveryIsArmed
<1>7. CASE \E k \in Devices : Keys!Appear(k) \/ Keys!Permit(k)
  BY <1>5, <1>7 DEF Keys!Appear, Keys!Permit, Keys!Change
<1>8. ASSUME NEW k \in Devices, Keys!Unplug(k) PROVE Keys!Supervising'
  <2>1. s5.at = "none" => s5' = s5
    <3>1. Keys!HungUp(k, {}) = {}
      BY DEF Keys!HungUp
    <3>2. ASSUME s5.at = "none"
          PROVE  s5 = [Keys!NoListener EXCEPT !.reply = s5.reply]
      BY <3>2 DEF Keys!Supervising
    <3>3. QED
      BY <1>8, <3>1, <3>2 DEF Keys!Unplug, Keys!NoListener
  <2>2. s5'.at = s5.at
    BY <1>2, <1>8 DEF Keys!Unplug, Keys!Listeners
  <2>3. QED
    BY <1>5, <1>8, <2>1, <2>2 DEF Keys!Unplug, Keys!Change
<1>9. ASSUME Keys!StartFailed, s6 = "starting", s7' = s7 PROVE Keys!Supervising'
  <2>1. s5' = Keys!NoListener /\ s5'.at = "none"
        /\ s5' = [Keys!NoListener EXCEPT !.reply = s5'.reply]
    BY <1>9 DEF Keys!StartFailed, Keys!NoListener
  <2>2. ~s9 /\ UNCHANGED <<s9, s10>> /\ s6' = "arming"
    BY <1>9 DEF Keys!StartFailed, Keys!Supervising
  <2>3. QED
    BY <1>1, <1>2, <1>3, <1>9, <2>1, <2>2 DEF Keys!Supervising, Keys!RecoveryIsArmed
<1>10. CASE Keys!InstallWatch \/ Keys!Scan
  <2>1. CASE Keys!StartFailed
    BY <1>9, <1>10, <2>1 DEF Keys!InstallWatch, Keys!Scan
  <2>2. CASE ~Keys!StartFailed
    <3>1. s5.at \in Keys!Starting /\ s5'.at \in Keys!Starting
      BY <1>2, <1>10, <2>2 DEF Keys!InstallWatch, Keys!Scan, Keys!Listeners
    <3>2. QED
      BY <1>5, <1>10, <2>2, <3>1 DEF Keys!InstallWatch, Keys!Scan, Keys!dispatch
  <2>3. QED
    BY <2>1, <2>2
<1>11. ASSUME NEW k \in Devices, Keys!OpenKeyboard(k) PROVE Keys!Supervising'
  <2>1. s5'.at = s5.at
    BY <1>2, <1>11 DEF Keys!OpenKeyboard, Keys!Opened, Keys!Listeners
  <2>2. s5.at # "none"
    BY <1>11 DEF Keys!OpenKeyboard, Keys!Supervising, Keys!NoListener
  <2>3. QED
    BY <1>5, <1>11, <2>1, <2>2 DEF Keys!OpenKeyboard, Keys!dispatch
<1>12. CASE Keys!Started
  <2>1. s5'.at = "poll" /\ s5.at = "first" /\ UNCHANGED <<s7, s10, s8, s11>>
    BY <1>2, <1>12 DEF Keys!Started, Keys!Listeners
  <2>2. s9' = TRUE /\ s6' = "loop"
    BY <1>12 DEF Keys!Started
  <2>3. QED
    BY <1>1, <1>2, <1>3, <2>1, <2>2 DEF Keys!Supervising, Keys!RecoveryIsArmed
<1>13. CASE Keys!Arm
  <2>1. /\ s6 = "arming" /\ s6' = "loop" /\ s11' \in {"armed", "broken"}
        /\ UNCHANGED <<s5, s7, s8, s9, s10>>
    BY <1>13 DEF Keys!Arm
  <2>2. QED
    BY <1>1, <1>2, <1>3, <2>1 DEF Keys!Supervising, Keys!RecoveryIsArmed
<1>14. CASE Keys!Recover
  <2>1. /\ s7' = Append(s7, Keys!Event("changed"))
        /\ UNCHANGED <<s5, s6, s8, s9, s10>>
    BY <1>14 DEF Keys!Recover
  <2>2. \A i \in DOMAIN s7 : s7[i].gen <= s10
    BY DEF Keys!Supervising
  <2>3. /\ s7' \in Seq(Keys!Events) /\ \A i \in DOMAIN s7' : s7'[i].gen <= s10
        /\ \A i \in DOMAIN s7' :
             (i \in DOMAIN s7 /\ s7'[i] = s7[i]) \/ s7'[i] = Keys!Event("changed")
        /\ \E i \in DOMAIN s7' : s7'[i] = Keys!Event("changed")
    BY <1>2, <1>4, <2>1, <2>2
  <2>4. Keys!Event("changed").kind = "changed" /\ Keys!Event("changed").gen = s10
    BY DEF Keys!Event
  <2>5. \A i \in DOMAIN s7' :
          s7'[i].kind = "closed" /\ s7'[i].gen = s10' => s5'.at = "none"
    BY <2>1, <2>3, <2>4 DEF Keys!Supervising
  <2>6. Keys!RecoveryIsArmed'
    BY <2>1, <2>3, <2>4 DEF Keys!RecoveryIsArmed
  <2>7. QED
    BY <1>1, <1>2, <1>3, <2>1, <2>3, <2>5, <2>6 DEF Keys!Supervising
<1>15. CASE Keys!Poll \/ Keys!Commands \/ Keys!Readiness \/ Keys!Drain
  <2>1. s5.at \in Keys!Running /\ s5'.at \in Keys!Running
    BY <1>2, <1>15 DEF Keys!Poll, Keys!Commands, Keys!Readiness, Keys!Drain, Keys!Listeners
  <2>2. QED
    BY <1>5, <1>15, <2>1 DEF Keys!Poll, Keys!Commands, Keys!Readiness, Keys!Drain, Keys!workerFrame
<1>16. ASSUME NEW kind \in Keys!Statuses, s7' = s7 \/ s7' = Append(s7, Keys!Event(kind)),
              Keys!workerFrame, s5.at \in Keys!Running, s5'.at \in Keys!Running
       PROVE  Keys!Supervising'
  BY <1>5, <1>6, <1>16 DEF Keys!workerFrame
<1>17. Keys!StatusOf(s5.open) \in Keys!Statuses
  BY DEF Keys!StatusOf, Keys!Statuses
<1>18. CASE Keys!Rescan \/ Keys!Decide
  <2>1. s5.at \in Keys!Running /\ s5'.at \in Keys!Running
    BY <1>2, <1>18 DEF Keys!Rescan, Keys!Decide, Keys!Refuse, Keys!Accept, Keys!Listeners
  <2>2. \E kind \in Keys!Statuses : s7' = s7 \/ s7' = Append(s7, Keys!Event(kind))
    BY <1>17, <1>18 DEF Keys!Rescan, Keys!Decide, Keys!Refuse, Keys!Statuses
  <2>3. Keys!workerFrame
    BY <1>18 DEF Keys!Rescan, Keys!Decide
  <2>4. QED
    BY <1>16, <2>1, <2>2, <2>3
<1>19. CASE Keys!Discover \/ Keys!Report
  <2>1. s5.at \in Keys!Running /\ s5'.at \in Keys!Running
    BY <1>2, <1>19 DEF Keys!Discover, Keys!Report, Keys!Listeners
  <2>2. \E kind \in Keys!Statuses : s7' = s7 \/ s7' = Append(s7, Keys!Event(kind))
    BY <1>17, <1>19 DEF Keys!Discover, Keys!Report, Keys!Statuses
  <2>3. Keys!workerFrame
    BY <1>19 DEF Keys!Discover, Keys!Report
  <2>4. QED
    BY <1>16, <2>1, <2>2, <2>3
<1>20. CASE Keys!WorkerEnds
  <2>1. PICK told : /\ told = IF s1 = "linux" THEN Append(s7, Keys!Event("discovery failed"))
                              ELSE s7
                    /\ s7' = Append(told, Keys!Event("closed"))
    BY <1>20 DEF Keys!WorkerEnds
  <2>2. \A i \in DOMAIN s7 : s7[i].gen <= s10
    BY DEF Keys!Supervising
  <2>3. told \in Seq(Keys!Events) /\ \A i \in DOMAIN told : told[i].gen <= s10
    BY <1>2, <1>4, <2>1, <2>2 DEF Keys!Statuses
  <2>4. s7' \in Seq(Keys!Events) /\ \A i \in DOMAIN s7' : s7'[i].gen <= s10
    BY <1>4, <2>1, <2>3
  <2>5. s5' = [Keys!NoListener EXCEPT !.reply = s5.reply]
    BY <1>20 DEF Keys!WorkerEnds
  <2>6. s5'.at = "none" /\ s5' = [Keys!NoListener EXCEPT !.reply = s5'.reply]
    BY <2>5 DEF Keys!NoListener
  <2>7. s9 /\ s6 \in {"loop", "asking"} /\ UNCHANGED <<s9, s6, s10>>
    BY <1>20 DEF Keys!WorkerEnds, Keys!workerFrame, Keys!Supervising
  <2>8. QED
    BY <1>1, <1>2, <1>3, <2>4, <2>6, <2>7 DEF Keys!Supervising, Keys!RecoveryIsArmed
<1>21. ASSUME NEW shortcut \in Shortcuts, Keys!Ask(shortcut) PROVE Keys!Supervising'
  <2>1. /\ s7' = Append(s7, Keys!Event("reconfigure"))
        /\ UNCHANGED <<s5, s6, s8, s9, s10, s11>>
    BY <1>21 DEF Keys!Ask
  <2>2. \A i \in DOMAIN s7 : s7[i].gen <= s10
    BY DEF Keys!Supervising
  <2>3. /\ s7' \in Seq(Keys!Events) /\ \A i \in DOMAIN s7' : s7'[i].gen <= s10
        /\ \A i \in DOMAIN s7' :
             (i \in DOMAIN s7 /\ s7'[i] = s7[i]) \/ s7'[i] = Keys!Event("reconfigure")
        /\ \A i \in DOMAIN s7 : i \in DOMAIN s7' /\ s7'[i] = s7[i]
    BY <1>2, <1>4, <2>1, <2>2
  <2>4. Keys!Event("reconfigure").kind = "reconfigure"
    BY DEF Keys!Event
  <2>5. \A i \in DOMAIN s7' :
          s7'[i].kind = "closed" /\ s7'[i].gen = s10' => s5'.at = "none"
    BY <2>1, <2>3, <2>4 DEF Keys!Supervising
  <2>6. Keys!RecoveryIsArmed'
    BY <2>1, <2>3 DEF Keys!RecoveryIsArmed, Keys!Supervising
  <2>7. QED
    BY <1>1, <1>2, <1>3, <2>1, <2>3, <2>5, <2>6 DEF Keys!Supervising
<1>22. CASE Keys!Reply
  <2>1. /\ s6 = "asking" /\ s6' = "loop" /\ UNCHANGED <<s7, s9, s10, s11>>
        /\ s9 /\ s5'.at = s5.at
    BY <1>2, <1>22 DEF Keys!Reply, Keys!Supervising, Keys!Listeners
  <2>2. s5.at = "none" => s5' = [Keys!NoListener EXCEPT !.reply = s5'.reply]
    <3>1. ASSUME s5.at = "none"
          PROVE  s5 = [Keys!NoListener EXCEPT !.reply = s5.reply]
      BY <3>1 DEF Keys!Supervising
    <3>2. s5' = s5 \/ s5' = [s5 EXCEPT !.reply = "none"]
      BY <1>22 DEF Keys!Reply
    <3>3. QED
      BY <3>1, <3>2 DEF Keys!NoListener
  <2>3. QED
    BY <1>1, <1>2, <1>3, <2>1, <2>2 DEF Keys!Supervising, Keys!RecoveryIsArmed
<1>23. CASE Keys!Learn \/ Keys!Publish
  BY <1>5, <1>23 DEF Keys!Learn, Keys!Publish, Keys!dispatch
<1>24. CASE Keys!TakeEvent
  <2>1. /\ s7' \in Seq(Keys!Events) /\ 1 \in DOMAIN s7 /\ s7[1] = Head(s7)
        /\ \A i \in DOMAIN s7' :
             i \in Nat /\ i + 1 \in DOMAIN s7 /\ i + 1 > 1 /\ s7'[i] = s7[i + 1]
        /\ \A i \in DOMAIN s7 : i # 1 => \E k \in DOMAIN s7' : i = k + 1
    <3>1. s7 # <<>> /\ s7' = Tail(s7)
      BY <1>24 DEF Keys!TakeEvent
    <3>2. QED
      BY <1>2, <3>1, Unqueued
  <2>2. \A i \in DOMAIN s7' : s7'[i].gen <= s10
    BY <2>1 DEF Keys!Supervising
  <2>3. s6 = "loop" /\ s5.at \notin Keys!Starting
    BY <1>24 DEF Keys!TakeEvent, Keys!Supervising
  <2>4. ASSUME UNCHANGED <<s6, s8, s9, s10, s11, s5>>,
               ~(Head(s7).kind = "changed" /\ Head(s7).gen = s10 /\ ~s9 /\ s8 # Keys!NoSpec)
        PROVE  Keys!Supervising'
    <3>1. Keys!RecoveryIsArmed'
      BY <2>1, <2>4 DEF Keys!RecoveryIsArmed, Keys!Supervising
    <3>2. \A i \in DOMAIN s7' : s7'[i].kind = "closed" /\ s7'[i].gen = s10'
                                       => s5'.at = "none"
      BY <2>1, <2>4 DEF Keys!Supervising
    <3>3. QED
      BY <1>1, <1>2, <1>3, <2>1, <2>2, <2>4, <3>1, <3>2 DEF Keys!Supervising
  <2>5. CASE ~Keys!Current(Head(s7)) \/ (Head(s7).kind = "changed" /\ (s9 \/ s8 = Keys!NoSpec))
    <3>1. UNCHANGED <<s6, s8, s9, s10, s11, s5>>
      BY <1>24, <2>5 DEF Keys!TakeEvent, Keys!dispatch, Keys!Current
    <3>2. QED
      BY <2>4, <2>5, <3>1 DEF Keys!Current
  <2>6. CASE Keys!Current(Head(s7))
               /\ Head(s7).kind \in {"ready", "unavailable", "discovery failed"}
    <3>1. UNCHANGED <<s6, s8, s9, s10, s11, s5>>
      BY <1>24, <2>6 DEF Keys!TakeEvent, Keys!dispatch, Keys!Current
    <3>2. QED
      BY <2>4, <2>6, <3>1
  <2>7. CASE Keys!Current(Head(s7)) /\ Head(s7).kind = "closed"
    <3>1. s9' = FALSE /\ s6' = "arming" /\ UNCHANGED <<s5, s8, s10, s11>>
      BY <1>24, <2>7 DEF Keys!TakeEvent
    <3>2. s5.at = "none"
      BY <2>1, <2>7 DEF Keys!Supervising, Keys!Current
    <3>3. QED
      BY <1>1, <1>2, <1>3, <2>1, <2>2, <3>1, <3>2 DEF Keys!Supervising, Keys!RecoveryIsArmed
  <2>8. CASE /\ Keys!Current(Head(s7)) /\ Head(s7).kind = "changed"
             /\ ~s9 /\ s8 # Keys!NoSpec
    <3>1. /\ s10' = s10 + 1 /\ s6' = "starting" /\ UNCHANGED <<s8, s9, s11>>
          /\ s5' = [Keys!NoListener EXCEPT !.at = "install", !.spec = s8]
      BY <1>24, <2>8 DEF Keys!TakeEvent, Keys!Current
    <3>2. s5'.at = "install"
      BY <3>1 DEF Keys!NoListener
    <3>3. ASSUME NEW i \in DOMAIN s7' PROVE s7'[i].gen \in Nat /\ s7'[i].gen <= s10
      <4>1. s7'[i] \in Keys!Events
        BY <2>1
      <4>2. s7'[i].gen \in Nat
        BY <4>1 DEF Keys!Events
      <4>3. QED
        BY <2>2, <4>2
    <3>4. s10' \in Nat /\ \A i \in DOMAIN s7' : s7'[i].gen <= s10' /\ s7'[i].gen # s10'
      BY <1>2, <3>1, <3>3
    <3>5. QED
      BY <1>1, <1>2, <1>3, <2>1, <2>3, <2>8, <3>1, <3>2, <3>4 DEF Keys!Supervising,
         Keys!RecoveryIsArmed
  <2>9. CASE Head(s7).kind = "reconfigure" /\ ~s9
    <3>1. UNCHANGED <<s6, s8, s9, s10, s11, s5>>
      BY <1>24, <2>9 DEF Keys!TakeEvent, Keys!Current
    <3>2. QED
      BY <2>4, <2>9, <3>1
  <2>10. CASE Head(s7).kind = "reconfigure" /\ s9
    <3>1. /\ s6' = "asking" /\ UNCHANGED <<s8, s9, s10, s11>>
          /\ s5' = IF s5.at = "none" THEN s5
                   ELSE [s5 EXCEPT !.command = s12.spec]
      BY <1>24, <2>10 DEF Keys!TakeEvent, Keys!Current
    <3>2. s5'.at = s5.at /\ (s5.at = "none" => s5' = s5)
      BY <1>2, <3>1 DEF Keys!Listeners
    <3>3. \A i \in DOMAIN s7' : s7'[i].kind = "closed" /\ s7'[i].gen = s10'
                                       => s5'.at = "none"
      BY <2>1, <3>1, <3>2 DEF Keys!Supervising
    <3>4. QED
      BY <1>1, <1>2, <1>3, <2>1, <2>2, <2>3, <2>10, <3>1, <3>2, <3>3 DEF Keys!Supervising,
         Keys!RecoveryIsArmed
  <2>11. QED
    BY <1>24, <2>5, <2>6, <2>7, <2>8, <2>9, <2>10 DEF Keys!TakeEvent
<1>25. QED
  BY <1>7, <1>8, <1>10, <1>11, <1>12, <1>13, <1>14, <1>15, <1>18, <1>19, <1>20, <1>21, <1>22,
     <1>23, <1>24 DEF Keys!Next, Keys!Environment, Keys!Worker, Keys!Supervisor

\* Every step keeps what the loop, the listener and the settings know of the shortcut
\* in agreement.
LEMMA AgreeingStep ==
  ASSUME Keys!Supervising, Keys!Agreeing, Keys!Reporting, Keys!Hearing, Keys!Next
  PROVE  Keys!Agreeing'
<1> USE ShortcutsAssumption
<1> USE DEF Keys!Starting, Keys!Running
<1>1. s5' \in Keys!Listeners /\ s5 \in Keys!Listeners /\ s7 \in Seq(Keys!Events)
  BY ListenerTyped DEF Keys!Supervising
<1>2. /\ s8 \in Shortcuts \cup {Keys!NoSpec}
      /\ s15 \in [agreed : Shortcuts \cup {Keys!NoSpec}, blinked : SUBSET Devices, lost : BOOLEAN]
      /\ s12 \in [spec : Shortcuts \cup {Keys!NoSpec}, answer : {"none", "accepted", "rejected"}]
  BY DEF Keys!Agreeing
<1>3. /\ s6 = "starting" <=> s5.at \in Keys!Starting
      /\ s5.at = "none" => s5.command = Keys!NoSpec
  BY DEF Keys!Supervising, Keys!NoListener
\* What is sent to the loop, except for a request, asks nothing of it.
<1>4. ASSUME NEW kind \in Keys!Statuses \cup {"closed", "changed"}, NEW before \in Seq(Keys!Events),
             NEW after, after = Append(before, Keys!Event(kind))
      PROVE  /\ after \in Seq(Keys!Events)
             /\ \A i \in DOMAIN after : after[i].kind = "reconfigure" =>
                  i \in DOMAIN before /\ before[i].kind = "reconfigure"
  <2>1. Keys!Event(kind) \in Keys!Events /\ Keys!Event(kind).kind # "reconfigure"
    BY DEF Keys!Event, Keys!Events, Keys!Statuses, Keys!Supervising
  <2>2. PICK n \in Nat :
          /\ DOMAIN after = DOMAIN before \cup {n}
          /\ \A i \in DOMAIN before : i \in Nat /\ i < n /\ after[i] = before[i]
          /\ after[n] = Keys!Event(kind)
    BY <1>4, <2>1, Queued
  <2>3. after \in Seq(Keys!Events)
    BY <1>4, <2>1
  <2>4. QED
    BY <2>1, <2>2, <2>3
<1>5. ASSUME NEW kind \in Keys!Statuses
               \cup {"closed", "changed"}, s7' = Append(s7, Keys!Event(kind))
      PROVE  \A i \in DOMAIN s7' : Keys!Asked(i)' => i \in DOMAIN s7 /\ Keys!Asked(i)
  BY <1>1, <1>4, <1>5 DEF Keys!Asked
<1>6. Keys!StatusOf(s5.open) \in Keys!Statuses
  BY DEF Keys!StatusOf, Keys!Statuses
\* A step that has no part in a request.
<1>7. ASSUME UNCHANGED <<s8, s12>>, s6' = s6 \/ "asking" \notin {s6, s6'},
             s15' \in [agreed : Shortcuts \cup {Keys!NoSpec}, blinked : SUBSET Devices,
                 lost : BOOLEAN],
             s15'.agreed = s15.agreed,
             \A i \in DOMAIN s7' : Keys!Asked(i)' => i \in DOMAIN s7 /\ Keys!Asked(i),
             s5'.command = s5.command, s5'.reply = s5.reply,
             s5'.at # "none" => s5.at # "none" /\ s5'.spec = s5.spec,
             \/ s5'.at \in {"rescan", "reopening"}
             \/ s5'.at = "commands" /\ s5'.seen.control
             => s5'.command # Keys!NoSpec
      PROVE  Keys!Agreeing'
  BY <1>2, <1>7 DEF Keys!Agreeing
<1>8. \A k \in Devices :
        /\ [s15 EXCEPT !.blinked = @ \cup {k}] \in
             [agreed : Shortcuts \cup {Keys!NoSpec}, blinked : SUBSET Devices, lost : BOOLEAN]
        /\ [s15 EXCEPT !.blinked = @ \cup {k}].agreed = s15.agreed
        /\ [s15 EXCEPT !.blinked = @ \ {k}] \in
             [agreed : Shortcuts \cup {Keys!NoSpec}, blinked : SUBSET Devices, lost : BOOLEAN]
        /\ [s15 EXCEPT !.blinked = @ \ {k}].agreed = s15.agreed
  BY <1>2
<1>9. s7' = s7 => \A i \in DOMAIN s7' : Keys!Asked(i)' => i \in DOMAIN s7 /\ Keys!Asked(i)
  BY DEF Keys!Asked
\* The listener's place in a round, and whether the round answers a request.
<1>10. ASSUME s5'.at = s5.at, s5'.seen = s5.seen,
              s5'.command = s5.command
       PROVE  \/ s5'.at \in {"rescan", "reopening"}
              \/ s5'.at = "commands" /\ s5'.seen.control
              => s5'.command # Keys!NoSpec
  BY <1>10 DEF Keys!Agreeing
<1>11. CASE \E k \in Devices : Keys!Appear(k) \/ Keys!Permit(k) \/ Keys!Unplug(k)
  <2>1. PICK k \in Devices : Keys!Appear(k) \/ Keys!Permit(k) \/ Keys!Unplug(k)
    BY <1>11
  <2>2. UNCHANGED <<s6, s7, s8, s12>>
    BY <2>1 DEF Keys!Appear, Keys!Permit, Keys!Unplug, Keys!Change
  <2>3. /\ s15' \in [agreed : Shortcuts \cup {Keys!NoSpec}, blinked : SUBSET Devices,
               lost : BOOLEAN]
        /\ s15'.agreed = s15.agreed
    BY <1>2, <1>8, <2>1 DEF Keys!Appear, Keys!Permit, Keys!Unplug
  <2>4. /\ s5'.at = s5.at /\ s5'.seen = s5.seen
        /\ s5'.command = s5.command /\ s5'.reply = s5.reply
        /\ s5'.spec = s5.spec
    BY <1>1, <2>1 DEF Keys!Appear, Keys!Permit, Keys!Unplug, Keys!Listeners
  <2>5. QED
    BY <1>7, <1>9, <1>10, <2>2, <2>3, <2>4
<1>12. ASSUME UNCHANGED <<s7, s8, s12, s15>>, "asking" \notin {s6, s6'}, Keys!StartFailed
       PROVE  Keys!Agreeing'
  <2>1. s5.command = Keys!NoSpec /\ s5.reply = "none"
    BY <1>1, <1>12 DEF Keys!Agreeing, Keys!Listeners
  <2>2. s5'.at = "none" /\ s5'.command = Keys!NoSpec /\ s5'.reply = "none"
    BY <1>12 DEF Keys!StartFailed, Keys!NoListener
  <2>3. QED
    BY <1>2, <1>7, <1>9, <1>12, <2>1, <2>2
<1>13. CASE Keys!InstallWatch \/ Keys!Scan \/ Keys!Started
  <2>1. s6 = "starting" /\ UNCHANGED <<s7, s8, s12, s15>>
    BY <1>13 DEF Keys!InstallWatch, Keys!Scan, Keys!Started, Keys!dispatch, Keys!StartFailed
  <2>2. CASE Keys!StartFailed
    BY <1>12, <2>1, <2>2 DEF Keys!StartFailed
  <2>3. CASE ~Keys!StartFailed
    <3>1. /\ \/ s5' = [s5 EXCEPT !.at = "scan"]
             \/ s5' = [s5 EXCEPT !.at = "first", !.open = {Keys!Handle(Keys!Hook)}]
             \/ s5' = [s5 EXCEPT !.at = "first", !.todo = Keys!Discovered(s5.spec)]
             \/ s5' = [s5 EXCEPT !.at = "poll"]
          /\ s5.at # "none" /\ s6' \in {"starting", "loop"}
      BY <1>13, <2>1, <2>3 DEF Keys!InstallWatch, Keys!Scan, Keys!Started, Keys!dispatch
    <3>3. /\ s5'.at \in {"scan", "first", "poll"}
          /\ s5'.command = s5.command /\ s5'.reply = s5.reply
          /\ s5'.spec = s5.spec
      <4>1. CASE s5' = [s5 EXCEPT !.at = "scan"]
        BY <1>1, <4>1 DEF Keys!Listeners
      <4>2. CASE s5' = [s5 EXCEPT !.at = "first", !.open = {Keys!Handle(Keys!Hook)}]
        BY <1>1, <4>2 DEF Keys!Listeners
      <4>3. CASE s5' = [s5 EXCEPT !.at = "first", !.todo = Keys!Discovered(s5.spec)]
        BY <1>1, <4>3 DEF Keys!Listeners
      <4>4. CASE s5' = [s5 EXCEPT !.at = "poll"]
        BY <1>1, <4>4 DEF Keys!Listeners
      <4>5. QED
        BY <3>1, <4>1, <4>2, <4>3, <4>4
    <3>2. QED
      BY <1>2, <1>7, <1>9, <2>1, <3>1, <3>3
  <2>4. QED
    BY <2>2, <2>3
<1>14. ASSUME NEW k \in Devices, Keys!OpenKeyboard(k) PROVE Keys!Agreeing'
  <2>1. UNCHANGED <<s6, s7, s8, s12>>
    BY <1>14 DEF Keys!OpenKeyboard, Keys!dispatch
  <2>2. /\ s15' \in [agreed : Shortcuts \cup {Keys!NoSpec}, blinked : SUBSET Devices,
               lost : BOOLEAN]
        /\ s15'.agreed = s15.agreed
    BY <1>2, <1>8, <1>14 DEF Keys!OpenKeyboard
  <2>3. /\ s5'.at = s5.at /\ s5'.seen = s5.seen
        /\ s5'.command = s5.command /\ s5'.reply = s5.reply
        /\ s5'.spec = s5.spec
    BY <1>1, <1>14 DEF Keys!OpenKeyboard, Keys!Opened, Keys!Listeners
  <2>4. QED
    BY <1>7, <1>9, <1>10, <2>1, <2>2, <2>3
<1>15. CASE Keys!Arm
  <2>1. /\ UNCHANGED <<s5, s7, s8, s12, s15>> /\ "asking" \notin {s6, s6'}
    BY <1>15 DEF Keys!Arm
  <2>2. QED
    BY <1>2, <1>7, <1>9, <1>10, <2>1
<1>16. CASE Keys!Recover
  <2>1. /\ UNCHANGED <<s5, s6, s8, s12, s15>>
        /\ s7' = Append(s7, Keys!Event("changed"))
    BY <1>16 DEF Keys!Recover
  <2>2. \A i \in DOMAIN s7' : Keys!Asked(i)' => i \in DOMAIN s7 /\ Keys!Asked(i)
    BY <1>5, <2>1
  <2>3. QED
    BY <1>2, <1>7, <1>10, <2>1, <2>2
<1>17. CASE Keys!Publish
  <2>1. UNCHANGED <<s5, s6, s7, s8, s12>>
    BY <1>17 DEF Keys!Publish, Keys!dispatch
  <2>2. /\ s15' \in [agreed : Shortcuts \cup {Keys!NoSpec}, blinked : SUBSET Devices,
               lost : BOOLEAN]
        /\ s15'.agreed = s15.agreed
    BY <1>2, <1>17 DEF Keys!Publish
  <2>3. QED
    BY <1>7, <1>9, <1>10, <2>1, <2>2
\* The listener's rounds.
<1>18. ASSUME Keys!workerFrame,
              s7' = s7 \/ \E kind \in Keys!Statuses : s7' = Append(s7, Keys!Event(kind)),
              s5'.command = s5.command, s5'.reply = s5.reply,
              s5'.spec = s5.spec, s5.at # "none",
              \/ s5'.at \in {"rescan", "reopening"}
              \/ s5'.at = "commands" /\ s5'.seen.control
              => s5'.command # Keys!NoSpec
       PROVE  Keys!Agreeing'
  <2>1. \A i \in DOMAIN s7' : Keys!Asked(i)' => i \in DOMAIN s7 /\ Keys!Asked(i)
    BY <1>5, <1>9, <1>18
  <2>2. UNCHANGED <<s6, s8, s12, s15>>
    BY <1>18 DEF Keys!workerFrame
  <2>3. QED
    BY <1>2, <1>7, <1>18, <2>1, <2>2
<1>19. CASE Keys!Poll
  <2>1. /\ s5'.command = s5.command /\ s5'.reply = s5.reply
        /\ s5'.spec = s5.spec /\ s5.at # "none" /\ s5'.at = "commands"
        /\ (s5'.seen.control <=> s5.command # Keys!NoSpec)
    <3>1. PICK seen : /\ seen.control <=> s5.command # Keys!NoSpec
                      /\ s5' = [s5 EXCEPT !.at = "commands", !.seen = seen]
                      /\ s5.at = "poll"
      BY <1>19 DEF Keys!Poll
    <3>2. QED
      BY <1>1, <3>1 DEF Keys!Listeners
  <2>2. Keys!workerFrame /\ s7' = s7
    BY <1>19 DEF Keys!Poll
  <2>3. QED
    BY <1>18, <2>1, <2>2
<1>20. CASE Keys!Commands
  <2>1. /\ s5'.command = s5.command /\ s5'.reply = s5.reply
        /\ s5'.spec = s5.spec /\ s5.at # "none" /\ s5'.at \in {"rescan", "devices"}
        /\ (s5'.at = "rescan" => s5.command # Keys!NoSpec)
    BY <1>1, <1>20 DEF Keys!Commands, Keys!Listeners, Keys!Agreeing
  <2>2. Keys!workerFrame /\ s7' = s7
    BY <1>20 DEF Keys!Commands
  <2>3. QED
    BY <1>18, <2>1, <2>2
<1>21. CASE Keys!Readiness \/ Keys!Drain \/ Keys!Discover \/ Keys!Report
  <2>1. /\ s5'.command = s5.command /\ s5'.reply = s5.reply
        /\ s5'.spec = s5.spec /\ s5.at # "none"
        /\ s5'.at \in {"drain", "discover", "status", "poll"}
    <3>1. CASE Keys!Readiness
      <4>1. PICK size, kept, at :
              /\ at \in {"drain", "status"} /\ s5.at = "devices"
              /\ s5' = [s5 EXCEPT !.before = size, !.open = kept, !.at = at]
        BY <3>1 DEF Keys!Readiness
      <4>2. QED
        BY <1>1, <4>1 DEF Keys!Listeners
    <3>2. CASE Keys!Drain
      <4>1. s5.at = "drain" /\ s5' = [s5 EXCEPT !.at = "discover"]
        BY <3>2 DEF Keys!Drain
      <4>2. QED
        BY <1>1, <4>1 DEF Keys!Listeners
    <3>3. CASE Keys!Discover
      <4>1. /\ s5.at = "discover"
            /\ \/ \E kept, left : s5' = [s5 EXCEPT !.at = "status", !.open = kept,
                                                   !.blind = FALSE, !.todo = left]
               \/ s5' = [s5 EXCEPT !.at = "status", !.blind = TRUE]
        BY <3>3 DEF Keys!Discover
      <4>2. ASSUME NEW kept, NEW left,
                   s5' = [s5 EXCEPT !.at = "status", !.open = kept,
                                    !.blind = FALSE, !.todo = left]
            PROVE  /\ s5'.command = s5.command /\ s5'.reply = s5.reply
                   /\ s5'.spec = s5.spec /\ s5'.at = "status"
        BY <1>1, <4>2 DEF Keys!Listeners
      <4>3. CASE s5' = [s5 EXCEPT !.at = "status", !.blind = TRUE]
        BY <1>1, <4>1, <4>3 DEF Keys!Listeners
      <4>4. QED
        BY <4>1, <4>2, <4>3
    <3>4. CASE Keys!Report
      BY <1>1, <3>4 DEF Keys!Report, Keys!Listeners
    <3>5. QED
      BY <1>21, <3>1, <3>2, <3>3, <3>4
  <2>2. Keys!workerFrame
    BY <1>21 DEF Keys!Readiness, Keys!Drain, Keys!Discover, Keys!Report
  <2>3. s7' = s7 \/ \E kind \in Keys!Statuses : s7' = Append(s7, Keys!Event(kind))
    BY <1>6, <1>21 DEF Keys!Readiness, Keys!Drain, Keys!Discover, Keys!Report, Keys!Statuses
  <2>4. QED
    BY <1>18, <2>1, <2>2, <2>3
\* The listener's answer.
<1>22. ASSUME s5.at \in {"rescan", "reopening"}, Keys!workerFrame,
              s7' = s7 \/ \E kind \in Keys!Statuses : s7' = Append(s7, Keys!Event(kind)),
              s5'.at = "devices", s5'.command = Keys!NoSpec,
              \/ s5'.reply = "rejected" /\ s5'.spec = s5.spec
              \/ s5'.reply = "accepted" /\ s5'.spec = s5.command
       PROVE  Keys!Agreeing'
  <2>1. \A i \in DOMAIN s7' : Keys!Asked(i)' => i \in DOMAIN s7 /\ Keys!Asked(i)
    BY <1>5, <1>9, <1>22
  <2>2. UNCHANGED <<s6, s8, s12, s15>>
    BY <1>22 DEF Keys!workerFrame
  <2>3. s6 = "asking" /\ s5.command = s12.spec /\ s5.reply = "none"
    BY <1>22 DEF Keys!Agreeing
  <2>4. s12.spec \in Shortcuts /\ s12.answer = "none" /\ s5.spec \in Shortcuts
        /\ s5.spec = s8
    BY <1>22, <2>3 DEF Keys!Agreeing
  <2>5. QED
    BY <1>2, <1>22, <2>1, <2>2, <2>3, <2>4 DEF Keys!Agreeing
<1>23. CASE Keys!Rescan \/ Keys!Decide
  <2>1. s5.at \in {"rescan", "reopening"} /\ Keys!workerFrame
    BY <1>23 DEF Keys!Rescan, Keys!Decide
  <2>2. s7' = s7 \/ \E kind \in Keys!Statuses : s7' = Append(s7, Keys!Event(kind))
    BY <1>6, <1>23 DEF Keys!Rescan, Keys!Decide, Keys!Refuse, Keys!Statuses
  <2>3. CASE Keys!Refuse \/ \E H : Keys!Accept(H)
    <3>1. /\ s5'.at = "devices" /\ s5'.command = Keys!NoSpec
          /\ \/ s5'.reply = "rejected" /\ s5'.spec = s5.spec
             \/ s5'.reply = "accepted" /\ s5'.spec = s5.command
      <4>1. CASE Keys!Refuse
        BY <1>1, <4>1 DEF Keys!Refuse, Keys!Listeners
      <4>2. ASSUME NEW H, Keys!Accept(H)
            PROVE  /\ s5'.at = "devices" /\ s5'.command = Keys!NoSpec
                   /\ s5'.reply = "accepted" /\ s5'.spec = s5.command
        BY <1>1, <4>2 DEF Keys!Accept, Keys!Listeners
      <4>3. QED
        BY <2>3, <4>1, <4>2
    <3>2. QED
      BY <1>22, <2>1, <2>2, <3>1
  <2>4. CASE ~(Keys!Refuse \/ \E H : Keys!Accept(H))
    <3>1. s5' = [s5 EXCEPT !.at = "reopening", !.got = {},
                                       !.todo = Keys!Discovered(s5.command)]
      BY <1>23, <2>4 DEF Keys!Rescan, Keys!Decide
    <3>2. /\ s5'.command = s5.command /\ s5'.reply = s5.reply
          /\ s5'.spec = s5.spec
      BY <1>1, <3>1 DEF Keys!Listeners
    <3>3. s5.command # Keys!NoSpec
      BY <2>1 DEF Keys!Agreeing
    <3>4. QED
      BY <1>18, <2>1, <2>2, <3>2, <3>3
  <2>5. QED
    BY <2>3, <2>4
<1>24. CASE Keys!WorkerEnds
  <2>1. PICK told : /\ told = IF s1 = "linux" THEN Append(s7, Keys!Event("discovery failed"))
                              ELSE s7
                    /\ s7' = Append(told, Keys!Event("closed"))
    BY <1>24 DEF Keys!WorkerEnds
  <2>2. /\ told \in Seq(Keys!Events)
        /\ \A i \in DOMAIN told : told[i].kind = "reconfigure" =>
             i \in DOMAIN s7 /\ s7[i].kind = "reconfigure"
    <3>1. "discovery failed" \in Keys!Statuses
      BY DEF Keys!Statuses
    <3>2. CASE s1 = "linux"
      <4>1. told = Append(s7, Keys!Event("discovery failed"))
        BY <2>1, <3>2
      <4>2. QED
        BY <1>1, <1>4, <3>1, <4>1
    <3>3. CASE s1 # "linux"
      BY <1>1, <2>1, <3>3
    <3>4. QED
      BY <3>2, <3>3
  <2>3. \A i \in DOMAIN s7' : Keys!Asked(i)' => i \in DOMAIN s7 /\ Keys!Asked(i)
    <3>1. ASSUME NEW after, after = Append(told, Keys!Event("closed"))
          PROVE  \A i \in DOMAIN after : after[i].kind = "reconfigure" =>
                   i \in DOMAIN told /\ told[i].kind = "reconfigure"
      BY <1>4, <2>2, <3>1
    <3>2. QED
      BY <2>1, <2>2, <3>1 DEF Keys!Asked
  <2>4. /\ s5'.at = "none" /\ s5'.command = Keys!NoSpec /\ s5'.reply = s5.reply
        /\ UNCHANGED <<s6, s8, s12, s15>>
    BY <1>24 DEF Keys!WorkerEnds, Keys!workerFrame, Keys!NoListener
  <2>5. QED
    BY <1>2, <2>3, <2>4 DEF Keys!Agreeing
<1>25. ASSUME NEW shortcut \in Shortcuts, Keys!Ask(shortcut) PROVE Keys!Agreeing'
  <2>1. /\ s12 = Keys!NoRequest /\ s12' = [Keys!NoRequest EXCEPT !.spec = shortcut]
        /\ s7' = Append(s7, Keys!Event("reconfigure"))
        /\ UNCHANGED <<s5, s6, s8, s15>>
    BY <1>25 DEF Keys!Ask
  <2>2. s12.spec = Keys!NoSpec /\ s12.answer = "none" /\ s12.spec \notin Shortcuts
    BY <2>1 DEF Keys!NoRequest
  <2>3. s12' = [spec |-> shortcut, answer |-> "none"]
    BY <2>1 DEF Keys!NoRequest
  <2>4. s6 # "asking" /\ \A i \in DOMAIN s7 : ~Keys!Asked(i)
    BY <2>2 DEF Keys!Agreeing
  <2>5. Keys!Event("reconfigure") \in Keys!Events
    BY DEF Keys!Event, Keys!Events, Keys!Supervising
  <2>6. PICK n \in Nat :
          /\ DOMAIN s7' = DOMAIN s7 \cup {n}
          /\ \A i \in DOMAIN s7 : i \in Nat /\ i < n /\ s7'[i] = s7[i]
          /\ s7'[n] = Keys!Event("reconfigure")
    BY <1>1, <2>1, <2>5, Queued
  <2>7. \A i \in DOMAIN s7' : Keys!Asked(i)' => i = n
    BY <2>4, <2>6 DEF Keys!Asked
  <2>8. s5.command = Keys!NoSpec /\ s5.reply = "none"
    BY <1>1, <2>4 DEF Keys!Agreeing, Keys!Listeners
  <2>9. s8 = s15.agreed
    BY <2>2 DEF Keys!Agreeing
  <2>10. s12' \in [spec : Shortcuts \cup {Keys!NoSpec}, answer : {"none", "accepted", "rejected"}]
         /\ s12'.spec \in Shortcuts /\ s12'.answer = "none"
    BY <2>3
  <2>11. QED
    BY <1>1, <1>2, <2>1, <2>4, <2>7, <2>8, <2>9, <2>10 DEF Keys!Agreeing
<1>26. CASE Keys!Learn
  <2>1. /\ s12.answer # "none" /\ s12' = Keys!NoRequest
        /\ UNCHANGED <<s5, s6, s7, s8>>
        /\ s15' = IF s12.answer = "accepted"
                  THEN [s15 EXCEPT !.agreed = s12.spec] ELSE s15
    BY <1>26 DEF Keys!Learn
  <2>2. s6 # "asking" /\ \A i \in DOMAIN s7 : ~Keys!Asked(i)
    BY <2>1 DEF Keys!Agreeing
  <2>3. s5.command = Keys!NoSpec /\ s5.reply = "none"
    BY <1>1, <2>2 DEF Keys!Agreeing, Keys!Listeners
  <2>4. /\ s15' \in [agreed : Shortcuts \cup {Keys!NoSpec}, blinked : SUBSET Devices,
               lost : BOOLEAN]
        /\ s15'.agreed = s8
    BY <1>2, <2>1 DEF Keys!Agreeing
  <2>5. /\ s12' \in [spec : Shortcuts \cup {Keys!NoSpec}, answer : {"none", "accepted", "rejected"}]
        /\ s12'.answer = "none"
    BY <2>1 DEF Keys!NoRequest
  <2>6. \A i \in DOMAIN s7' : ~Keys!Asked(i)'
    BY <2>1, <2>2 DEF Keys!Asked
  <2>7. QED
    BY <1>2, <2>1, <2>2, <2>3, <2>4, <2>5, <2>6 DEF Keys!Agreeing
<1>27. CASE Keys!Reply
  <2>1. /\ s6 = "asking" /\ s6' = "loop" /\ UNCHANGED <<s7, s15>>
        /\ s12.spec \in Shortcuts /\ s12.answer = "none"
        /\ \A i \in DOMAIN s7 : ~Keys!Asked(i)
    BY <1>27 DEF Keys!Reply, Keys!Agreeing
  <2>2. \A i \in DOMAIN s7' : ~Keys!Asked(i)'
    BY <2>1 DEF Keys!Asked
  <2>3. \A answer \in {"accepted", "rejected"} :
          /\ [s12 EXCEPT !.answer = answer] \in
               [spec : Shortcuts \cup {Keys!NoSpec}, answer : {"none", "accepted", "rejected"}]
          /\ [s12 EXCEPT !.answer = answer].spec = s12.spec
          /\ [s12 EXCEPT !.answer = answer].answer = answer
    BY <1>2
  <2>4. CASE s5.reply # "none"
    <3>1. /\ s12' = [s12 EXCEPT !.answer = s5.reply]
          /\ s8' = IF s5.reply = "accepted" THEN s12.spec ELSE s8
          /\ s5' = [s5 EXCEPT !.reply = "none"]
      BY <1>27, <2>4 DEF Keys!Reply, Keys!Answer
    <3>2. s5.reply \in {"accepted", "rejected"} /\ s5.command = Keys!NoSpec
      BY <1>1, <2>4 DEF Keys!Listeners, Keys!Agreeing
    <3>3. /\ s5'.at = s5.at /\ s5'.seen = s5.seen
          /\ s5'.command = Keys!NoSpec /\ s5'.reply = "none"
          /\ s5'.spec = s5.spec
      BY <1>1, <3>1, <3>2 DEF Keys!Listeners
    <3>4. s8 = s15.agreed
      BY <2>1 DEF Keys!Agreeing
    <3>5. QED
      BY <1>2, <2>1, <2>2, <2>3, <3>1, <3>2, <3>3, <3>4 DEF Keys!Agreeing
  <2>5. CASE s5.reply = "none"
    <3>1. /\ s12' = [s12 EXCEPT !.answer = "rejected"] /\ UNCHANGED <<s8, s5>>
          /\ s5.at = "none"
      BY <1>27, <2>5 DEF Keys!Reply, Keys!Answer
    <3>2. s5.command = Keys!NoSpec
      BY <1>3, <3>1
    <3>3. s8 = s15.agreed
      BY <2>1 DEF Keys!Agreeing
    <3>4. QED
      BY <1>2, <2>1, <2>2, <2>3, <2>5, <3>1, <3>2, <3>3 DEF Keys!Agreeing
  <2>6. QED
    BY <2>4, <2>5
<1>28. CASE Keys!TakeEvent
  <2>1. /\ s7' \in Seq(Keys!Events) /\ 1 \in DOMAIN s7 /\ s7[1] = Head(s7)
        /\ \A i \in DOMAIN s7' :
             i \in Nat /\ i + 1 \in DOMAIN s7 /\ i + 1 > 1 /\ s7'[i] = s7[i + 1]
    <3>1. s7 # <<>> /\ s7' = Tail(s7)
      BY <1>28 DEF Keys!TakeEvent
    <3>2. QED
      BY <1>1, <3>1, Unqueued
  <2>2. \A i \in DOMAIN s7' : Keys!Asked(i)'
          => i + 1 \in DOMAIN s7 /\ Keys!Asked(i + 1) /\ i + 1 # 1
    BY <2>1 DEF Keys!Asked
  <2>3. \A i, j \in DOMAIN s7' : Keys!Asked(i)' /\ Keys!Asked(j)' => i = j
    <3>1. \A i, j \in Nat : i + 1 = j + 1 => i = j
      OBVIOUS
    <3>2. QED
      BY <2>1, <2>2, <3>1 DEF Keys!Agreeing
  <2>4. s6 = "loop" /\ s5.command = Keys!NoSpec /\ s5.reply = "none" /\ s15' = s15
    BY <1>1, <1>28 DEF Keys!TakeEvent, Keys!Agreeing, Keys!Listeners
  <2>5. ASSUME UNCHANGED <<s8, s12, s5>>, s6' # "asking" PROVE Keys!Agreeing'
    BY <1>2, <2>2, <2>3, <2>4, <2>5 DEF Keys!Agreeing
  <2>6. CASE Head(s7).kind # "reconfigure"
    <3>1. \/ UNCHANGED <<s8, s12, s5>>
          \/ /\ UNCHANGED <<s8, s12>> /\ s8 # Keys!NoSpec
             /\ s5' = [Keys!NoListener EXCEPT !.at = "install", !.spec = s8]
      BY <1>28, <2>6 DEF Keys!TakeEvent, Keys!dispatch
    <3>2. s6' \in {"loop", "arming", "starting"}
      BY <1>28, <2>4, <2>6 DEF Keys!TakeEvent, Keys!dispatch
    <3>3. CASE /\ UNCHANGED <<s8, s12>> /\ s8 # Keys!NoSpec
               /\ s5' = [Keys!NoListener EXCEPT !.at = "install", !.spec = s8]
      <4>1. /\ s5'.at = "install" /\ s5'.spec = s8 /\ s5'.reply = "none"
            /\ s5'.command = Keys!NoSpec
        BY <3>3 DEF Keys!NoListener
      <4>2. QED
        BY <1>2, <2>2, <2>3, <2>4, <3>2, <3>3, <4>1 DEF Keys!Agreeing
    <3>4. QED
      BY <2>5, <3>1, <3>2, <3>3
  <2>7. CASE Head(s7).kind = "reconfigure"
    <3>1. /\ s12.spec \in Shortcuts /\ s12.answer = "none" /\ s8 = s15.agreed
          /\ Keys!Asked(1)
      BY <2>1, <2>7 DEF Keys!Agreeing, Keys!Asked
    <3>2. \A i \in DOMAIN s7' : ~Keys!Asked(i)'
      BY <2>1, <2>2, <3>1 DEF Keys!Agreeing
    <3>3. CASE ~s9
      <4>1. /\ s12' = [s12 EXCEPT !.answer = "rejected"]
            /\ UNCHANGED <<s5, s6, s8>>
        BY <1>28, <2>7, <3>3 DEF Keys!TakeEvent, Keys!Current, Keys!Answer
      <4>2. /\ s12' \in [spec : Shortcuts \cup {Keys!NoSpec}, answer : {"none", "accepted",
                   "rejected"}]
            /\ s12'.spec = s12.spec /\ s12'.answer = "rejected"
        BY <1>2, <4>1
      <4>3. QED
        BY <1>2, <2>4, <3>1, <3>2, <4>1, <4>2 DEF Keys!Agreeing
    <3>4. CASE s9
      <4>1. /\ s5' = IF s5.at = "none" THEN s5
                     ELSE [s5 EXCEPT !.command = s12.spec]
            /\ s6' = "asking" /\ UNCHANGED <<s8, s12>>
        BY <1>28, <2>7, <3>4 DEF Keys!TakeEvent, Keys!Current
      <4>2. CASE s5.at = "none"
        BY <1>2, <2>4, <3>1, <3>2, <4>1, <4>2 DEF Keys!Agreeing
      <4>3. CASE s5.at # "none"
        <5>1. /\ s5'.at = s5.at /\ s5'.seen = s5.seen
              /\ s5'.command = s12.spec /\ s5'.reply = "none"
              /\ s5'.spec = s5.spec
          BY <1>1, <2>4, <4>1, <4>3 DEF Keys!Listeners
        <5>2. QED
          BY <1>2, <2>4, <3>1, <3>2, <4>1, <4>3, <5>1 DEF Keys!Agreeing
      <4>4. QED
        BY <4>2, <4>3
    <3>5. QED
      BY <3>3, <3>4
  <2>8. QED
    BY <2>6, <2>7
<1>29. QED
  BY <1>11, <1>13, <1>14, <1>15, <1>16, <1>17, <1>19, <1>20, <1>21, <1>23, <1>24, <1>25, <1>26,
     <1>27, <1>28 DEF Keys!Next, Keys!Environment, Keys!Worker, Keys!Supervisor

\* Nothing that a step leaves alone is heard differently.
LEMMA HearsTheSame ==
  ASSUME Keys!Hearing, UNCHANGED <<s1, s2, s4>>, s15'.blinked = s15.blinked,
         s5'.at = s5.at, s5'.spec = s5.spec, s5'.open = s5.open,
         s5'.todo = s5.todo, s5'.got = s5.got,
         s5'.seen = s5.seen, s5'.command = s5.command,
         s5'.blind = s5.blind
  PROVE  Keys!Hearing'
<1>1. \A k : Keys!Away(k)' <=> Keys!Away(k)
  BY DEF Keys!Away
<1>2. \A s : Keys!Wanted(s)' = Keys!Wanted(s)
  BY DEF Keys!Wanted
<1>3. Keys!Opening' = Keys!Opening
  BY DEF Keys!Opening
<1>4. s1 = "linux" => Keys!Telling'
  BY <1>1, <1>3 DEF Keys!Hearing, Keys!Telling
<1>5. s1 = "linux" => Keys!Placing'
  BY <1>3 DEF Keys!Hearing, Keys!Placing
<1>6. s1 = "linux" => Keys!Complete'
  BY <1>2 DEF Keys!Hearing, Keys!Complete
<1>7. QED
  BY <1>4, <1>5, <1>6 DEF Keys!Hearing

\* A listener that is gone, or that only begins, has nothing to hear.
LEMMA HearsNothing ==
  ASSUME Keys!Hearing, s2' \in [Devices -> {"none", "made", "ready"}], s4' \in BOOLEAN,
         s5'.at \in {"none", "install"}, s5'.open = {}, s5'.got = {},
         s5'.todo = {}
  PROVE  Keys!Hearing'
<1>1. Keys!Telling'
  BY DEF Keys!Telling, Keys!Opening, Keys!Dead
<1>2. Keys!Placing'
  BY DEF Keys!Placing, Keys!Opening, Keys!KeysOf, Keys!Unlike
<1>3. Keys!Complete'
  BY DEF Keys!Complete
<1>4. QED
  BY <1>1, <1>2, <1>3 DEF Keys!Hearing

\* A handle is one of a keyboard.
LEMMA HeardKeyboards ==
  ASSUME Keys!Supervising, Keys!Agreeing, Keys!Placing
  PROVE  \A h \in s5.open \cup s5.got : h.key \in Devices
<1>1. Keys!KeysOf(s5.open) \subseteq Devices
  BY DEF Keys!Supervising, Keys!Listeners, Keys!Placing
<1>2. s5.got # {} => s5.command \in SUBSET Devices
  BY ShortcutsAssumption DEF Keys!Supervising, Keys!Listeners, Keys!Placing, Keys!Agreeing
<1>3. s5.got # {} => Keys!KeysOf(s5.got) \subseteq Devices
  BY <1>2 DEF Keys!Placing
<1>4. QED
  BY <1>1, <1>3 DEF Keys!KeysOf

\* A node made, made readable or gone is told of or known of.
LEMMA ChangeHeard ==
  ASSUME Keys!Supervising, Keys!Agreeing, Keys!Hearing, NEW k \in Devices, Keys!Appear(k)
           \/ Keys!Permit(k) \/ Keys!Unplug(k)
  PROVE  Keys!Hearing'
<1> USE DEF Keys!Starting, Keys!Running
<1>1. s5 \in Keys!Listeners /\ s15.blinked \subseteq Devices
      /\ s15 \in [agreed : Shortcuts \cup {Keys!NoSpec}, blinked : SUBSET Devices, lost : BOOLEAN]
  BY DEF Keys!Supervising, Keys!Agreeing
<1>2. /\ s1 = "linux" /\ s1' = s1 /\ Keys!Telling /\ Keys!Placing /\ Keys!Complete
      /\ s2 \in [Devices -> {"none", "made", "ready"}]
      /\ s4' = (s5.at \notin {"none", "install"})
  BY DEF Keys!Appear, Keys!Permit, Keys!Unplug, Keys!Change, Keys!Hearing
<1>3. PICK state \in {"none", "made", "ready"} :
        /\ s2' = [s2 EXCEPT ![k] = state]
        /\ \/ state = "made" /\ s2[k] = "none" /\ Keys!Appear(k)
           \/ state = "ready" /\ s2[k] = "made" /\ Keys!Permit(k)
           \/ state = "none" /\ Keys!Unplug(k)
  BY DEF Keys!Appear, Keys!Permit, Keys!Unplug, Keys!Change
<1>4. /\ s2' \in [Devices -> {"none", "made", "ready"}] /\ s4' \in BOOLEAN
      /\ s2'[k] = state /\ \A j \in Devices : j # k => s2'[j] = s2[j]
  BY <1>2, <1>3
<1>5. Keys!Complete'
  <2>1. s5'.at = s5.at
    BY <1>1 DEF Keys!Appear, Keys!Permit, Keys!Unplug, Keys!Listeners
  <2>2. QED
    BY <1>2, <2>1 DEF Keys!Complete
<1>6. ASSUME state # "none", s5' = s5 PROVE Keys!Hearing'
  <2>1. ASSUME NEW h \in s5.open \cup s5.got, h.alive PROVE s2'[h.key] = "ready"
    <3>1. s2[h.key] = "ready"
      BY <1>2, <2>1 DEF Keys!Telling
    <3>2. h.key # k
      BY <1>3, <1>6, <3>1
    <3>3. h.key \in Devices
      BY <1>2, HeardKeyboards
    <3>4. QED
      BY <1>4, <3>1, <3>2, <3>3
  <2>2. ASSUME NEW j \in Keys!KeysOf(s5.open \cup s5.got) , Keys!Away(j) PROVE Keys!Away(j)'
    <3>1. CASE Keys!Appear(k)
      <4>1. s15'.blinked = IF k \in Keys!KeysOf(s5.open \cup s5.got)
                           THEN s15.blinked \cup {k} ELSE s15.blinked
        BY <1>1, <3>1 DEF Keys!Appear
      <4>2. j = k => j \in s15'.blinked
        BY <2>2, <4>1
      <4>3. QED
        BY <1>2, <1>3, <2>2, <4>1, <4>2 DEF Keys!Away
    <3>2. CASE Keys!Permit(k)
      BY <1>2, <1>3, <2>2, <3>2 DEF Keys!Away, Keys!Permit
    <3>3. QED
      BY <1>3, <1>6, <3>1, <3>2
  <2>3. Keys!Dead(Keys!Opening) \subseteq Keys!KeysOf(s5.open \cup s5.got)
        /\ Keys!Dead(s5.open) \subseteq Keys!KeysOf(s5.open \cup s5.got)
    BY DEF Keys!Dead, Keys!Opening, Keys!KeysOf
  <2>4. Keys!Opening' = Keys!Opening
    BY <1>6 DEF Keys!Opening
  <2>5. s5.at \in {"commands", "rescan", "reopening", "devices"} => s4'
    BY <1>2
  <2>6. Keys!Telling'
    BY <1>2, <1>6, <2>1, <2>2, <2>3, <2>4, <2>5 DEF Keys!Telling
  <2>7. Keys!Placing'
    BY <1>2, <1>6, <2>4 DEF Keys!Placing
  <2>8. QED
    BY <1>4, <1>5, <2>6, <2>7 DEF Keys!Hearing
<1>7. ASSUME Keys!Unplug(k) PROVE Keys!Hearing'
  <2>1. PICK O \in SUBSET Keys!Handles, G \in SUBSET Keys!Handles :
          /\ O = s5.open /\ G = s5.got
    BY <1>1 DEF Keys!Listeners
  <2>2. /\ s5'.open = Keys!HungUp(k, O) /\ s5'.got = Keys!HungUp(k, G)
        /\ s5'.at = s5.at /\ s5'.spec = s5.spec
        /\ s5'.todo = s5.todo /\ s5'.seen = s5.seen
        /\ s5'.command = s5.command
    BY <1>1, <1>7, <2>1 DEF Keys!Unplug, Keys!Listeners
  <2>3. s15' = s15 /\ s2'[k] = "none"
    BY <1>2, <1>7 DEF Keys!Unplug, Keys!Change
  <2>4. \A j : Keys!Away(j) => Keys!Away(j)'
    BY <1>2, <1>3, <1>4, <2>3 DEF Keys!Away
  <2>5. ASSUME NEW H \in SUBSET Keys!Handles
        PROVE  /\ Keys!KeysOf(Keys!HungUp(k, H)) = Keys!KeysOf(H)
                    /\ (Keys!HungUp(k, H) = {} <=> H = {})
               /\ \A g \in Keys!HungUp(k, H) :
                    \E h \in H : g.key = h.key /\ (g.alive <=> h.alive /\ h.key # k)
    BY HungUpHandles
  <2>6. ASSUME NEW H \in SUBSET Keys!Handles
        PROVE Keys!Dead(Keys!HungUp(k, H)) \subseteq Keys!Dead(H) \cup {k}
    BY <2>5 DEF Keys!Dead
  <2>7. ASSUME NEW H \in SUBSET Keys!Handles, Keys!Unlike(H) PROVE Keys!Unlike(Keys!HungUp(k, H))
    BY <2>7, HungUpUnlike
  <2>8. (Keys!Opening = O \/ Keys!Opening = G) /\ Keys!Opening' = Keys!HungUp(k, Keys!Opening)
    BY <2>1, <2>2 DEF Keys!Opening
  <2>9. Keys!Telling'
    <3>1. ASSUME NEW g \in Keys!HungUp(k, O) \cup Keys!HungUp(k, G), g.alive
          PROVE s2'[g.key] = "ready"
      <4>1. PICK h \in O \cup G : g.key = h.key /\ h.alive /\ h.key # k
        BY <2>5, <3>1
      <4>2. s2[h.key] = "ready"
        BY <1>2, <2>1, <4>1 DEF Keys!Telling
      <4>3. s2' = [s2 EXCEPT ![k] = "none"]
        BY <1>7 DEF Keys!Unplug, Keys!Change
      <4>4. h.key \in Devices => s2'[h.key] = "ready"
        BY <1>2, <4>1, <4>2, <4>3
      <4>5. h.key \in Devices
        BY <1>2, <2>1, <4>1, HeardKeyboards
      <4>6. QED
        BY <4>1, <4>4, <4>5
    <3>2. Keys!Away(k)'
      BY <2>3 DEF Keys!Away
    <3>3. \A j \in Keys!Dead(Keys!Opening') : Keys!Away(j)'
      BY <1>2, <2>1, <2>4, <2>6, <2>8, <3>2 DEF Keys!Telling
    <3>4. s5'.got = {} => \A j \in Keys!Dead(s5'.open) : Keys!Away(j)'
      <4>1. s5'.got = {} => s5.got = {}
        BY <2>1, <2>2, <2>5
      <4>2. QED
        BY <1>2, <2>1, <2>2, <2>4, <2>6, <3>2, <4>1 DEF Keys!Telling
    <3>5. s5'.at \in {"commands", "rescan", "reopening", "devices"} => s4'
      BY <1>2, <2>2
    <3>6. QED
      BY <2>2, <3>1, <3>3, <3>4, <3>5 DEF Keys!Telling
  <2>10. Keys!Placing'
    BY <1>2, <2>1, <2>2, <2>5, <2>7, <2>8 DEF Keys!Placing
  <2>11. QED
    BY <1>4, <1>5, <2>9, <2>10 DEF Keys!Hearing
<1>8. QED
  BY <1>3, <1>6, <1>7 DEF Keys!Appear, Keys!Permit

\* A node that is opened is heard from then on; one that cannot be read yet is not.
LEMMA OpeningHeard ==
  ASSUME Keys!Supervising, Keys!Agreeing, Keys!Hearing, s1 = "linux", NEW k \in Devices,
             Keys!OpenKeyboard(k)
  PROVE  Keys!Hearing'
<1>1. s5 \in Keys!Listeners /\ Keys!Left
      /\ s15 \in [agreed : Shortcuts \cup {Keys!NoSpec}, blinked : SUBSET Devices, lost : BOOLEAN]
  BY DEF Keys!Supervising, Keys!Agreeing
<1>2. /\ Keys!Telling /\ Keys!Placing /\ Keys!Complete /\ UNCHANGED <<s1, s2, s4>>
      /\ s2 \in [Devices -> {"none", "made", "ready"}] /\ s4 \in BOOLEAN
  BY DEF Keys!OpenKeyboard, Keys!Hearing, Keys!hotplug
<1>3. PICK H \in SUBSET Keys!Handles :
        /\ H = (IF s2[k] = "ready" THEN {Keys!Handle(k)} ELSE {})
        /\ \A h \in H : h.key = k /\ h.alive /\ s2[k] = "ready"
        /\ s2[k] = "ready" => \E h \in H : h.key = k
        /\ \A g, h \in H : g = h
  <2>1. Keys!Handle(k) \in Keys!Handles /\ Keys!Handle(k).key = k /\ Keys!Handle(k).alive
    BY DEF Keys!Handle, Keys!Handles
  <2>2. CASE s2[k] = "ready"
    <3>1. {Keys!Handle(k)} \in SUBSET Keys!Handles
      BY <2>1
    <3>2. \A h \in {Keys!Handle(k)} : h = Keys!Handle(k)
      OBVIOUS
    <3>3. QED
      BY <2>1, <2>2, <3>1, <3>2
  <2>3. CASE s2[k] # "ready"
    <3>1. {} \in SUBSET Keys!Handles
      OBVIOUS
    <3>2. QED
      BY <2>3, <3>1
  <2>4. QED
    BY <2>2, <2>3
<1>4. /\ k \in s5.todo /\ k \notin Keys!KeysOf(Keys!Opening)
      /\ s5.at \in {"first", "reopening", "status"}
  BY <1>1, <1>2 DEF Keys!OpenKeyboard, Keys!Placing, Keys!Left
<1>5. /\ s5'.at = s5.at /\ s5'.spec = s5.spec
      /\ s5'.todo = s5.todo \ {k} /\ s5'.seen = s5.seen
      /\ s5'.command = s5.command /\ s5'.blind = s5.blind
      /\ s5.at = "reopening" =>
           s5'.open = s5.open /\ s5'.got = s5.got \cup H
      /\ s5.at # "reopening" =>
           s5'.open = s5.open \cup H /\ s5'.got = s5.got
  BY <1>1, <1>3 DEF Keys!OpenKeyboard, Keys!Opened, Keys!Listeners
<1>6. s15'.blinked = IF s2[k] = "ready" /\ ~(s5.at = "reopening" /\ k \in s5.seen.gone)
                     THEN s15.blinked \ {k} ELSE s15.blinked
  BY <1>1 DEF Keys!OpenKeyboard
<1>7. ASSUME NEW G, k \notin Keys!KeysOf(G)
      PROVE  /\ Keys!KeysOf(G \cup H) \subseteq Keys!KeysOf(G) \cup {k}
             /\ Keys!KeysOf(G) \subseteq Keys!KeysOf(G \cup H)
             /\ s2[k] = "ready" => k \in Keys!KeysOf(G \cup H)
             /\ Keys!Dead(G \cup H) = Keys!Dead(G) /\ k \notin Keys!Dead(G)
             /\ Keys!Unlike(G) => Keys!Unlike(G \cup H)
  BY <1>3, <1>7 DEF Keys!KeysOf, Keys!Dead, Keys!Unlike
<1>8. \A j : j # k /\ Keys!Away(j) => Keys!Away(j)'
  BY <1>2, <1>6 DEF Keys!Away
<1>9. \A s : \A j \in Keys!Wanted(s)' : IF j = k THEN s2[k] = "ready" ELSE j \in Keys!Wanted(s)
  BY <1>2, <1>6 DEF Keys!Wanted
<1>9a. PICK s, c, O, G : /\ s = s5.spec /\ c = s5.command
                         /\ O = s5.open /\ G = s5.got
  OBVIOUS
<1>9b. /\ \A j \in Keys!Wanted(s)' : IF j = k THEN s2[k] = "ready" ELSE j \in Keys!Wanted(s)
       /\ \A j \in Keys!Wanted(c)' : IF j = k THEN s2[k] = "ready" ELSE j \in Keys!Wanted(c)
  BY <1>9
<1>10. CASE s5.at = "reopening"
  <2>1. Keys!Opening = s5.got /\ Keys!Opening' = s5.got \cup H
    BY <1>5, <1>10 DEF Keys!Opening
  <2>2. s5'.got = {} => s5.got = {} /\ s2[k] # "ready"
    BY <1>3, <1>5, <1>10
  <2>3. s2[k] # "ready" => s15'.blinked = s15.blinked /\ \A j : Keys!Away(j)' <=> Keys!Away(j)
    BY <1>2, <1>6 DEF Keys!Away
  <2>4. Keys!Telling'
    <3>1. \A h \in s5'.open \cup s5'.got : h.alive => s2'[h.key] = "ready"
      BY <1>2, <1>3, <1>5, <1>10 DEF Keys!Telling
    <3>2. \A j \in Keys!Dead(Keys!Opening') : Keys!Away(j)'
      <4>1. k \notin Keys!KeysOf(G) /\ Keys!Opening = G /\ Keys!Opening' = G \cup H
        BY <1>4, <1>9a, <2>1
      <4>2. Keys!Dead(G \cup H) = Keys!Dead(G) /\ k \notin Keys!Dead(G)
        BY <1>7, <4>1
      <4>3. \A j \in Keys!Dead(G) : Keys!Away(j)
        BY <1>2, <4>1 DEF Keys!Telling
      <4>4. QED
        BY <1>8, <4>1, <4>2, <4>3
    <3>3. s5'.got = {} => \A j \in Keys!Dead(s5'.open) : Keys!Away(j)'
      BY <1>2, <1>5, <1>10, <2>2, <2>3 DEF Keys!Telling
    <3>4. \A j \in s5.seen.gone : Keys!Away(j) => Keys!Away(j)'
      BY <1>2, <1>6, <1>10 DEF Keys!Away
    <3>5. QED
      BY <1>2, <1>5, <1>10, <3>1, <3>2, <3>3, <3>4 DEF Keys!Telling
  <2>5. Keys!Placing'
    <3>0. k \notin Keys!KeysOf(G) /\ Keys!Opening = G /\ Keys!Opening' = G \cup H
            /\ s5'.got = G \cup H
      BY <1>4, <1>5, <1>10, <1>9a, <2>1
    <3>a. Keys!KeysOf(G \cup H) \subseteq Keys!KeysOf(G) \cup {k}
            /\ (Keys!Unlike(G) => Keys!Unlike(G \cup H))
      BY <1>7, <3>0
    <3>1. s5'.todo \cap Keys!KeysOf(Keys!Opening') = {}
      BY <1>2, <1>4, <1>5, <3>0, <3>a DEF Keys!Placing
    <3>2. k \in s5.command
      BY <1>2, <1>4, <1>10 DEF Keys!Placing
    <3>3. Keys!KeysOf(s5'.got) \subseteq s5'.command /\ Keys!Unlike(s5'.got)
      BY <1>2, <1>5, <1>9a, <3>0, <3>a, <3>2 DEF Keys!Placing
    <3>4. QED
      BY <1>2, <1>4, <1>5, <1>10, <3>1, <3>3 DEF Keys!Placing
  <2>6. Keys!Complete'
    <3>0. k \notin Keys!KeysOf(G) /\ s5'.got = G \cup H
      BY <1>4, <1>5, <1>10, <1>9a, <2>1
    <3>a. Keys!KeysOf(G) \subseteq Keys!KeysOf(G \cup H)
            /\ (s2[k] = "ready" => k \in Keys!KeysOf(G \cup H))
      BY <1>7, <3>0
    <3>b. /\ s5'.spec = s /\ s5'.command = c /\ s5'.at = "reopening"
          /\ s5'.blind = s5.blind /\ s4' = s4
      BY <1>2, <1>5, <1>10, <1>9a
    <3>1. ~s4 /\ ~s5.blind /\ s5'.got = {} =>
            Keys!Wanted(s)' \subseteq Keys!KeysOf(s5'.open)
      BY <1>2, <1>5, <1>10, <1>9a, <1>9b, <2>2 DEF Keys!Complete
    <3>2. ~s4 /\ ~s5.blind =>
            Keys!Wanted(c)' \subseteq Keys!KeysOf(s5'.got) \cup s5'.todo
      <4>1. ~s4 /\ ~s5.blind => Keys!Wanted(c) \subseteq Keys!KeysOf(G) \cup s5.todo
        BY <1>2, <1>10, <1>9a DEF Keys!Complete
      <4>2. s5'.todo = s5.todo \ {k} /\ s5'.got = G \cup H
        BY <1>5, <3>0
      <4>3. QED
        BY <1>9b, <3>a, <4>1, <4>2
    <3>c. Keys!Wanted(s)' = Keys!Wanted(s5.spec)' /\ Keys!Wanted(c)' = Keys!Wanted(s5.command)'
      BY <3>b DEF Keys!Wanted
    <3>3. QED
      BY <3>b, <3>1, <3>2, <3>c DEF Keys!Complete
  <2>7. QED
    BY <1>2, <2>4, <2>5, <2>6 DEF Keys!Hearing
<1>11. CASE s5.at # "reopening"
  <2>1. Keys!Opening = s5.open /\ Keys!Opening' = s5.open \cup H
        /\ s5.got = {} /\ s5'.got = {}
    BY <1>2, <1>5, <1>11 DEF Keys!Opening, Keys!Placing
  <2>2. Keys!Telling'
    <3>1. \A h \in s5'.open \cup s5'.got : h.alive => s2'[h.key] = "ready"
      BY <1>2, <1>3, <1>5, <1>11 DEF Keys!Telling
    <3>2. \A j \in Keys!Dead(Keys!Opening') : Keys!Away(j)'
      <4>1. k \notin Keys!KeysOf(O) /\ Keys!Opening = O /\ Keys!Opening' = O \cup H
        BY <1>4, <1>9a, <2>1
      <4>2. Keys!Dead(O \cup H) = Keys!Dead(O) /\ k \notin Keys!Dead(O)
        BY <1>7, <4>1
      <4>3. \A j \in Keys!Dead(O) : Keys!Away(j)
        BY <1>2, <4>1 DEF Keys!Telling
      <4>4. QED
        BY <1>8, <4>1, <4>2, <4>3
    <3>3. s5'.open = Keys!Opening'
      BY <1>5, <1>11, <2>1
    <3>4. s5'.at \notin {"commands", "rescan", "reopening", "devices"}
      BY <1>4, <1>5, <1>11
    <3>5. QED
      BY <3>1, <3>2, <3>3, <3>4 DEF Keys!Telling
  <2>3. Keys!Placing'
    <3>0. k \notin Keys!KeysOf(O) /\ Keys!Opening = O /\ Keys!Opening' = O \cup H
            /\ s5'.open = O \cup H
      BY <1>4, <1>5, <1>11, <1>9a, <2>1
    <3>a. Keys!KeysOf(O \cup H) \subseteq Keys!KeysOf(O) \cup {k}
            /\ (Keys!Unlike(O) => Keys!Unlike(O \cup H))
      BY <1>7, <3>0
    <3>1. s5'.todo \cap Keys!KeysOf(Keys!Opening') = {}
      BY <1>2, <1>4, <1>5, <3>0, <3>a DEF Keys!Placing
    <3>2. k \in s5.spec
      BY <1>2, <1>4, <1>11 DEF Keys!Placing
    <3>3. Keys!KeysOf(s5'.open) \subseteq s5'.spec /\ Keys!Unlike(s5'.open)
      BY <1>2, <1>5, <1>9a, <3>0, <3>a, <3>2 DEF Keys!Placing
    <3>4. QED
      BY <1>2, <1>4, <1>5, <1>11, <2>1, <3>1, <3>3 DEF Keys!Placing
  <2>4. Keys!Complete'
    <3>0. k \notin Keys!KeysOf(O) /\ s5'.open = O \cup H
      BY <1>4, <1>5, <1>11, <1>9a, <2>1
    <3>a. Keys!KeysOf(O) \subseteq Keys!KeysOf(O \cup H)
            /\ (s2[k] = "ready" => k \in Keys!KeysOf(O \cup H))
      BY <1>7, <3>0
    <3>b. /\ s5'.spec = s /\ s5'.at \in {"first", "status"} /\ s5'.at = s5.at
          /\ s5'.blind = s5.blind /\ s4' = s4
      BY <1>2, <1>4, <1>5, <1>11, <1>9a
    <3>1. ~s4 /\ ~s5.blind =>
            Keys!Wanted(s)' \subseteq Keys!KeysOf(s5'.open) \cup s5'.todo
      <4>1. ~s4 /\ ~s5.blind => Keys!Wanted(s) \subseteq Keys!KeysOf(O) \cup s5.todo
        BY <1>2, <1>9a, <3>b DEF Keys!Complete
      <4>2. s5'.todo = s5.todo \ {k} /\ s5'.open = O \cup H
        BY <1>5, <3>0
      <4>3. QED
        BY <1>9b, <3>a, <4>1, <4>2
    <3>c. Keys!Wanted(s)' = Keys!Wanted(s5.spec)'
      BY <3>b DEF Keys!Wanted
    <3>2. QED
      BY <3>b, <3>1, <3>c DEF Keys!Complete
  <2>5. QED
    BY <1>2, <2>2, <2>3, <2>4 DEF Keys!Hearing
<1>12. QED
  BY <1>10, <1>11

\* The listener's thread loses no change between its looks.
LEMMA WorkerHears ==
  ASSUME Keys!Supervising, Keys!Agreeing, Keys!Reporting, Keys!Hearing, s1 = "linux", Keys!Worker
  PROVE  Keys!Hearing'
<1> USE DEF Keys!Starting, Keys!Running
<1>1. s5 \in Keys!Listeners /\ Keys!Left
  BY DEF Keys!Supervising
<1>2. /\ Keys!Telling /\ Keys!Placing /\ Keys!Complete /\ UNCHANGED <<s1, s2, s15>>
      /\ s2 \in [Devices -> {"none", "made", "ready"}] /\ s4 \in BOOLEAN
  BY DEF Keys!Hearing, Keys!Worker, Keys!workerFrame, Keys!hotplug, Keys!Poll, Keys!WorkerEnds,
     Keys!Commands, Keys!Rescan, Keys!Decide,
     Keys!Readiness, Keys!Drain, Keys!Discover, Keys!Report
<1>3. \A k : Keys!Away(k)' <=> Keys!Away(k)
  BY <1>2 DEF Keys!Away
<1>4. \A s : Keys!Wanted(s)' = Keys!Wanted(s)
  BY <1>2 DEF Keys!Wanted
<1>5. ASSUME s4' \in BOOLEAN, Keys!Telling', Keys!Placing', Keys!Complete' PROVE Keys!Hearing'
  BY <1>2, <1>5 DEF Keys!Hearing
<1>6. CASE Keys!Poll
  <2>1. /\ s5'.at = "commands" /\ s5'.spec = s5.spec
        /\ s5'.open = s5.open /\ s5'.todo = s5.todo
        /\ s5'.got = s5.got /\ s5'.command = s5.command
        /\ s5'.blind = s5.blind /\ s5'.seen.gone = Keys!Dead(s5.open)
        /\ s5.at = "poll" /\ s4' = s4
    BY <1>1, <1>6 DEF Keys!Poll, Keys!Listeners, Keys!Gone, Keys!Dead
  <2>2. s5.got = {} /\ Keys!Opening = s5.open /\ Keys!Opening' = s5.open
    BY <1>2, <2>1 DEF Keys!Placing, Keys!Opening
  <2>3. Keys!Telling'
    BY <1>2, <1>3, <2>1, <2>2 DEF Keys!Telling
  <2>4. Keys!Placing'
    BY <1>2, <2>1, <2>2 DEF Keys!Placing
  <2>5. Keys!Complete'
    BY <1>2, <1>4, <2>1, <2>2 DEF Keys!Complete
  <2>6. QED
    BY <1>2, <1>5, <2>1, <2>3, <2>4, <2>5
<1>7. CASE Keys!WorkerEnds
  <2>1. /\ s5'.at = "none" /\ s5'.open = {} /\ s5'.got = {} /\ s5'.todo = {}
        /\ s4' = FALSE
    BY <1>7 DEF Keys!WorkerEnds, Keys!NoListener
  <2>2. QED
    BY <1>2, <2>1, HearsNothing
<1>8. CASE Keys!Commands
  <2>1. /\ s5'.at \in {"rescan", "devices"} /\ s5'.spec = s5.spec
        /\ s5'.open = s5.open /\ s5'.todo = s5.todo
        /\ s5'.got = s5.got /\ s5'.command = s5.command
        /\ s5'.blind = s5.blind /\ s5'.seen = s5.seen
        /\ s5.at = "commands" /\ s4' = s4
    BY <1>1, <1>8 DEF Keys!Commands, Keys!Listeners
  <2>2. s5.got = {} /\ Keys!Opening = s5.open /\ Keys!Opening' = s5.open
    BY <1>2, <2>1 DEF Keys!Placing, Keys!Opening
  <2>3. Keys!Telling'
    BY <1>2, <1>3, <2>1, <2>2 DEF Keys!Telling
  <2>4. Keys!Placing'
    BY <1>2, <2>1, <2>2 DEF Keys!Placing
  <2>5. Keys!Complete'
    BY <1>2, <1>4, <2>1, <2>2 DEF Keys!Complete
  <2>6. QED
    BY <1>2, <1>5, <2>1, <2>3, <2>4, <2>5
<1>9. ASSUME Keys!Refuse, s4' = s4,
             \/ s5.at = "rescan"
             \/ s5.at = "reopening" /\ s5.todo = {} /\ s5.got = {}
      PROVE  Keys!Hearing'
  <2>1. /\ s5'.at = "devices" /\ s5'.spec = s5.spec
        /\ s5'.open = s5.open /\ s5'.todo = s5.todo
        /\ s5'.got = {} /\ s5'.command = Keys!NoSpec
        /\ s5'.blind = s5.blind /\ s5'.seen = s5.seen
    BY <1>1, <1>9 DEF Keys!Refuse, Keys!Listeners
  <2>2. s5.got = {} /\ s5.todo = {} /\ Keys!Opening' = s5.open
    BY <1>1, <1>2, <1>9, <2>1 DEF Keys!Placing, Keys!Left, Keys!Opening
  <2>3. Keys!Telling'
    BY <1>2, <1>3, <1>9, <2>1, <2>2 DEF Keys!Telling
  <2>4. Keys!Placing'
    BY <1>2, <1>9, <2>1, <2>2 DEF Keys!Placing, Keys!KeysOf, Keys!Unlike
  <2>5. Keys!Complete'
    BY <1>2, <1>4, <1>9, <2>1, <2>2 DEF Keys!Complete
  <2>6. QED
    BY <1>2, <1>5, <1>9, <2>3, <2>4, <2>5
<1>10. CASE Keys!Rescan
  <2>1. CASE Keys!Refuse
    <3>1. s5.at = "rescan" /\ s4' = s4
      BY <1>10 DEF Keys!Rescan
    <3>2. QED
      BY <1>9, <2>1, <3>1, Zenon
  <2>2. CASE ~Keys!Refuse
    <3>1. s5' = [s5 EXCEPT !.at = "reopening", !.got = {},
                                       !.todo = Keys!Discovered(s5.command)]
      BY <1>10, <2>2 DEF Keys!Rescan
    <3>2. /\ s5'.at = "reopening" /\ s5'.spec = s5.spec
          /\ s5'.open = s5.open /\ s5'.todo = Keys!Discovered(s5.command)
          /\ s5'.got = {} /\ s5'.command = s5.command
          /\ s5'.blind = s5.blind /\ s5'.seen = s5.seen
          /\ s5.at = "rescan" /\ s4' = s4
      BY <1>1, <1>10, <3>1 DEF Keys!Rescan, Keys!Listeners
    <3>3. s5.got = {} /\ Keys!Opening = s5.open /\ Keys!Opening' = {} /\ Keys!KeysOf({}) = {}
            /\ Keys!Dead({}) = {}
      BY <1>2, <3>2 DEF Keys!Placing, Keys!Opening, Keys!KeysOf, Keys!Dead
    <3>4. /\ Keys!Discovered(s5.command) \subseteq s5.command
          /\ Keys!Wanted(s5.command) \subseteq Keys!Discovered(s5.command)
      BY <1>2 DEF Keys!Discovered, Keys!Wanted
    <3>5. Keys!Telling'
      BY <1>2, <1>3, <3>2, <3>3 DEF Keys!Telling
    <3>6. Keys!Placing'
      BY <1>2, <3>2, <3>3, <3>4 DEF Keys!Placing, Keys!Unlike
    <3>7. Keys!Complete'
      BY <1>2, <1>4, <3>2, <3>3, <3>4 DEF Keys!Complete
    <3>8. QED
      BY <1>2, <1>5, <3>2, <3>5, <3>6, <3>7
  <2>3. QED
    BY <2>1, <2>2
<1>11. CASE Keys!Decide
  <2>1. CASE s5.got = {}
    BY <1>9, <1>11, <2>1 DEF Keys!Decide
  <2>2. CASE s5.got # {}
    <3>1. /\ s5'.at = "devices" /\ s5'.spec = s5.command
          /\ s5'.open = s5.got /\ s5'.todo = {}
          /\ s5'.got = {} /\ s5'.blind = s5.blind /\ s5'.seen = s5.seen
          /\ s5.at = "reopening" /\ s5.todo = {} /\ s4' = s4
      <4>1. /\ s5' = [s5 EXCEPT !.at = "devices", !.spec = s5.command,
                              !.open = s5.got, !.got = {}, !.command = Keys!NoSpec,
                              !.reply = "accepted"]
            /\ s5.at = "reopening" /\ s5.todo = {} /\ s4' = s4
        BY <1>11, <2>2 DEF Keys!Decide, Keys!Accept
      <4>2. QED
        BY <1>1, <4>1 DEF Keys!Listeners
    <3>2. Keys!Opening = s5.got /\ Keys!Opening' = s5.got /\ Keys!KeysOf({}) = {}
      BY <3>1 DEF Keys!Opening, Keys!KeysOf
    <3>3. Keys!Telling'
      BY <1>2, <1>3, <3>1, <3>2 DEF Keys!Telling
    <3>4. Keys!Placing'
      BY <1>2, <3>1, <3>2 DEF Keys!Placing, Keys!Unlike
    <3>5. Keys!Complete'
      BY <1>2, <1>4, <3>1, <3>2 DEF Keys!Complete
    <3>6. QED
      BY <1>2, <1>5, <3>1, <3>3, <3>4, <3>5
  <2>3. QED
    BY <2>1, <2>2
<1>12. CASE Keys!Readiness
  <2> DEFINE kept == {h \in s5.open : h.key \notin s5.seen.gone}
  <2>1. /\ s5'.at \in {"drain", "status"} /\ s5'.spec = s5.spec
        /\ s5'.open = kept /\ s5'.todo = s5.todo
        /\ s5'.got = s5.got /\ s5'.command = s5.command
        /\ s5'.blind = s5.blind /\ s5'.seen = s5.seen
        /\ s5.at = "devices" /\ s4' = s4
    BY <1>1, <1>12 DEF Keys!Readiness, Keys!Listeners
  <2>2. /\ kept \subseteq s5.open /\ Keys!KeysOf(kept) \subseteq Keys!KeysOf(s5.open)
        /\ Keys!Dead(kept) \subseteq Keys!Dead(s5.open)
        /\ Keys!KeysOf(s5.open) \ s5.seen.gone \subseteq Keys!KeysOf(kept)
        /\ Keys!Unlike(s5.open) => Keys!Unlike(kept)
    BY DEF Keys!KeysOf, Keys!Dead, Keys!Unlike
  <2> HIDE DEF kept
  <2>3. s5.got = {} /\ s5.todo = {} /\ Keys!Opening = s5.open /\ Keys!Opening' = kept
    BY <1>1, <1>2, <2>1 DEF Keys!Placing, Keys!Left, Keys!Opening
  <2>4. Keys!Telling'
    BY <1>2, <1>3, <2>1, <2>2, <2>3 DEF Keys!Telling
  <2>5. Keys!Placing'
    BY <1>2, <2>1, <2>2, <2>3 DEF Keys!Placing
  <2>6. Keys!Complete'
    <3>1. ~s4 => \A k \in s5.seen.gone : k \notin Keys!Wanted(s5.spec)
      BY <1>2, <2>1 DEF Keys!Telling, Keys!Away, Keys!Wanted
    <3>2. QED
      BY <1>2, <1>4, <2>1, <2>2, <2>3, <3>1 DEF Keys!Complete
  <2>7. QED
    BY <1>2, <1>5, <2>1, <2>4, <2>5, <2>6
<1>13. CASE Keys!Drain
  <2>1. /\ s5'.at = "discover" /\ s5'.spec = s5.spec
        /\ s5'.open = s5.open /\ s5'.todo = s5.todo
        /\ s5'.got = s5.got /\ s5'.command = s5.command
        /\ s5.at = "drain" /\ s4' = FALSE
    BY <1>1, <1>13 DEF Keys!Drain, Keys!Listeners
  <2>2. s5.got = {} /\ s5.todo = {} /\ Keys!Opening = s5.open /\ Keys!Opening' = s5.open
    BY <1>1, <1>2, <2>1 DEF Keys!Placing, Keys!Left, Keys!Opening
  <2>3. Keys!Telling'
    BY <1>2, <1>3, <2>1, <2>2 DEF Keys!Telling
  <2>4. Keys!Placing'
    BY <1>2, <2>1, <2>2 DEF Keys!Placing
  <2>5. Keys!Complete'
    BY <2>1 DEF Keys!Complete
  <2>6. QED
    BY <1>5, <2>1, <2>3, <2>4, <2>5
<1>14. CASE Keys!Discover
  <2> DEFINE found == Keys!Discovered(s5.spec)
             kept == {h \in s5.open : h.key \in found}
             left == found \ Keys!KeysOf(kept)
  <2>1. /\ kept \subseteq s5.open /\ Keys!KeysOf(kept) \subseteq Keys!KeysOf(s5.open)
        /\ Keys!Dead(kept) \subseteq Keys!Dead(s5.open) /\ left \cap Keys!KeysOf(kept) = {}
        /\ left \subseteq s5.spec /\ found \subseteq Keys!KeysOf(kept) \cup left
        /\ Keys!Wanted(s5.spec) \subseteq found
        /\ Keys!Unlike(s5.open) => Keys!Unlike(kept)
    BY <1>2 DEF Keys!KeysOf, Keys!Dead, Keys!Unlike, Keys!Discovered, Keys!Wanted
  <2>2. s5.at = "discover" /\ s4' = s4
    BY <1>14 DEF Keys!Discover
  <2>3. s5.got = {} /\ s5.todo = {} /\ Keys!Opening = s5.open
    BY <1>1, <1>2, <2>2 DEF Keys!Placing, Keys!Left, Keys!Opening
  <2>4. \/ s5' = [s5 EXCEPT !.at = "status", !.open = kept, !.blind = FALSE, !.todo = left]
        \/ s5' = [s5 EXCEPT !.at = "status", !.blind = TRUE]
    BY <1>14 DEF Keys!Discover
  <2> HIDE DEF found, kept, left
  <2>5. CASE s5' = [s5 EXCEPT !.at = "status", !.open = kept, !.blind = FALSE, !.todo = left]
    <3>1. /\ s5'.at = "status" /\ s5'.spec = s5.spec /\ s5'.open = kept
          /\ s5'.todo = left /\ s5'.got = {} /\ s5'.command = s5.command
      BY <1>1, <2>3, <2>5 DEF Keys!Listeners
    <3>2. Keys!Opening' = kept
      BY <3>1 DEF Keys!Opening
    <3>3. Keys!Telling'
      BY <1>2, <1>3, <2>1, <2>3, <3>1, <3>2 DEF Keys!Telling
    <3>4. Keys!Placing'
      BY <1>2, <2>1, <2>3, <3>1, <3>2 DEF Keys!Placing
    <3>5. Keys!Complete'
      BY <1>4, <2>1, <3>1 DEF Keys!Complete
    <3>6. QED
      BY <1>2, <1>5, <2>2, <3>3, <3>4, <3>5
  <2>6. CASE s5' = [s5 EXCEPT !.at = "status", !.blind = TRUE]
    <3>1. /\ s5'.at = "status" /\ s5'.spec = s5.spec
          /\ s5'.open = s5.open /\ s5'.todo = {} /\ s5'.got = {}
          /\ s5'.command = s5.command /\ s5'.blind
      BY <1>1, <2>3, <2>6 DEF Keys!Listeners
    <3>2. Keys!Opening' = s5.open
      BY <3>1 DEF Keys!Opening
    <3>3. Keys!Telling'
      BY <1>2, <1>3, <2>3, <3>1, <3>2 DEF Keys!Telling
    <3>4. Keys!Placing'
      BY <1>2, <2>3, <3>1, <3>2 DEF Keys!Placing
    <3>5. Keys!Complete'
      BY <3>1 DEF Keys!Complete
    <3>6. QED
      BY <1>2, <1>5, <2>2, <3>3, <3>4, <3>5
  <2>7. QED
    BY <2>4, <2>5, <2>6
<1>15. CASE Keys!Report
  <2>1. /\ s5'.at = "poll" /\ s5'.spec = s5.spec
        /\ s5'.open = s5.open /\ s5'.todo = {}
        /\ s5'.got = s5.got /\ s5'.command = s5.command
        /\ s5'.blind = s5.blind
        /\ s5.at = "status" /\ s5.todo = {} /\ s4' = s4
    BY <1>1, <1>15 DEF Keys!Report, Keys!Listeners
  <2>2. s5.got = {} /\ Keys!Opening = s5.open /\ Keys!Opening' = s5.open
    BY <1>2, <2>1 DEF Keys!Placing, Keys!Opening
  <2>3. Keys!Telling'
    BY <1>2, <1>3, <2>1, <2>2 DEF Keys!Telling
  <2>4. Keys!Placing'
    BY <1>2, <2>1, <2>2 DEF Keys!Placing
  <2>5. Keys!Complete'
    BY <1>2, <1>4, <2>1, <2>2 DEF Keys!Complete
  <2>6. QED
    BY <1>2, <1>5, <2>1, <2>3, <2>4, <2>5
<1>16. QED
  BY <1>6, <1>7, <1>8, <1>10, <1>11, <1>12, <1>13, <1>14, <1>15 DEF Keys!Worker

\* Every step keeps what the listener hears.
LEMMA HearingStep ==
  ASSUME Keys!Supervising, Keys!Agreeing, Keys!Reporting, Keys!Hearing, Keys!Next
  PROVE  Keys!Hearing'
<1> USE DEF Keys!Starting, Keys!Running
<1>1. s5 \in Keys!Listeners /\ Keys!Left
      /\ s15 \in [agreed : Shortcuts \cup {Keys!NoSpec}, blinked : SUBSET Devices, lost : BOOLEAN]
  BY DEF Keys!Supervising, Keys!Agreeing
<1>2. s2 \in [Devices -> {"none", "made", "ready"}] /\ s4 \in BOOLEAN
  BY DEF Keys!Hearing
<1>3. CASE Keys!Environment
  BY <1>3, ChangeHeard DEF Keys!Environment
<1>4. CASE \E k \in Devices : Keys!OpenKeyboard(k)
  <2>1. CASE s1 = "linux"
    BY <1>4, <2>1, OpeningHeard
  <2>2. CASE s1 # "linux"
    BY <1>2, <1>4, <2>2 DEF Keys!OpenKeyboard, Keys!hotplug, Keys!Hearing
  <2>3. QED
    BY <2>1, <2>2
<1>5. CASE Keys!Worker
  <2>1. CASE s1 = "linux"
    BY <1>5, <2>1, WorkerHears
  <2>2. CASE s1 # "linux"
    <3>1. UNCHANGED <<s1, s2>>
      BY <1>5 DEF Keys!Worker, Keys!workerFrame, Keys!hotplug, Keys!Poll, Keys!WorkerEnds,
         Keys!Commands, Keys!Rescan, Keys!Decide,
         Keys!Readiness, Keys!Drain, Keys!Discover, Keys!Report
    <3>2. s4' \in BOOLEAN
      BY <1>2, <1>5 DEF Keys!Worker, Keys!Poll, Keys!WorkerEnds, Keys!Commands, Keys!Rescan,
         Keys!Decide, Keys!Readiness, Keys!Drain,
         Keys!Discover, Keys!Report
    <3>3. QED
      BY <1>2, <2>2, <3>1, <3>2 DEF Keys!Hearing
  <2>3. QED
    BY <2>1, <2>2
<1>6. CASE Keys!Supervisor
  <2>1. UNCHANGED <<s1, s2>>
    BY <1>6 DEF Keys!Supervisor, Keys!hotplug, Keys!InstallWatch, Keys!Scan, Keys!Started,
       Keys!Arm, Keys!Recover, Keys!TakeEvent, Keys!Reply,
       Keys!Learn, Keys!Publish, Keys!Ask
  <2>2. s4' \in BOOLEAN
    BY <1>2, <1>6 DEF Keys!Supervisor, Keys!StartFailed, Keys!InstallWatch, Keys!Scan,
       Keys!Started, Keys!Arm, Keys!Recover,
       Keys!TakeEvent, Keys!Reply, Keys!Learn, Keys!Publish, Keys!Ask
  <2>3. CASE s1 # "linux"
    BY <1>2, <2>1, <2>2, <2>3 DEF Keys!Hearing
  <2>4. ASSUME s5' = Keys!NoListener PROVE Keys!Hearing'
    <3>1. s5'.at = "none" /\ s5'.open = {} /\ s5'.got = {} /\ s5'.todo = {}
      BY <2>4 DEF Keys!NoListener
    <3>2. QED
      BY <1>2, <2>1, <2>2, <3>1, HearsNothing
  <2>5. CASE s1 = "linux"
    <3>1. Keys!Telling /\ Keys!Placing /\ Keys!Complete
      BY <2>5 DEF Keys!Hearing
    <3>2. ASSUME Keys!Telling', Keys!Placing', Keys!Complete' PROVE Keys!Hearing'
      BY <1>2, <2>1, <2>2, <3>2 DEF Keys!Hearing
    <3>3. Keys!KeysOf({}) = {} /\ Keys!Dead({}) = {} /\ Keys!Unlike({})
      BY DEF Keys!KeysOf, Keys!Dead, Keys!Unlike
    <3>4. CASE Keys!InstallWatch
      <4>1. CASE Keys!StartFailed
        BY <2>4, <4>1 DEF Keys!StartFailed
      <4>2. CASE ~Keys!StartFailed
        <5>1. s5' = [s5 EXCEPT !.at = "scan"] /\ s5.at = "install"
          BY <2>5, <3>4, <4>2 DEF Keys!InstallWatch
        <5>2. s5.open = {} /\ s5.got = {} /\ s5.todo = {}
          BY <1>1, <3>1, <5>1 DEF Keys!Placing, Keys!Left
        <5>3. /\ s5'.at = "scan" /\ s5'.open = {} /\ s5'.got = {}
              /\ s5'.todo = {}
          BY <1>1, <5>1, <5>2 DEF Keys!Listeners
        <5>4. Keys!Telling' /\ Keys!Placing' /\ Keys!Complete'
          BY <3>3, <5>3 DEF Keys!Telling, Keys!Placing, Keys!Complete, Keys!Opening
        <5>5. QED
          BY <3>2, <5>4
      <4>3. QED
        BY <4>1, <4>2
    <3>5. CASE Keys!Scan
      <4>1. CASE Keys!StartFailed
        BY <2>4, <4>1 DEF Keys!StartFailed
      <4>2. CASE ~Keys!StartFailed
        <5>1. /\ s5' = [s5 EXCEPT !.at = "first", !.todo = Keys!Discovered(s5.spec)]
              /\ s5.at = "scan"
          BY <3>5, <4>2 DEF Keys!Scan
        <5>2. s5.open = {} /\ s5.got = {}
          BY <3>1, <5>1 DEF Keys!Placing
        <5>3. /\ s5'.at = "first" /\ s5'.open = {} /\ s5'.got = {}
              /\ s5'.todo = Keys!Discovered(s5.spec) /\ s5'.spec = s5.spec
          BY <1>1, <5>1, <5>2 DEF Keys!Listeners
        <5>4. Keys!Discovered(s5.spec) \subseteq s5.spec
              /\ \A j \in s5.spec : s2'[j] = "ready" => j \in Keys!Discovered(s5.spec)
          BY <2>1 DEF Keys!Discovered
        <5>5. Keys!Telling'
          BY <3>3, <5>3 DEF Keys!Telling, Keys!Opening
        <5>6. Keys!Placing'
          BY <3>3, <5>3, <5>4 DEF Keys!Placing, Keys!Opening
        <5>7. Keys!Complete'
          BY <5>3, <5>4 DEF Keys!Complete, Keys!Wanted
        <5>8. QED
          BY <3>2, <5>5, <5>6, <5>7
      <4>3. QED
        BY <4>1, <4>2
    <3>6. CASE Keys!Started
      <4>1. /\ s5' = [s5 EXCEPT !.at = "poll"] /\ s5.at = "first"
            /\ s5.todo = {} /\ UNCHANGED <<s4, s15>>
        BY <3>6 DEF Keys!Started
      <4>2. /\ s5'.at = "poll" /\ s5'.open = s5.open
            /\ s5'.got = s5.got /\ s5'.todo = {} /\ s5'.blind = s5.blind
            /\ s5'.spec = s5.spec /\ s5'.command = s5.command
        BY <1>1, <4>1 DEF Keys!Listeners
      <4>3. s5.got = {} /\ Keys!Opening = s5.open /\ Keys!Opening' = s5.open
        BY <3>1, <4>1, <4>2 DEF Keys!Placing, Keys!Opening
      <4>4. Keys!Telling'
        BY <2>1, <3>1, <4>1, <4>2, <4>3 DEF Keys!Telling, Keys!Away
      <4>5. Keys!Placing'
        BY <3>1, <4>1, <4>2, <4>3 DEF Keys!Placing
      <4>6. Keys!Complete'
        BY <2>1, <3>1, <4>1, <4>2 DEF Keys!Complete, Keys!Wanted
      <4>7. QED
        BY <3>2, <4>4, <4>5, <4>6
    <3>7. CASE Keys!Arm \/ Keys!Recover \/ Keys!Reply \/ Keys!Learn \/ Keys!Publish
                 \/ (\E shortcut \in Shortcuts : Keys!Ask(shortcut))
      <4>1. s15'.blinked = s15.blinked
        BY <1>1, <3>7 DEF Keys!Arm, Keys!Recover, Keys!Reply, Keys!Learn, Keys!Publish, Keys!Ask
      <4>2. UNCHANGED s4
        BY <3>7 DEF Keys!Arm, Keys!Recover, Keys!Reply, Keys!Learn, Keys!Publish, Keys!Ask
      <4>3. s5' = s5 \/ s5' = [s5 EXCEPT !.reply = "none"]
        BY <3>7 DEF Keys!Arm, Keys!Recover, Keys!Reply, Keys!Learn, Keys!Publish, Keys!Ask
      <4>4. /\ s5'.at = s5.at /\ s5'.spec = s5.spec
            /\ s5'.open = s5.open /\ s5'.todo = s5.todo
            /\ s5'.got = s5.got /\ s5'.seen = s5.seen
            /\ s5'.command = s5.command /\ s5'.blind = s5.blind
        BY <1>1, <4>3 DEF Keys!Listeners
      <4>5. QED
        BY <2>1, <4>1, <4>2, <4>4, HearsTheSame
    <3>8. CASE Keys!TakeEvent
      <4>1. /\ UNCHANGED <<s4, s15>> /\ s6 = "loop"
            /\ \/ s5' = s5
               \/ s5' = [Keys!NoListener EXCEPT !.at = "install", !.spec = s8]
               \/ s5' = [s5 EXCEPT !.command = s12.spec]
        BY <3>8 DEF Keys!TakeEvent
      <4>2. CASE s5' = s5
        BY <2>1, <4>1, <4>2, HearsTheSame
      <4>3. CASE s5' = [Keys!NoListener EXCEPT !.at = "install", !.spec = s8]
        <5>1. s5'.at = "install" /\ s5'.open = {} /\ s5'.got = {} /\ s5'.todo = {}
          BY <4>3 DEF Keys!NoListener
        <5>2. QED
          BY <1>2, <2>1, <2>2, <5>1, HearsNothing
      <4>4. CASE s5' = [s5 EXCEPT !.command = s12.spec]
        <5>1. s5.command = Keys!NoSpec
          BY <4>1 DEF Keys!Agreeing
        <5>2. s5.at # "reopening" /\ s5.got = {}
          BY <3>1, <5>1 DEF Keys!Agreeing, Keys!Placing
        <5>3. /\ s5'.at = s5.at /\ s5'.spec = s5.spec
              /\ s5'.open = s5.open /\ s5'.todo = s5.todo
              /\ s5'.got = s5.got /\ s5'.seen = s5.seen
              /\ s5'.blind = s5.blind
          BY <1>1, <4>4 DEF Keys!Listeners
        <5>4. Keys!Opening = s5.open /\ Keys!Opening' = s5.open
          BY <5>2, <5>3 DEF Keys!Opening
        <5>5. Keys!Telling'
          BY <2>1, <3>1, <4>1, <5>3, <5>4 DEF Keys!Telling, Keys!Away
        <5>6. Keys!Placing'
          BY <3>1, <3>3, <5>2, <5>3, <5>4 DEF Keys!Placing
        <5>7. Keys!Complete'
          BY <2>1, <3>1, <4>1, <5>2, <5>3 DEF Keys!Complete, Keys!Wanted
        <5>8. QED
          BY <3>2, <5>5, <5>6, <5>7
      <4>5. QED
        BY <4>1, <4>2, <4>3, <4>4
    <3>9. QED
      BY <1>6, <3>4, <3>5, <3>6, <3>7, <3>8 DEF Keys!Supervisor
  <2>6. QED
    BY <2>3, <2>5
<1>7. QED
  BY <1>3, <1>4, <1>5, <1>6 DEF Keys!Next

\* Every step keeps the newest status true: what is sent fits what the listener
\* has, and what is read is sent on in its order.
LEMMA ReportingStep ==
  ASSUME Keys!Supervising, Keys!Agreeing, Keys!Reporting, Keys!Hearing, Keys!Next
  PROVE  Keys!Reporting'
<1> USE DEF Keys!Starting, Keys!Running
<1> DEFINE Words == Keys!Statuses \cup {"starting"}
<1>0. \A s \in {"ready", "unavailable", "discovery failed", "starting"} : s \in Words
  BY DEF Keys!Statuses
<1>1. /\ s5 \in Keys!Listeners /\ Keys!Left /\ s7 \in Seq(Keys!Events) /\ s10 \in Nat
      /\ s15 \in [agreed : Shortcuts \cup {Keys!NoSpec}, blinked : SUBSET Devices, lost : BOOLEAN]
      /\ \A i \in DOMAIN s7 : s7[i].gen <= s10
      /\ IsFiniteSet(s5.open) /\ IsFiniteSet(s5.got) /\ s13 \in Seq(Words)
  BY FiniteIsFinite DEF Keys!Supervising, Keys!Agreeing, Keys!Reporting
<1> HIDE DEF Words
<1>2. s5' \in Keys!Listeners
  BY ListenerTyped
<1>3. IsFiniteSet({}) /\ IsFiniteSet({Keys!Handle(Keys!Hook)})
        /\ \A k : IsFiniteSet({Keys!Handle(k)})
  BY FS_EmptySet, FS_Singleton
<1>4. \A s : Keys!Up' = Keys!Up => (Keys!Fits(s)' <=> Keys!Fits(s))
  BY DEF Keys!Fits
\* A step that tells nobody anything, and one that only tells the daemon.
<1>5. ASSUME Keys!Told' = Keys!Told, \A i \in Keys!Told : s7'[i] = s7[i], Keys!Up' = Keys!Up,
             s13' = s13, s14' = s14, s15'.lost = s15.lost,
             s6' = "starting" => s6 = "starting",
             IsFiniteSet(s5'.open), IsFiniteSet(s5'.got)
      PROVE  Keys!Reporting'
  BY <1>1, <1>4, <1>5, FiniteIsFinite DEF Keys!Reporting, Words
<1>6. ASSUME NEW s \in Words, Keys!Told = {}, UNCHANGED <<s7, s10>>, Keys!Fits(s)',
             s13' = Append(s13, s), IsFiniteSet(s5'.open),
             IsFiniteSet(s5'.got)
      PROVE  Keys!Reporting'
  <2>1. Keys!Told' = {}
    BY <1>6 DEF Keys!Told
  <2>2. s13' \in Seq(Words) /\ s13' # <<>> /\ s13'[Len(s13')] = s
    BY <1>1, <1>6
  <2>3. QED
    BY <1>6, <2>1, <2>2, FiniteIsFinite DEF Keys!Reporting, Words
\* A step of the listener's thread that tells the loop something.
<1>7. ASSUME NEW kind \in Keys!Statuses \cup {"closed"}, NEW before \in Seq(Keys!Events),
             s7' = Append(before, Keys!Event(kind)), UNCHANGED <<s10, s13>>,
             s6' # "starting", Keys!Fits(kind)', IsFiniteSet(s5'.open),
             IsFiniteSet(s5'.got)
      PROVE  Keys!Reporting'
  <2>1. Keys!Event(kind) \in Keys!Events /\ Keys!Event(kind).gen = s10
          /\ Keys!Event(kind).kind = kind
    BY <1>1 DEF Keys!Event, Keys!Events
  <2>2. PICK n \in Nat :
          /\ DOMAIN s7' = DOMAIN before \cup {n}
          /\ \A i \in DOMAIN before : i \in Nat /\ i < n /\ s7'[i] = before[i]
          /\ s7'[n] = Keys!Event(kind)
    BY <1>7, <2>1, Queued
  <2>3. n \in Keys!Told' /\ \A i \in Keys!Told' : i = n \/ (i \in Nat /\ i < n)
    BY <1>7, <2>1, <2>2 DEF Keys!Told
  <2>4. \A i \in Keys!Told' : (\A j \in Keys!Told' : j <= i) => i = n
    BY <2>3
  <2>5. QED
    BY <1>1, <1>7, <2>1, <2>2, <2>3, <2>4, FiniteIsFinite DEF Keys!Reporting, Words
<1>8. \A kind \in {"changed", "reconfigure"} : s7' = Append(s7, Keys!Event(kind)) /\ s10' = s10 =>
        Keys!Told' = Keys!Told /\ \A i \in Keys!Told : s7'[i] = s7[i]
  <2>1. SUFFICES ASSUME NEW kind \in {"changed", "reconfigure"}, s10' = s10,
                        s7' = Append(s7, Keys!Event(kind))
                 PROVE  Keys!Told' = Keys!Told /\ \A i \in Keys!Told : s7'[i] = s7[i]
    OBVIOUS
  <2>2. Keys!Event(kind) \in Keys!Events /\ Keys!Event(kind).kind = kind
    BY <1>1 DEF Keys!Event, Keys!Events
  <2>3. PICK n \in Nat :
          /\ DOMAIN s7' = DOMAIN s7 \cup {n}
          /\ \A i \in DOMAIN s7 : i \in Nat /\ i < n /\ s7'[i] = s7[i]
          /\ s7'[n] = Keys!Event(kind)
    BY <1>1, <2>1, <2>2, Queued
  <2>4. n \notin Keys!Told'
    BY <2>1, <2>2, <2>3 DEF Keys!Told, Keys!Statuses
  <2>5. QED
    BY <2>1, <2>3, <2>4 DEF Keys!Told
<1>9. UNCHANGED <<s7, s10>> => Keys!Told' = Keys!Told /\ \A i \in Keys!Told : s7'[i] = s7[i]
  BY DEF Keys!Told
<1>10. s5.at \notin Keys!Running => ~Keys!Up
  BY DEF Keys!Up
<1>11. CASE \E k \in Devices : Keys!Appear(k) \/ Keys!Permit(k)
  <2>1. UNCHANGED <<s5, s6, s7, s10, s13, s14>> /\ s15'.lost = s15.lost
    BY <1>1, <1>11 DEF Keys!Appear, Keys!Permit, Keys!Change
  <2>2. Keys!Up' = Keys!Up
    BY <2>1 DEF Keys!Up
  <2>3. QED
    BY <1>1, <1>5, <1>9, <2>1, <2>2
<1>12. ASSUME NEW k \in Devices, Keys!Unplug(k) PROVE Keys!Reporting'
  <2>1. PICK O \in SUBSET Keys!Handles, G \in SUBSET Keys!Handles :
          O = s5.open /\ G = s5.got
    BY <1>1 DEF Keys!Listeners
  <2>2. /\ s5'.open = Keys!HungUp(k, O) /\ s5'.got = Keys!HungUp(k, G)
        /\ s5'.at = s5.at /\ s5'.before = s5.before
        /\ UNCHANGED <<s6, s7, s10, s13, s14, s15>>
    BY <1>1, <1>12, <2>1 DEF Keys!Unplug, Keys!Change, Keys!Listeners
  <2>3. /\ s5'.open = {} <=> s5.open = {}
        /\ IsFiniteSet(s5'.open) /\ IsFiniteSet(s5'.got)
    BY <1>1, <2>1, <2>2, HungUpHandles
  <2>4. Keys!Up' = Keys!Up
    BY <2>2, <2>3 DEF Keys!Up
  <2>5. QED
    BY <1>5, <1>9, <2>2, <2>3, <2>4
\* The loop, which starts a listener.
<1>13. ASSUME Keys!StartFailed, s6 = "starting", UNCHANGED <<s7, s10>> PROVE Keys!Reporting'
  <2>1. s5'.at = "none" /\ s5'.open = {} /\ s5'.got = {}
        /\ s13' = Append(s13, "unavailable")
    BY <1>13 DEF Keys!StartFailed, Keys!NoListener
  <2>2. Keys!Told = {}
    BY <1>13, FiniteIsFinite DEF Keys!Reporting
  <2>3. PICK s \in Words : s = "unavailable"
    BY <1>0
  <2>4. Keys!Fits(s)'
    BY <2>1, <2>3 DEF Keys!Fits, Keys!Up
  <2>5. QED
    BY <1>3, <1>6, <1>13, <2>1, <2>2, <2>3, <2>4
<1>14. CASE Keys!InstallWatch \/ Keys!Scan
  <2>1. CASE Keys!StartFailed
    BY <1>13, <1>14, <2>1 DEF Keys!InstallWatch, Keys!Scan, Keys!StartFailed
  <2>2. CASE ~Keys!StartFailed
    <3>1. /\ s5.at \in {"install", "scan"} /\ s5'.at \in {"scan", "first"}
          /\ s5'.got = s5.got
          /\ s5'.open = s5.open \/ s5'.open = {Keys!Handle(Keys!Hook)}
          /\ UNCHANGED <<s6, s7, s10, s13, s14, s15>>
      BY <1>1, <1>14, <2>2 DEF Keys!InstallWatch, Keys!Scan, Keys!dispatch, Keys!Listeners
    <3>2. Keys!Up' = Keys!Up
      BY <3>1 DEF Keys!Up
    <3>3. QED
      BY <1>1, <1>3, <1>5, <1>9, <3>1, <3>2
  <2>3. QED
    BY <2>1, <2>2
<1>15. ASSUME NEW k \in Devices, Keys!OpenKeyboard(k) PROVE Keys!Reporting'
  <2>1. PICK H : H = (IF s2[k] = "ready" THEN {Keys!Handle(k)} ELSE {})
    OBVIOUS
  <2>2. IsFiniteSet(H)
    BY <1>3, <2>1
  <2>3. /\ s5.at \in {"first", "reopening", "status"} /\ s5'.at = s5.at
        /\ s5'.before = s5.before
        /\ s5'.open = s5.open \/ s5'.open = s5.open \cup H
        /\ s5.at = "reopening" => s5'.open = s5.open
        /\ s5'.got = s5.got \/ s5'.got = s5.got \cup H
        /\ UNCHANGED <<s6, s7, s10, s13, s14>> /\ s15'.lost = s15.lost
    BY <1>1, <1>15, <2>1 DEF Keys!OpenKeyboard, Keys!Opened, Keys!dispatch, Keys!Left,
       Keys!Listeners
  <2>4. IsFiniteSet(s5'.open) /\ IsFiniteSet(s5'.got)
    <3>1. ASSUME NEW S, IsFiniteSet(S) PROVE IsFiniteSet(S \cup H)
      BY <2>2, <3>1, FS_Union
    <3>2. IsFiniteSet(s5.open \cup H) /\ IsFiniteSet(s5.got \cup H)
      BY <1>1, <3>1
    <3>3. QED
      BY <1>1, <2>3, <3>2
  <2>5. Keys!Up' = Keys!Up
    BY <2>3 DEF Keys!Up
  <2>6. QED
    BY <1>5, <1>9, <2>3, <2>4, <2>5
<1>16. CASE Keys!Started
  <2>1. /\ s5'.at = "poll" /\ s5'.open = s5.open /\ s5'.got = s5.got
        /\ s6 = "starting" /\ UNCHANGED <<s7, s10>>
        /\ s13' = Append(s13, Keys!StatusOf(s5.open))
    BY <1>1, <1>16 DEF Keys!Started, Keys!Listeners
  <2>2. Keys!Told = {}
    BY <2>1, FiniteIsFinite DEF Keys!Reporting
  <2>3. PICK s \in Words : s = Keys!StatusOf(s5.open)
    BY <1>0 DEF Keys!StatusOf
  <2>4. Keys!Fits(s)'
    BY <2>1, <2>3 DEF Keys!Fits, Keys!Up, Keys!StatusOf
  <2>5. QED
    BY <1>1, <1>6, <2>1, <2>2, <2>3, <2>4
<1>17. CASE Keys!Arm
  <2>1. /\ UNCHANGED <<s5, s7, s10, s13, s14, s15>> /\ s6' = "loop"
    BY <1>17 DEF Keys!Arm
  <2>2. Keys!Up' = Keys!Up
    BY <2>1 DEF Keys!Up
  <2>3. QED
    BY <1>1, <1>5, <1>9, <2>1, <2>2
<1>18. CASE Keys!Recover \/ \E shortcut \in Shortcuts : Keys!Ask(shortcut)
  <2>1. /\ UNCHANGED <<s5, s10, s6, s13, s14, s15>>
        /\ \E kind \in {"changed", "reconfigure"} : s7' = Append(s7, Keys!Event(kind))
    BY <1>18 DEF Keys!Recover, Keys!Ask
  <2>2. Keys!Up' = Keys!Up
    BY <2>1 DEF Keys!Up
  <2>3. QED
    BY <1>1, <1>5, <1>8, <2>1, <2>2
<1>19. CASE Keys!Reply \/ Keys!Learn
  <2>1. /\ UNCHANGED <<s7, s10, s13, s14>> /\ s15'.lost = s15.lost
        /\ s6' = "starting" => s6 = "starting"
    BY <1>1, <1>19 DEF Keys!Reply, Keys!Learn
  <2>2. s5' = s5 \/ s5' = [s5 EXCEPT !.reply = "none"]
    BY <1>19 DEF Keys!Reply, Keys!Learn
  <2>3. /\ s5'.at = s5.at /\ s5'.before = s5.before
        /\ s5'.open = s5.open /\ s5'.got = s5.got
    BY <1>1, <2>2 DEF Keys!Listeners
  <2>4. Keys!Up' = Keys!Up
    BY <2>3 DEF Keys!Up
  <2>5. QED
    BY <1>1, <1>5, <1>9, <2>1, <2>3, <2>4
<1>20. CASE Keys!Publish
  <2>1. /\ UNCHANGED <<s5, s6, s7, s10>> /\ s13 # <<>>
        /\ s13' = Tail(s13)
        /\ \/ s14' = Head(s13) /\ s15'.lost = FALSE
           \/ s15'.lost = TRUE
    BY <1>1, <1>20 DEF Keys!Publish, Keys!dispatch
  <2>2. Keys!Up' = Keys!Up /\ Keys!Told' = Keys!Told /\ \A i \in Keys!Told : s7'[i] = s7[i]
    BY <1>9, <2>1 DEF Keys!Up
  <2>3. s13' \in Seq(Words)
    BY <1>1, <2>1
  <2>4. s13' = <<>> => s13[Len(s13)] = Head(s13)
    <3>1. Len(s13') = Len(s13) - 1 /\ Len(s13) \in Nat
      BY <1>1, <2>1
    <3>2. s13' = <<>> => Len(s13) = 1
      BY <3>1
    <3>3. Head(s13) = s13[1]
      BY <1>1, <2>1
    <3>4. QED
      BY <3>2, <3>3
  <2>5. s13' # <<>> => s13'[Len(s13')] = s13[Len(s13)]
    BY <1>1, <2>1
  <2>6. QED
    BY <1>1, <1>4, <2>1, <2>2, <2>3, <2>4, <2>5, FiniteIsFinite DEF Keys!Reporting, Words
\* The listener's thread.
<1>21. ASSUME UNCHANGED <<s7, s10, s6, s13, s14, s15>>, Keys!Up' = Keys!Up,
              IsFiniteSet(s5'.open), IsFiniteSet(s5'.got)
       PROVE  Keys!Reporting'
  BY <1>5, <1>9, <1>21
<1>22. ASSUME Keys!workerFrame PROVE UNCHANGED <<s10, s6, s13, s14, s15>>
  BY <1>22 DEF Keys!workerFrame
<1>23. s5.at \in Keys!Running => s6 # "starting"
  BY DEF Keys!Supervising
<1>24. CASE Keys!Poll \/ Keys!Commands
  <2>1. /\ s5.at \in {"poll", "commands"} /\ s5'.at \in {"commands", "rescan", "devices"}
        /\ s5'.open = s5.open /\ s5'.got = s5.got /\ s7' = s7
    BY <1>1, <1>24 DEF Keys!Poll, Keys!Commands, Keys!Listeners
  <2>2. Keys!Up' = Keys!Up
    BY <2>1 DEF Keys!Up
  <2>3. QED
    BY <1>1, <1>21, <1>22, <1>24, <2>1, <2>2 DEF Keys!Poll, Keys!Commands
<1>25. CASE Keys!WorkerEnds
  <2>1. PICK told : /\ told = IF s1 = "linux" THEN Append(s7, Keys!Event("discovery failed"))
                              ELSE s7
                    /\ s7' = Append(told, Keys!Event("closed"))
    BY <1>25 DEF Keys!WorkerEnds
  <2>2. told \in Seq(Keys!Events)
    <3>1. Keys!Event("discovery failed") \in Keys!Events
      BY <1>1 DEF Keys!Event, Keys!Events, Keys!Statuses
    <3>2. Append(s7, Keys!Event("discovery failed")) \in Seq(Keys!Events)
      <4>1. PICK e \in Keys!Events, c \in Seq(Keys!Events) : e = Keys!Event("discovery failed")
                   /\ c = s7
        BY <1>1, <3>1
      <4>2. Append(c, e) \in Seq(Keys!Events)
        OBVIOUS
      <4>3. QED
        BY <4>1, <4>2
    <3>3. QED
      BY <1>1, <2>1, <3>2
  <2>3. /\ s5'.at = "none" /\ s5'.open = {} /\ s5'.got = {} /\ s5.at = "poll"
        /\ Keys!workerFrame
    BY <1>25 DEF Keys!WorkerEnds, Keys!NoListener
  <2>4. Keys!Fits("closed")'
    BY <2>3 DEF Keys!Fits, Keys!Up
  <2>5. QED
    BY <1>3, <1>7, <1>22, <1>23, <2>1, <2>2, <2>3, <2>4
<1>26. ASSUME Keys!Refuse, s5.at \in {"rescan", "reopening"}, Keys!workerFrame PROVE Keys!Reporting'
  <2>1. /\ s5'.at = "devices" /\ s5'.open = s5.open /\ s5'.got = {}
        /\ s7' = Append(s7, Keys!Event(Keys!StatusOf(s5.open)))
    BY <1>1, <1>26 DEF Keys!Refuse, Keys!Listeners
  <2>2. PICK kind \in Keys!Statuses : kind = Keys!StatusOf(s5.open)
    BY DEF Keys!StatusOf, Keys!Statuses
  <2>3. Keys!Fits(kind)'
    BY <2>1, <2>2 DEF Keys!Fits, Keys!Up, Keys!StatusOf
  <2>4. QED
    BY <1>1, <1>3, <1>7, <1>22, <1>23, <1>26, <2>1, <2>2, <2>3
<1>27. CASE Keys!Rescan
  <2>1. s5.at = "rescan" /\ Keys!workerFrame
    BY <1>27 DEF Keys!Rescan
  <2>2. CASE Keys!Refuse
    BY <1>26, <2>1, <2>2
  <2>3. CASE ~Keys!Refuse
    <3>1. /\ s5'.at \in {"reopening", "devices"} /\ s5'.open = s5.open
          /\ s5'.got = {} /\ s7' = s7
      BY <1>1, <1>27, <2>3 DEF Keys!Rescan, Keys!Accept, Keys!Listeners
    <3>2. Keys!Up' = Keys!Up
      BY <2>1, <3>1 DEF Keys!Up
    <3>3. QED
      BY <1>1, <1>3, <1>21, <1>22, <2>1, <3>1, <3>2
  <2>4. QED
    BY <2>2, <2>3
<1>28. CASE Keys!Decide
  <2>1. s5.at = "reopening" /\ Keys!workerFrame
    BY <1>28 DEF Keys!Decide
  <2>2. CASE s5.got = {}
    BY <1>26, <1>28, <2>1, <2>2 DEF Keys!Decide
  <2>3. CASE s5.got # {}
    <3>1. Keys!Accept(s5.got) /\ s7' = Append(s7, Keys!Event("ready"))
      BY <1>28, <2>3 DEF Keys!Decide
    <3>2. s5'.at = "devices" /\ s5'.open = s5.got /\ s5'.got = {}
      BY <1>1, <3>1 DEF Keys!Accept, Keys!Listeners
    <3>3. Keys!Fits("ready")' /\ "ready" \in Keys!Statuses
      BY <2>3, <3>2 DEF Keys!Fits, Keys!Up, Keys!Statuses
    <3>4. QED
      BY <1>1, <1>3, <1>7, <1>22, <1>23, <2>1, <3>1, <3>2, <3>3
  <2>4. QED
    BY <2>2, <2>3
<1>29. CASE Keys!Readiness
  <2>1. /\ s5.at = "devices" /\ s5'.at \in {"drain", "status"}
        /\ s5'.before = Cardinality(s5.open) /\ s5'.open \subseteq s5.open
        /\ s5'.got = s5.got /\ s7' = s7 /\ Keys!workerFrame
    BY <1>1, <1>29, FiniteIsFinite DEF Keys!Readiness, Keys!Listeners
  <2>2. Cardinality(s5.open) = 0 <=> s5.open = {}
    BY <1>1, FS_EmptySet
  <2>3. Keys!Up' = Keys!Up
    BY <2>1, <2>2 DEF Keys!Up
  <2>4. IsFiniteSet(s5'.open)
    BY <1>1, <2>1, FS_Subset
  <2>5. QED
    BY <1>1, <1>21, <1>22, <2>1, <2>3, <2>4
<1>30. CASE Keys!Drain
  <2>1. /\ s5.at = "drain" /\ s5'.at = "discover" /\ s5'.before = s5.before
        /\ s5'.open = s5.open /\ s5'.got = s5.got /\ s7' = s7
        /\ Keys!workerFrame
    BY <1>1, <1>30 DEF Keys!Drain, Keys!Listeners
  <2>2. Keys!Up' = Keys!Up
    BY <2>1 DEF Keys!Up
  <2>3. QED
    BY <1>1, <1>21, <1>22, <2>1, <2>2
<1>31. CASE Keys!Discover
  <2>1. /\ s5.at = "discover" /\ s5'.at = "status" /\ s5'.before = s5.before
        /\ s5'.open \subseteq s5.open /\ s5'.got = s5.got /\ Keys!workerFrame
        /\ s7' = s7 \/ s7' = Append(s7, Keys!Event("discovery failed"))
    <3> DEFINE kept == {h \in s5.open : h.key \in Keys!Discovered(s5.spec)}
               left == Keys!Discovered(s5.spec) \ Keys!KeysOf(kept)
    <3>1. /\ kept \subseteq s5.open
          /\ \/ s5' = [s5 EXCEPT !.at = "status", !.open = kept, !.blind = FALSE,
                                             !.todo = left]
             \/ s5' = [s5 EXCEPT !.at = "status", !.blind = TRUE]
      BY <1>31 DEF Keys!Discover
    <3>2. /\ s5.at = "discover" /\ Keys!workerFrame
          /\ s7' = s7 \/ s7' = Append(s7, Keys!Event("discovery failed"))
      BY <1>31 DEF Keys!Discover
    <3> HIDE DEF kept, left
    <3>3. QED
      BY <1>1, <3>1, <3>2 DEF Keys!Listeners
  <2>2. IsFiniteSet(s5'.open)
    BY <1>1, <2>1, FS_Subset
  <2>3. Keys!Up' = Keys!Up
    BY <2>1 DEF Keys!Up
  <2>4. Keys!Fits("discovery failed") /\ "discovery failed" \in Keys!Statuses
    BY DEF Keys!Fits, Keys!Statuses
  <2>5. Keys!Fits("discovery failed")'
    BY <1>4, <2>3, <2>4
  <2>6. QED
    BY <1>1, <1>7, <1>21, <1>22, <1>23, <2>1, <2>2, <2>3, <2>4, <2>5
<1>32. CASE Keys!Report
  <2>1. /\ s5.at = "status" /\ s5'.at = "poll" /\ s5'.open = s5.open
        /\ s5'.got = s5.got /\ Keys!workerFrame
        /\ s7' = IF Cardinality(s5.open) = s5.before THEN s7
                 ELSE Append(s7, Keys!Event(Keys!StatusOf(s5.open)))
    BY <1>1, <1>32, FiniteIsFinite DEF Keys!Report, Keys!Listeners
  <2>2. CASE Cardinality(s5.open) = s5.before
    <3>1. Cardinality(s5.open) = 0 <=> s5.open = {}
      BY <1>1, FS_EmptySet
    <3>2. Keys!Up' = Keys!Up
      BY <2>1, <2>2, <3>1 DEF Keys!Up
    <3>3. QED
      BY <1>1, <1>21, <1>22, <2>1, <2>2, <3>2
  <2>3. CASE Cardinality(s5.open) # s5.before
    <3>1. PICK kind \in Keys!Statuses : kind = Keys!StatusOf(s5.open)
      BY DEF Keys!StatusOf, Keys!Statuses
    <3>2. Keys!Fits(kind)'
      BY <2>1, <3>1 DEF Keys!Fits, Keys!Up, Keys!StatusOf
    <3>3. QED
      BY <1>1, <1>7, <1>22, <1>23, <2>1, <2>3, <3>1, <3>2
  <2>4. QED
    BY <2>2, <2>3
\* The loop takes what the queue holds.
<1>33. CASE Keys!TakeEvent
  <2>1. s6 = "loop" /\ s7 # <<>> /\ s7' = Tail(s7) /\ UNCHANGED <<s14, s15>>
    BY <1>33 DEF Keys!TakeEvent
  <2>2. /\ 1 \in DOMAIN s7 /\ s7[1] = Head(s7) /\ Head(s7) \in Keys!Events
        /\ s7' \in Seq(Keys!Events)
        /\ \A i \in DOMAIN s7' :
             i \in Nat /\ i + 1 \in DOMAIN s7 /\ i + 1 > 1 /\ s7'[i] = s7[i + 1]
        /\ \A i \in DOMAIN s7 : i # 1 => \E k \in DOMAIN s7' : i = k + 1
    BY <1>1, <2>1, Unqueued
  <2>3. ASSUME s10' = s10, Keys!Up' = Keys!Up, s6' # "starting", IsFiniteSet(s5'.open),
               IsFiniteSet(s5'.got),
               \/ 1 \notin Keys!Told /\ s13' = s13
               \/ \E s \in Words : /\ s13' = Append(s13, s)
                                   /\ Keys!Fits(Head(s7).kind) => Keys!Fits(s)
                                   /\ 1 \in Keys!Told
        PROVE  Keys!Reporting'
    <3>1. \A i \in Keys!Told' : i \in Nat /\ i + 1 \in Keys!Told /\ s7'[i] = s7[i + 1]
      BY <2>2, <2>3 DEF Keys!Told
    <3>2. \A i \in Keys!Told : i # 1 => \E k \in Keys!Told' : i = k + 1
      BY <2>2, <2>3 DEF Keys!Told
    <3>3. \A i \in Keys!Told' : (\A j \in Keys!Told' : j <= i) => Keys!Fits(s7[i].kind)'
      <4>1. SUFFICES ASSUME NEW i \in Keys!Told', \A j \in Keys!Told' : j <= i
                     PROVE  Keys!Fits(s7[i].kind)'
        OBVIOUS
      <4>2. PICK c : c = s7[i + 1] /\ c = s7'[i]
        BY <3>1
      <4>3. \A j \in Keys!Told : j <= i + 1
        BY <3>1, <3>2, <4>1
      <4>4. Keys!Fits(c.kind)
        BY <3>1, <4>2, <4>3, FiniteIsFinite DEF Keys!Reporting
      <4>5. Keys!Fits(c.kind)'
        BY <1>4, <2>3, <4>4
      <4>6. QED
        BY <4>2, <4>5 DEF Keys!Fits
    <3>4. CASE 1 \notin Keys!Told /\ s13' = s13
      <4>1. Keys!Told' = {} => Keys!Told = {}
        BY <3>2, <3>4
      <4>2. QED
        <5>1. s13' \in Seq(Words)
          BY <1>1, <3>4
        <5>2. Keys!Told' = {} => IF s13' = <<>> THEN s15'.lost \/ Keys!Fits(s14)'
                                 ELSE Keys!Fits(s13[Len(s13)])'
          <6>1. PICK p, s : p = s13 /\ s = s14
            OBVIOUS
          <6>2. Keys!Told = {}
                  => IF p = <<>> THEN s15.lost \/ Keys!Fits(s) ELSE Keys!Fits(p[Len(p)])
            BY <6>1, FiniteIsFinite DEF Keys!Reporting
          <6>3. Keys!Told' = {}
                  => IF p = <<>> THEN s15.lost \/ Keys!Fits(s)' ELSE Keys!Fits(p[Len(p)])'
            BY <1>4, <2>3, <4>1, <6>2
          <6>4. QED
            BY <2>1, <3>4, <6>1, <6>3 DEF Keys!Fits
        <5>3. QED
          BY <2>3, <3>3, <5>1, <5>2, FiniteIsFinite DEF Keys!Reporting, Words
    <3>5. ASSUME NEW s \in Words, s13' = Append(s13, s), 1 \in Keys!Told,
                 Keys!Fits(Head(s7).kind) => Keys!Fits(s)
          PROVE  Keys!Reporting'
      <4>1. s13' \in Seq(Words) /\ s13' # <<>> /\ s13'[Len(s13')] = s
        BY <1>1, <3>5
      <4>2. Keys!Told' = {} => Keys!Fits(s)'
        <5>1. SUFFICES ASSUME Keys!Told' = {} PROVE Keys!Fits(s)
          BY <1>4, <2>3
        <5>2. \A j \in Keys!Told : j = 1
          BY <3>2, <5>1
        <5>3. Keys!Fits(s7[1].kind)
          BY <3>5, <5>2, FiniteIsFinite DEF Keys!Reporting
        <5>4. QED
          BY <2>2, <3>5, <5>3
      <4>3. QED
        BY <2>3, <3>3, <4>1, <4>2, FiniteIsFinite DEF Keys!Reporting, Words
    <3>6. CASE ~(1 \notin Keys!Told /\ s13' = s13)
      <4>1. PICK s \in Words : /\ s13' = Append(s13, s) /\ 1 \in Keys!Told
                               /\ Keys!Fits(Head(s7).kind) => Keys!Fits(s)
        BY <2>3, <3>6
      <4>2. QED
        BY <3>5, <4>1
    <3>7. QED
      BY <3>4, <3>6
  <2>4. 1 \in Keys!Told <=> Head(s7).gen = s10 /\ Head(s7).kind \in Keys!Statuses \cup {"closed"}
    BY <2>2 DEF Keys!Told
  <2>5. UNCHANGED s5 => Keys!Up' = Keys!Up
    BY DEF Keys!Up
  <2>6. CASE \/ ~Keys!Current(Head(s7))
             \/ Head(s7).kind = "changed" /\ (s9 \/ s8 = Keys!NoSpec)
    <3>1. UNCHANGED <<Keys!dispatch, s5, s13>>
      BY <1>33, <2>6 DEF Keys!TakeEvent, Keys!Current, Keys!Statuses
    <3>2. 1 \notin Keys!Told
      BY <2>4, <2>6 DEF Keys!Current, Keys!Statuses
    <3>3. QED
      BY <1>1, <2>1, <2>3, <2>5, <3>1, <3>2 DEF Keys!dispatch
  <2>7. CASE Keys!Current(Head(s7)) /\ Head(s7).kind \in Keys!Statuses
    <3>1. /\ s13' = Append(s13, Head(s7).kind) /\ UNCHANGED <<Keys!dispatch, s5>>
          /\ Head(s7).kind \in Words /\ 1 \in Keys!Told
      BY <1>0, <1>33, <2>4, <2>7 DEF Keys!TakeEvent, Keys!Current, Keys!Statuses
    <3>2. QED
      BY <1>1, <2>1, <2>3, <2>5, <3>1 DEF Keys!dispatch
  <2>8. CASE Keys!Current(Head(s7)) /\ Head(s7).kind = "closed"
    <3>1. /\ s13' = Append(s13, "unavailable") /\ UNCHANGED <<s5, s10>>
          /\ s6' = "arming" /\ 1 \in Keys!Told
      BY <1>33, <2>4, <2>8 DEF Keys!TakeEvent, Keys!Current, Keys!Statuses
    <3>2. PICK s \in Words : s = "unavailable"
      BY <1>0
    <3>3. Keys!Fits(Head(s7).kind) => Keys!Fits(s)
      BY <2>8, <3>2 DEF Keys!Fits
    <3>4. QED
      BY <1>1, <2>3, <2>5, <3>1, <3>2, <3>3
  <2>9. CASE /\ Keys!Current(Head(s7)) /\ Head(s7).kind = "changed" /\ ~s9 /\ s8 # Keys!NoSpec
    <3>1. /\ s13' = Append(s13, "starting") /\ s10' = s10 + 1
          /\ s5' = [Keys!NoListener EXCEPT !.at = "install", !.spec = s8]
      BY <1>33, <2>9 DEF Keys!TakeEvent, Keys!Current, Keys!Statuses
    <3>2. \A i \in DOMAIN s7' : s7'[i].gen \in Nat /\ s7'[i].gen <= s10
      <4>1. SUFFICES ASSUME NEW i \in DOMAIN s7'
                     PROVE  s7'[i].gen \in Nat /\ s7'[i].gen <= s10
        OBVIOUS
      <4>2. i + 1 \in DOMAIN s7 /\ s7'[i] = s7[i + 1]
        BY <2>2
      <4>3. s7[i + 1] \in Keys!Events
        BY <1>1, <4>2
      <4>4. QED
        BY <1>1, <4>2, <4>3 DEF Keys!Events
    <3>3. Keys!Told' = {}
      BY <1>1, <3>1, <3>2 DEF Keys!Told
    <3>4. s5'.at = "install" /\ s5'.open = {} /\ s5'.got = {}
      BY <3>1 DEF Keys!NoListener
    <3>5. Keys!Fits("starting")'
      BY <3>4 DEF Keys!Fits, Keys!Up
    <3>6. s13' \in Seq(Words) /\ s13' # <<>> /\ s13'[Len(s13')] = "starting"
      <4>1. PICK s \in Words : s = "starting"
        BY <1>0
      <4>2. s13' = Append(s13, s)
        BY <3>1, <4>1
      <4>3. QED
        BY <1>1, <4>1, <4>2
    <3>7. QED
      BY <1>3, <3>3, <3>4, <3>5, <3>6, FiniteIsFinite DEF Keys!Reporting, Words
  <2>10. CASE Head(s7).kind = "reconfigure"
    <3>1. /\ s13' = s13 /\ s10' = s10 /\ s6' \in {"loop", "asking"}
          /\ s5' = s5 \/ s5' = [s5 EXCEPT !.command = s12.spec]
      BY <1>33, <2>1, <2>10 DEF Keys!TakeEvent, Keys!Current, Keys!Statuses
    <3>2. /\ s5'.at = s5.at /\ s5'.before = s5.before
          /\ s5'.open = s5.open /\ s5'.got = s5.got
      BY <1>1, <3>1 DEF Keys!Listeners
    <3>3. Keys!Up' = Keys!Up
      BY <3>2 DEF Keys!Up
    <3>4. 1 \notin Keys!Told
      BY <2>4, <2>10 DEF Keys!Statuses
    <3>5. QED
      BY <1>1, <2>3, <3>1, <3>2, <3>3, <3>4
  <2>11. QED
    BY <2>2, <2>6, <2>7, <2>8, <2>9, <2>10 DEF Keys!Current, Keys!Events
<1>34. QED
  BY <1>11, <1>12, <1>14, <1>15, <1>16, <1>17, <1>18, <1>19, <1>20, <1>24, <1>25, <1>27, <1>28,
     <1>29, <1>30, <1>31, <1>32, <1>33 DEF Keys!Next, Keys!Environment, Keys!Worker, Keys!Supervisor

\* The listener and its supervisor start in their invariant,
LEMMA ListenerInit == Keys!Init
  => Keys!Supervising /\ Keys!Agreeing /\ Keys!Reporting /\ Keys!Hearing
<1> SUFFICES ASSUME Keys!Init
             PROVE Keys!Supervising /\ Keys!Agreeing /\ Keys!Reporting /\ Keys!Hearing
  OBVIOUS
<1> USE ShortcutsAssumption
<1> USE DEF Keys!Starting, Keys!Running
<1>1. /\ s8 \in Shortcuts \cup {Keys!NoSpec} /\ s6 \in {"loop", "starting"} /\ s7 = <<>>
      /\ s9 = FALSE /\ s10 = 1 /\ s1 \in {"linux", "windows"} /\ s12 = Keys!NoRequest
      /\ s13 = <<>> /\ s15 = [agreed |-> s8, blinked |-> {}, lost |-> FALSE]
      /\ s4 = FALSE /\ s2 \in [Devices -> {"none", "ready"}]
      /\ s14 \in {"unavailable", "starting"} /\ (s8 # Keys!NoSpec => s6 = "starting")
  BY DEF Keys!Init
<1>2. /\ Keys!NoListener \in Keys!Listeners /\ Keys!NoListener.at = "none"
           /\ Keys!NoListener.open = {}
      /\ Keys!NoListener.got = {} /\ Keys!NoListener.todo = {} /\ Keys!NoListener.reply = "none"
      /\ Keys!NoListener.command = Keys!NoSpec
           /\ Keys!NoListener = [Keys!NoListener EXCEPT !.reply = "none"]
  <2>1. Keys!NoListener \in Keys!Listeners
    BY DEF Keys!NoListener, Keys!Listeners
  <2>2. Keys!NoListener = [Keys!NoListener EXCEPT !.reply = "none"]
    <3>1. PICK l \in Keys!Listeners : l = Keys!NoListener /\ l.reply = "none"
      BY <2>1 DEF Keys!NoListener
    <3>2. l = [l EXCEPT !.reply = "none"]
      BY <3>1 DEF Keys!Listeners
    <3>3. QED
      BY <3>1, <3>2
  <2>3. QED
    BY <2>1, <2>2 DEF Keys!NoListener
<1>3. /\ s5 \in Keys!Listeners /\ s5.open = {} /\ s5.got = {} /\ s5.todo = {}
      /\ s5.reply = "none" /\ s5.command = Keys!NoSpec
      /\ \/ s5 = Keys!NoListener /\ s5.at = "none" /\ s6 = "loop"
         \/ /\ s5.at = "install" /\ s5.spec = s8 /\ s8 \in Shortcuts
            /\ s6 = "starting"
  <2>1. CASE s8 = Keys!NoSpec
    BY <1>2, <2>1 DEF Keys!Init
  <2>2. CASE s8 # Keys!NoSpec
    <3>1. s8 \in SUBSET Devices /\ s8 \in Shortcuts
      BY <1>1, <2>2
    <3>2. s5 = [Keys!NoListener EXCEPT !.at = "install", !.spec = s8] /\ s6 = "starting"
      BY <2>2 DEF Keys!Init
    <3>3. s5 \in Keys!Listeners
      BY <1>2, <3>1, <3>2 DEF Keys!Listeners
    <3>4. /\ s5.open = {} /\ s5.got = {} /\ s5.todo = {} /\ s5.at = "install"
          /\ s5.reply = "none" /\ s5.command = Keys!NoSpec /\ s5.spec = s8
      BY <3>2 DEF Keys!NoListener
    <3>5. QED
      BY <3>1, <3>2, <3>3, <3>4
  <2>3. QED
    BY <2>1, <2>2
<1>4. s7 \in Seq(Keys!Events) /\ DOMAIN s7 = {} /\ s13 \in Seq(Keys!Statuses \cup {"starting"})
  BY <1>1
<1>5. Keys!Supervising
  BY <1>1, <1>2, <1>3, <1>4 DEF Keys!Supervising, Keys!Left, Keys!RecoveryIsArmed
<1>6. Keys!Agreeing
  BY <1>1, <1>2, <1>3, <1>4 DEF Keys!Agreeing, Keys!NoRequest
<1>7. Keys!Reporting
  <2>1. Keys!Told = {} /\ ~Keys!Up
    BY <1>2, <1>3, <1>4 DEF Keys!Told, Keys!Up
  <2>2. IsFiniteSet(s5.open) /\ IsFiniteSet(s5.got)
    BY <1>3, FS_EmptySet
  <2>3. QED
    BY <1>1, <1>4, <2>1, <2>2, FiniteIsFinite DEF Keys!Reporting, Keys!Fits
<1>8. Keys!Hearing
  <2>1. Keys!Telling
    BY <1>1, <1>2, <1>3 DEF Keys!Telling, Keys!Opening, Keys!Dead
  <2>2. Keys!Placing
    BY <1>1, <1>2, <1>3 DEF Keys!Placing, Keys!Opening, Keys!KeysOf, Keys!Unlike
  <2>3. Keys!Complete
    BY <1>2, <1>3 DEF Keys!Complete
  <2>4. QED
    BY <1>1, <2>1, <2>2, <2>3 DEF Keys!Hearing
<1>9. QED
  BY <1>5, <1>6, <1>7, <1>8

\* keep it when nothing happens,
LEMMA ListenerRests ==
  ASSUME Keys!Supervising, Keys!Agreeing, Keys!Reporting, Keys!Hearing, UNCHANGED Keys!vars
  PROVE  Keys!Supervising' /\ Keys!Agreeing' /\ Keys!Reporting' /\ Keys!Hearing'
<1>1. Keys!Supervising'
  BY DEF Keys!vars, Keys!Supervising, Keys!Left, Keys!RecoveryIsArmed
<1>2. Keys!Agreeing'
  BY DEF Keys!vars, Keys!Agreeing, Keys!Asked
<1>3. Keys!Reporting'
  <2>1. Keys!Told' = Keys!Told /\ Keys!Up' = Keys!Up
    BY DEF Keys!vars, Keys!Told, Keys!Up
  <2>2. QED
    BY <2>1 DEF Keys!vars, Keys!Reporting, Keys!Fits
<1>4. Keys!Hearing'
  BY HearsTheSame DEF Keys!vars
<1>5. QED
  BY <1>1, <1>2, <1>3, <1>4

\* and what it says of a listener that waits, of a status that arrived and of a
\* request that was answered is what was promised.
LEMMA ListenerFollows ==
  ASSUME Keys!Supervising, Keys!Agreeing, Keys!Reporting, Keys!Hearing
  PROVE  Keys!NoKeyboardIsMissed /\ Keys!StatusIsTrue /\ Keys!ShortcutIsAsAgreed
           /\ Keys!RecoveryIsArmed
<1> USE DEF Keys!Starting, Keys!Running
<1>1. Keys!NoKeyboardIsMissed
  <2>1. SUFFICES ASSUME s1 = "linux", s5.at = "poll", ~s4, Keys!Gone = {}, ~s5.blind
                 PROVE  LET ready == {k \in s5.spec : s2[k] = "ready"} IN
                          /\ Keys!KeysOf(s5.open) \subseteq ready
                          /\ ready \ s15.blinked \subseteq Keys!KeysOf(s5.open)
    BY DEF Keys!NoKeyboardIsMissed
  <2>2. Keys!Telling /\ Keys!Placing /\ Keys!Complete
    BY <2>1 DEF Keys!Hearing
  <2>3. \A h \in s5.open : h.key \in s5.spec /\ s2[h.key] = "ready"
    BY <2>1, <2>2 DEF Keys!Gone, Keys!Telling, Keys!Placing, Keys!KeysOf
  <2>4. Keys!Wanted(s5.spec) \subseteq Keys!KeysOf(s5.open)
    BY <2>1, <2>2 DEF Keys!Complete
  <2>5. QED
    BY <2>3, <2>4 DEF Keys!KeysOf, Keys!Wanted
<1>2. Keys!StatusIsTrue
  <2>1. SUFFICES ASSUME Keys!AtRest, ~s15.lost
                 PROVE  IF s9 /\ s5.open # {} THEN s14 \in {"ready", "discovery failed"}
                        ELSE s14 # "ready"
    BY DEF Keys!StatusIsTrue
  <2>2. s7 = <<>> /\ s13 = <<>> /\ s5.at \in {"none", "poll"}
    BY <2>1 DEF Keys!AtRest
  <2>3. Keys!Told = {}
    BY <2>2 DEF Keys!Told
  <2>4. Keys!Fits(s14)
    BY <2>1, <2>2, <2>3 DEF Keys!Reporting
  <2>5. Keys!Up <=> s5.at = "poll" /\ s5.open # {}
    BY <2>2 DEF Keys!Up
  <2>6. /\ s5.at = "none" => s5.open = {}
        /\ s5.at = "poll" => s9
    BY DEF Keys!Supervising, Keys!NoListener
  <2>7. QED
    BY <2>2, <2>4, <2>5, <2>6 DEF Keys!Fits
<1>3. Keys!ShortcutIsAsAgreed
  BY DEF Keys!Agreeing, Keys!ShortcutIsAsAgreed, Keys!NoRequest
<1>4. Keys!RecoveryIsArmed
  BY DEF Keys!Supervising
<1>5. QED
  BY <1>1, <1>2, <1>3, <1>4

Listening ==
  part = "hotkey listener" =>
    Keys!Supervising /\ Keys!Agreeing /\ Keys!Reporting /\ Keys!Hearing

\* The listener starts in its invariant where it is the part that runs,
LEMMA ListeningInit == Init => Listening
  BY ListenerInit DEF Init, Listening

\* and keeps it.
LEMMA ListeningStep == Listening /\ [Next]_vars => Listening'
<1> SUFFICES ASSUME Listening, [Next]_vars PROVE Listening'
  OBVIOUS
<1>1. CASE part = "hotkey listener" /\ Keys!Next /\ part' = part
  BY <1>1, SupervisingStep, AgreeingStep, ReportingStep, HearingStep DEF Listening
<1>2. CASE part # "hotkey listener" /\ part' = part
  BY <1>2 DEF Listening
<1>3. CASE UNCHANGED vars
  <2>1. part' = part /\ UNCHANGED Keys!vars
    BY <1>3 DEF vars, Keys!vars
  <2>2. QED
    BY <2>1, ListenerRests DEF Listening
<1>4. QED
  BY <1>1, <1>2, <1>3 DEF Next

\* A listener that waits has every keyboard open that has the shortcut, the daemon
\* shows what is so, a request that failed changes nothing, and a listener that
\* ended is waited for (native_hotkey/, hotkey_dispatch.rs).
THEOREM ShortcutStaysHeard == Spec => []ShortcutIsHeard
<1>1. Spec => []Listening
  BY ListeningInit, ListeningStep, PTL DEF Spec
<1>2. Listening => ShortcutIsHeard
  BY ListenerFollows DEF Listening, ShortcutIsHeard
<1>3. QED
  BY <1>1, <1>2, PTL

-----------------------------------------------------------------------------
(* The copilot's window: the calls it defers.  They are a sequence, so the *)
(* lemmas come first that say what a call added at the end, or taken from  *)
(* the front, changes.                                                     *)

\* The view w has one call more than v, or one less.
Adds(v, w, n, kind, to) ==
  /\ n \in Nat /\ n > 0 /\ DOMAIN w.calls = DOMAIN v.calls \cup {n}
  /\ \A i \in DOMAIN v.calls : i \in Nat /\ i > 0 /\ i < n /\ w.calls[i] = v.calls[i]
  /\ w.calls[n].call = kind /\ w.calls[n].to = to
Takes(v, w) ==
  /\ 1 \in DOMAIN v.calls
  /\ \A i \in DOMAIN v.calls :
       i \in Nat /\ i > 0 /\ (i > 1 => i - 1 \in DOMAIN w.calls /\ w.calls[i - 1] = v.calls[i])
  /\ \A i \in DOMAIN w.calls :
       i \in Nat /\ i > 0 /\ i + 1 \in DOMAIN v.calls /\ w.calls[i] = v.calls[i + 1]

\* A call added (with_host) is the last of the new calls.
LEMMA CallAdded ==
  ASSUME NEW calls \in Seq(View!Calls), NEW call \in View!Calls, NEW v, NEW w,
         v.calls = calls, w.calls = Append(calls, call)
  PROVE  /\ w.calls \in Seq(View!Calls)
         /\ \E n \in Nat : Adds(v, w, n, call.call, call.to)
<1>1. w.calls \in Seq(View!Calls)
  OBVIOUS
<1>2. PICK n \in Nat : n = Len(calls) + 1
  OBVIOUS
<1>3. DOMAIN w.calls = DOMAIN v.calls \cup {n} /\ n > 0 /\ w.calls[n] = call
  BY <1>2
<1>4. \A i \in DOMAIN v.calls : i \in Nat /\ i > 0 /\ i < n /\ w.calls[i] = v.calls[i]
  BY <1>2
<1>5. QED
  BY <1>1, <1>3, <1>4 DEF Adds

\* The first call is taken from the calls, and the others move up.
LEMMA CallTaken ==
  ASSUME NEW calls \in Seq(View!Calls), calls # <<>>, NEW v, NEW w,
         v.calls = calls, w.calls = Tail(calls)
  PROVE  /\ w.calls \in Seq(View!Calls) /\ Takes(v, w) /\ Head(v.calls) = v.calls[1]
<1>1. w.calls \in Seq(View!Calls) /\ Head(v.calls) = v.calls[1]
  OBVIOUS
<1>2. Len(w.calls) = Len(calls) - 1 /\ Len(calls) \in Nat /\ Len(calls) > 0
  OBVIOUS
<1>3. 1 \in DOMAIN v.calls
  BY <1>2
<1>4. \A i \in DOMAIN w.calls :
       i \in Nat /\ i > 0 /\ i + 1 \in DOMAIN v.calls /\ w.calls[i] = v.calls[i + 1]
  BY <1>2
<1>5. ASSUME NEW i \in DOMAIN v.calls
      PROVE  i \in Nat /\ i > 0 /\ (i > 1 => i - 1 \in DOMAIN w.calls /\ w.calls[i - 1] = v.calls[i])
  <2>1. i \in 1..Len(calls)
    OBVIOUS
  <2>2. CASE i > 1
    <3>1. i - 1 \in 1..Len(w.calls) /\ (i - 1) + 1 = i
      BY <1>2, <2>1, <2>2
    <3>2. i - 1 \in DOMAIN w.calls
      BY <1>1, <3>1
    <3>3. QED
      BY <1>4, <2>1, <3>1, <3>2
  <2>3. QED
    BY <2>1, <2>2
<1>6. QED
  BY <1>1, <1>3, <1>4, <1>5 DEF Takes

\* A call added of another kind leaves what the calls settle of this kind,
LEMMA SettlesKept ==
  ASSUME NEW v, NEW w, NEW n \in Nat, NEW kind, NEW to, Adds(v, w, n, kind, to),
         NEW other, other # kind, NEW now, NEW goal, View!Settles(v, other, now, goal)
  PROVE  View!Settles(w, other, now, goal)
<1>1. ASSUME NEW i, View!LaterTo(v, i, other, goal) PROVE View!LaterTo(w, i, other, goal)
  BY <1>1 DEF View!LaterTo, Adds
<1>2. now # goal => View!LaterTo(w, 0, other, goal)
  BY <1>1 DEF View!Settles
<1>3. ASSUME NEW i \in DOMAIN w.calls, w.calls[i].call = other, w.calls[i].to # goal
      PROVE  View!LaterTo(w, i, other, goal)
  <2>1. i \in DOMAIN v.calls /\ w.calls[i] = v.calls[i]
    BY <1>3 DEF Adds
  <2>2. QED
    BY <1>1, <1>3, <2>1 DEF View!Settles
<1>4. QED
  BY <1>2, <1>3 DEF View!Settles

\* and a call added of this kind settles it whatever was asked before.
LEMMA SettlesAnew ==
  ASSUME NEW v, NEW w, NEW n \in Nat, NEW kind, NEW to, Adds(v, w, n, kind, to), NEW now
  PROVE  View!Settles(w, kind, now, to)
<1>1. ASSUME NEW i, i = 0 \/ i \in DOMAIN v.calls PROVE View!LaterTo(w, i, kind, to)
  BY <1>1 DEF View!LaterTo, Adds
<1>2. ASSUME NEW i \in DOMAIN w.calls, w.calls[i].to # to PROVE i \in DOMAIN v.calls
  BY <1>2 DEF Adds
<1>3. QED
  BY <1>1, <1>2 DEF View!Settles

\* A call carried out leaves what the calls after it settle.
LEMMA SettlesTaken ==
  ASSUME NEW v, NEW w, Takes(v, w), NEW kind, NEW now, NEW goal, View!Settles(v, kind, now, goal),
         NEW later, \/ later = goal
                    \/ v.calls[1].call = kind /\ later = v.calls[1].to
                    \/ v.calls[1].call # kind /\ later = now
  PROVE  View!Settles(w, kind, later, goal)
<1>1. ASSUME NEW i \in Nat, View!LaterTo(v, i + 1, kind, goal) PROVE View!LaterTo(w, i, kind, goal)
  <2>1. PICK j \in DOMAIN v.calls : j > i + 1 /\ v.calls[j].call = kind /\ v.calls[j].to = goal
    BY <1>1 DEF View!LaterTo
  <2>2. j - 1 \in DOMAIN w.calls /\ w.calls[j - 1] = v.calls[j] /\ j - 1 > i
    BY <2>1 DEF Takes
  <2>3. QED
    BY <2>1, <2>2 DEF View!LaterTo
<1>2. ASSUME later # goal PROVE View!LaterTo(w, 0, kind, goal)
  <2>1. View!LaterTo(v, 1, kind, goal)
    <3>1. CASE v.calls[1].call = kind /\ later = v.calls[1].to
      BY <1>2, <3>1 DEF View!Settles, Takes
    <3>2. CASE v.calls[1].call # kind /\ later = now
      <4>1. PICK j \in DOMAIN v.calls : j > 0 /\ v.calls[j].call = kind /\ v.calls[j].to = goal
        BY <1>2, <3>2 DEF View!Settles, View!LaterTo
      <4>2. j > 1
        BY <3>2, <4>1 DEF Takes
      <4>3. QED
        BY <4>1, <4>2 DEF View!LaterTo
    <3>3. QED
      BY <1>2, <3>1, <3>2
  <2>2. QED
    BY <1>1, <2>1
<1>3. ASSUME NEW i \in DOMAIN w.calls, w.calls[i].call = kind, w.calls[i].to # goal
      PROVE  View!LaterTo(w, i, kind, goal)
  <2>1. i \in Nat /\ i + 1 \in DOMAIN v.calls /\ w.calls[i] = v.calls[i + 1]
    BY DEF Takes
  <2>2. View!LaterTo(v, i + 1, kind, goal)
    BY <1>3, <2>1 DEF View!Settles
  <2>3. QED
    BY <1>1, <2>1, <2>2
<1>4. QED
  BY <1>2, <1>3 DEF View!Settles

\* A call of another kind carried out leaves the call that is to come.
LEMMA LaterTaken ==
  ASSUME NEW v, NEW w, Takes(v, w), NEW kind, View!Later(v, 0, kind), v.calls[1].call # kind
  PROVE  View!Later(w, 0, kind)
<1>1. PICK j \in DOMAIN v.calls : v.calls[j].call = kind
  BY DEF View!Later
<1>2. j \in Nat /\ j > 0 /\ j # 1
  BY <1>1 DEF Takes
<1>3. j > 1
  BY <1>2
<1>4. j - 1 \in DOMAIN w.calls /\ w.calls[j - 1] = v.calls[j] /\ j - 1 > 0
  BY <1>1, <1>3 DEF Takes
<1>5. QED
  BY <1>1, <1>4 DEF View!Later

\* A call that neither begins nor ends typing leaves the turns they take,
LEMMA TurnsKept ==
  ASSUME NEW v, NEW w, NEW n \in Nat, NEW kind, NEW to, Adds(v, w, n, kind, to),
         kind \notin View!Turns, NEW first \in View!Turns, NEW last \in View!Turns,
         View!TakesTurns(v, first, last)
  PROVE  View!TakesTurns(w, first, last)
<1>1. ASSUME NEW i, NEW other, View!Later(v, i, other) PROVE View!Later(w, i, other)
  BY <1>1 DEF View!Later, Adds
<1>2. \A i \in DOMAIN w.calls :
        w.calls[i].call \in View!Turns => i \in DOMAIN v.calls /\ w.calls[i] = v.calls[i]
  BY DEF Adds
<1>3. \A i \in DOMAIN v.calls : i \in DOMAIN w.calls /\ w.calls[i] = v.calls[i]
  BY DEF Adds
<1>4. QED
  BY <1>1, <1>2, <1>3 DEF View!TakesTurns

\* one that begins or ends typing, where the last did the other, takes its turn,
LEMMA TurnsAnew ==
  ASSUME NEW v, NEW w, NEW n \in Nat, NEW to, NEW first \in View!Turns,
         NEW last \in View!Turns, NEW kind \in View!Turns, kind # last,
         Adds(v, w, n, kind, to), View!TakesTurns(v, first, last)
  PROVE  View!TakesTurns(w, first, kind)
<1>1. ASSUME NEW i, i = 0 \/ i \in DOMAIN v.calls
      PROVE  View!Later(w, i, kind)
  BY <1>1 DEF View!Later, Adds
<1>2. /\ n \in DOMAIN w.calls /\ w.calls[n].call = kind
      /\ \A i \in DOMAIN w.calls : i = n \/ i \in DOMAIN v.calls
      /\ \A i \in DOMAIN v.calls :
           i \in Nat /\ i \in DOMAIN w.calls /\ w.calls[i] = v.calls[i] /\ i < n
  BY DEF Adds
<1>3. \A x \in View!Turns : x = kind \/ x = last
  BY DEF View!Turns
\* The newest call of the kind before is behind every one like the new one.
<1>4. ASSUME NEW i \in DOMAIN v.calls, v.calls[i].call = kind
      PROVE  \E k \in DOMAIN w.calls : i < k /\ k < n /\ w.calls[k].call \in View!Turns \ {kind}
  <2>1. View!Later(v, i, last)
    BY <1>4 DEF View!TakesTurns
  <2>2. PICK k \in DOMAIN v.calls : k > i /\ v.calls[k].call = last
    BY <2>1 DEF View!Later
  <2>3. QED
    BY <1>2, <2>2
<1>5. ASSUME NEW i \in DOMAIN w.calls, w.calls[i].call = first
      PROVE  \E k \in DOMAIN w.calls : k < i /\ w.calls[k].call \in View!Turns \ {first}
  <2>1. CASE i \in DOMAIN v.calls
    BY <1>2, <1>5, <2>1 DEF View!TakesTurns
  <2>2. CASE i = n
    <3>1. View!Later(v, 0, last)
      BY <1>2, <1>5, <2>2 DEF View!TakesTurns
    <3>2. PICK k \in DOMAIN v.calls : v.calls[k].call = last
      BY <3>1 DEF View!Later
    <3>3. QED
      BY <1>2, <1>5, <2>2, <3>2
  <2>3. QED
    BY <1>2, <2>1, <2>2
<1>6. ASSUME NEW i \in DOMAIN w.calls, NEW j \in DOMAIN w.calls,
             i < j, w.calls[i].call \in View!Turns, w.calls[j].call = w.calls[i].call
      PROVE  \E k \in DOMAIN w.calls :
               i < k /\ k < j /\ w.calls[k].call \in View!Turns \ {w.calls[i].call}
  <2>1. i \in DOMAIN v.calls
    BY <1>2, <1>6
  <2>2. CASE j \in DOMAIN v.calls
    <3>1. \E k \in DOMAIN v.calls :
            i < k /\ k < j /\ v.calls[k].call \in View!Turns \ {v.calls[i].call}
      BY <1>2, <1>6, <2>1, <2>2 DEF View!TakesTurns
    <3>2. QED
      BY <1>2, <2>1, <3>1
  <2>3. CASE j = n
    BY <1>2, <1>4, <1>6, <2>1, <2>3
  <2>4. QED
    BY <1>2, <2>2, <2>3
<1>7. ASSUME NEW i \in DOMAIN w.calls, w.calls[i].call \in View!Turns \ {kind}
      PROVE  View!Later(w, i, kind)
  BY <1>1, <1>2, <1>7
<1>8. QED
  BY <1>1, <1>5, <1>6, <1>7 DEF View!TakesTurns

\* and so it does when it is carried out; it is never the one that was made last.
LEMMA TurnsTaken ==
  ASSUME NEW v, NEW w, Takes(v, w), NEW first \in View!Turns, NEW last \in View!Turns,
         View!TakesTurns(v, first, last), NEW next \in View!Turns,
         \/ v.calls[1].call = next
         \/ v.calls[1].call \notin View!Turns /\ next = first
  PROVE  View!TakesTurns(w, next, last) /\ v.calls[1].call # first
<1>1. ASSUME NEW i \in Nat, NEW other, View!Later(v, i + 1, other)
      PROVE  View!Later(w, i, other)
  <2>1. PICK j \in DOMAIN v.calls : j > i + 1 /\ v.calls[j].call = other
    BY <1>1 DEF View!Later
  <2>2. j - 1 \in DOMAIN w.calls /\ w.calls[j - 1] = v.calls[j] /\ j - 1 > i
    BY <2>1 DEF Takes
  <2>3. QED
    BY <2>1, <2>2 DEF View!Later
<1>2. /\ 1 \in DOMAIN v.calls
      /\ \A i \in DOMAIN v.calls : i \in Nat /\ i > 0
      /\ \A i \in DOMAIN w.calls :
           i \in Nat /\ i > 0 /\ i + 1 \in DOMAIN v.calls /\ w.calls[i] = v.calls[i + 1]
      /\ \A i \in DOMAIN v.calls :
           i > 1 => i - 1 \in DOMAIN w.calls /\ w.calls[i - 1] = v.calls[i]
  BY DEF Takes
<1>3. v.calls[1].call # first
  <2>1. \A k \in DOMAIN v.calls : ~(k < 1)
    BY <1>2
  <2>2. QED
    BY <1>2, <2>1 DEF View!TakesTurns
<1>4. ASSUME next # last PROVE View!Later(w, 0, last)
  <2>1. CASE v.calls[1].call = next
    <3>1. View!Later(v, 1, last)
      BY <1>2, <1>4, <2>1 DEF View!TakesTurns
    <3>2. QED
      BY <1>1, <3>1
  <2>2. CASE v.calls[1].call \notin View!Turns /\ next = first
    <3>1. View!Later(v, 0, last)
      BY <1>4, <2>2 DEF View!TakesTurns
    <3>2. PICK j \in DOMAIN v.calls : v.calls[j].call = last
      BY <3>1 DEF View!Later
    <3>3. j > 1
      BY <1>2, <2>2, <3>2
    <3>4. View!Later(v, 1, last)
      BY <3>2, <3>3 DEF View!Later
    <3>5. QED
      BY <1>1, <3>4
  <2>3. QED
    BY <2>1, <2>2
<1>5. ASSUME NEW i \in DOMAIN w.calls, w.calls[i].call \in View!Turns \ {last}
      PROVE  View!Later(w, i, last)
  <2>1. View!Later(v, i + 1, last)
    BY <1>2, <1>5 DEF View!TakesTurns
  <2>2. QED
    BY <1>1, <1>2, <2>1
<1>6. ASSUME NEW i \in DOMAIN w.calls, w.calls[i].call = next
      PROVE  \E k \in DOMAIN w.calls : k < i /\ w.calls[k].call \in View!Turns \ {next}
  <2>0. i \in Nat /\ i > 0 /\ i + 1 \in DOMAIN v.calls /\ v.calls[i + 1].call = next
    BY <1>2, <1>6
  <2>1. PICK k \in DOMAIN v.calls :
          k > 1 /\ k < i + 1 /\ v.calls[k].call \in View!Turns \ {next}
    <3>1. CASE v.calls[1].call = next
      <4>1. 1 < i + 1
        BY <2>0
      <4>2. QED
        BY <1>2, <2>0, <3>1, <4>1 DEF View!TakesTurns
    <3>2. CASE v.calls[1].call \notin View!Turns /\ next = first
      <4>1. PICK k \in DOMAIN v.calls : k < i + 1 /\ v.calls[k].call \in View!Turns \ {first}
        BY <2>0, <3>2 DEF View!TakesTurns
      <4>2. k # 1
        BY <3>2, <4>1
      <4>3. k > 1
        BY <1>2, <4>2
      <4>4. QED
        BY <3>2, <4>1, <4>3
    <3>3. QED
      BY <3>1, <3>2
  <2>2. k - 1 \in DOMAIN w.calls /\ w.calls[k - 1] = v.calls[k] /\ k - 1 < i
    BY <1>2, <2>0, <2>1
  <2>3. QED
    BY <2>1, <2>2
<1>7. ASSUME NEW i \in DOMAIN w.calls, NEW j \in DOMAIN w.calls,
             i < j, w.calls[i].call \in View!Turns, w.calls[j].call = w.calls[i].call
      PROVE  \E k \in DOMAIN w.calls :
               i < k /\ k < j /\ w.calls[k].call \in View!Turns \ {w.calls[i].call}
  <2>1. /\ i \in Nat /\ j \in Nat /\ i + 1 < j + 1
        /\ i + 1 \in DOMAIN v.calls /\ v.calls[i + 1] = w.calls[i]
        /\ j + 1 \in DOMAIN v.calls /\ v.calls[j + 1] = w.calls[j]
    BY <1>2, <1>7
  <2>2. PICK k \in DOMAIN v.calls :
          i + 1 < k /\ k < j + 1 /\ v.calls[k].call \in View!Turns \ {w.calls[i].call}
    BY <1>7, <2>1 DEF View!TakesTurns
  <2>3. k \in Nat /\ k > 1
    BY <1>2, <2>1, <2>2
  <2>4. k - 1 \in DOMAIN w.calls /\ w.calls[k - 1] = v.calls[k] /\ i < k - 1 /\ k - 1 < j
    BY <1>2, <2>1, <2>2, <2>3
  <2>5. QED
    BY <2>2, <2>4
<1>8. QED
  BY <1>3, <1>4, <1>5, <1>6, <1>7 DEF View!TakesTurns


-----------------------------------------------------------------------------
(* The copilot's window: the view and its handlers.                        *)

\* A handler that asks something of the native window leaves a view that is in line,
LEMMA Requested ==
  ASSUME NEW v, NEW w \in View!Views, View!Lined(v), s2.noActivate \in BOOLEAN,
         NEW call \in View!Calls, w.calls = Append(v.calls, call),
         w.visible = IF call.call = "show" THEN call.to ELSE v.visible,
         w.size = IF call.call = "resize" THEN call.to ELSE v.size,
         w.excluded = IF call.call = "exclude" THEN call.to ELSE v.excluded,
         w.typing = IF call.call \in View!Turns THEN ~v.typing ELSE v.typing,
         call.call \in View!Turns => call.call = View!Turn(w.typing)
  PROVE  View!Lined(w)
<1>1. v \in View!Views /\ v.calls \in Seq(View!Calls) /\ v.typing \in BOOLEAN
  BY DEF View!Lined, View!Views
<1>2. PICK n \in Nat : Adds(v, w, n, call.call, call.to)
  BY <1>1, CallAdded
<1>3. View!Settles(w, "show", s2.shown, w.visible)
  <2>1. CASE call.call = "show"
    BY <1>2, <2>1, SettlesAnew
  <2>2. CASE call.call # "show"
    BY <1>2, <2>2, SettlesKept DEF View!Lined
  <2>3. QED
    BY <2>1, <2>2
<1>4. View!Settles(w, "resize", s2.panel, w.size)
  <2>1. CASE call.call = "resize"
    BY <1>2, <2>1, SettlesAnew
  <2>2. CASE call.call # "resize"
    BY <1>2, <2>2, SettlesKept DEF View!Lined
  <2>3. QED
    BY <2>1, <2>2
<1>5. View!Settles(w, "exclude", IF "share" \in s12 THEN w.excluded ELSE s2.hidden, w.excluded)
  <2>1. CASE call.call = "exclude"
    BY <1>2, <2>1, SettlesAnew
  <2>2. CASE call.call # "exclude"
    BY <1>2, <2>2, SettlesKept DEF View!Lined
  <2>3. QED
    BY <2>1, <2>2
<1>6. /\ View!Turn(~s2.noActivate) \in View!Turns /\ View!Turn(v.typing) \in View!Turns
      /\ View!Turn(w.typing) \in View!Turns
      /\ w.typing = ~v.typing => View!Turn(w.typing) # View!Turn(v.typing)
  BY <1>1 DEF View!Turn, View!Turns
<1>7. View!TakesTurns(w, View!Turn(~s2.noActivate), View!Turn(w.typing))
  <2>0. View!TakesTurns(v, View!Turn(~s2.noActivate), View!Turn(v.typing))
    BY DEF View!Lined
  <2>1. CASE call.call \in View!Turns
    <3>1. Adds(v, w, n, View!Turn(w.typing), call.to) /\ View!Turn(w.typing) # View!Turn(v.typing)
      BY <1>2, <1>6, <2>1
    <3>2. QED
      BY <1>6, <2>0, <3>1, TurnsAnew
  <2>2. CASE call.call \notin View!Turns
    <3>1. w.typing = v.typing
      BY <2>2
    <3>2. QED
      BY <1>2, <1>6, <2>0, <2>2, <3>1, TurnsKept
  <2>3. QED
    BY <2>1, <2>2
<1>8. w.typing /\ View!Away => View!Later(w, 0, "begin typing")
  <2>1. CASE call.call = "begin typing"
    BY <1>2, <2>1 DEF View!Later, Adds
  <2>2. CASE call.call = "end typing"
    <3>1. View!Turn(w.typing) = "end typing"
      BY <2>2 DEF View!Turns
    <3>2. QED
      BY <3>1 DEF View!Turn
  <2>3. CASE call.call \notin View!Turns
    <3>1. w.typing = v.typing
      BY <2>3
    <3>2. View!Later(v, 0, "begin typing") => View!Later(w, 0, "begin typing")
      BY <1>2 DEF View!Later, Adds
    <3>3. QED
      BY <3>1, <3>2 DEF View!Lined
  <2>4. QED
    BY <2>1, <2>2, <2>3 DEF View!Turns
<1>9. QED
  BY <1>3, <1>4, <1>5, <1>7, <1>8 DEF View!Lined

\* and so does one that changes only what the view itself shows.
LEMMA Redrawn ==
  ASSUME NEW v, NEW w \in View!Views, View!Lined(v), w.calls = v.calls,
         w.visible = v.visible, w.size = v.size, w.excluded = v.excluded, w.typing = v.typing
  PROVE  View!Lined(w)
<1>1. /\ View!Settles(w, "show", s2.shown, w.visible)
      /\ View!Settles(w, "resize", s2.panel, w.size)
      /\ View!Settles(w, "exclude", IF "share" \in s12 THEN w.excluded ELSE s2.hidden, w.excluded)
  <2>1. ASSUME NEW kind, NEW now, NEW goal, View!Settles(v, kind, now, goal)
        PROVE  View!Settles(w, kind, now, goal)
    BY <2>1 DEF View!Settles, View!LaterTo
  <2>2. /\ View!Settles(v, "show", s2.shown, w.visible)
        /\ View!Settles(v, "resize", s2.panel, w.size)
        /\ View!Settles(v, "exclude", IF "share" \in s12 THEN w.excluded ELSE s2.hidden, w.excluded)
    BY DEF View!Lined
  <2>3. QED
    BY <2>1, <2>2
<1>2. View!TakesTurns(w, View!Turn(~s2.noActivate), View!Turn(w.typing))
  <2>1. ASSUME NEW first, NEW last, View!TakesTurns(v, first, last)
        PROVE  View!TakesTurns(w, first, last)
    BY <2>1 DEF View!TakesTurns, View!Later
  <2>2. View!TakesTurns(v, View!Turn(~s2.noActivate), View!Turn(w.typing))
    BY DEF View!Lined
  <2>3. QED
    BY <2>1, <2>2
<1>3. w.typing /\ View!Away => View!Later(w, 0, "begin typing")
  BY DEF View!Lined, View!Later
<1>4. QED
  BY <1>1, <1>2, <1>3 DEF View!Lined

\* Typing ends (stop_typing): nobody types into the view then.
LEMMA Stopped ==
  ASSUME NEW v, View!Lined(v), s2.noActivate \in BOOLEAN, NEW restore \in BOOLEAN
  PROVE  LET w == View!StopTyping(v, restore)
         IN /\ View!Lined(w) /\ View!Placed(w) /\ w.typing = FALSE
            /\ w.visible = v.visible /\ w.panel = v.panel
<1>0. v \in View!Views /\ v.typing \in BOOLEAN
  BY DEF View!Lined, View!Views
<1>1. CASE ~v.typing
  BY <1>0, <1>1 DEF View!StopTyping, View!Placed
<1>2. CASE v.typing
  <2>0. PICK call : call = [call |-> "end typing", to |-> restore]
    OBVIOUS
  <2>1. PICK w : w = [v EXCEPT !.typing = FALSE, !.calls = Append(@, call)]
    OBVIOUS
  <2>2. View!StopTyping(v, restore) = w
    BY <1>0, <1>2, <2>0, <2>1 DEF View!StopTyping, View!WithHost, View!Views
  <2>3. call \in View!Calls /\ call.call = "end typing" /\ call.to = restore
    BY <2>0 DEF View!Calls
  <2>4. Append(v.calls, call) \in Seq(View!Calls)
    <3>1. v.calls \in Seq(View!Calls)
      BY <1>0 DEF View!Views
    <3>2. call \in View!Calls
      BY <2>3
    <3>3. QED
      BY <3>1, <3>2
  <2>5. w \in View!Views
    BY <1>0, <2>1, <2>4 DEF View!Views
  <2>6. /\ w.calls = Append(v.calls, call) /\ w.typing = FALSE /\ w.panel = v.panel
        /\ w.visible = v.visible /\ w.size = v.size /\ w.excluded = v.excluded
    BY <1>0, <2>1 DEF View!Views
  <2>7. View!Lined(w)
    BY <1>2, <2>3, <2>5, <2>6, Requested DEF View!Turns, View!Turn
  <2>8. QED
    BY <2>2, <2>6, <2>7 DEF View!Placed
<1>3. QED
  BY <1>0, <1>1, <1>2

\* Typing begins (start_settings_typing), whether it had begun before or not.
LEMMA Begun ==
  ASSUME NEW v, View!Lined(v), s2.noActivate \in BOOLEAN
  PROVE  LET w == View!BeginTyping(v)
         IN View!Lined(w) /\ w.typing = TRUE /\ w.visible = v.visible /\ w.panel = v.panel
<1>0. v \in View!Views /\ v.typing \in BOOLEAN
  BY DEF View!Lined, View!Views
<1>1. CASE v.typing
  BY <1>0, <1>1 DEF View!BeginTyping
<1>2. CASE ~v.typing
  <2>0. PICK call : call = [call |-> "begin typing", to |-> TRUE]
    OBVIOUS
  <2>1. PICK w : w = [v EXCEPT !.typing = TRUE, !.calls = Append(@, call)]
    OBVIOUS
  <2>2. View!BeginTyping(v) = w
    BY <1>0, <1>2, <2>0, <2>1 DEF View!BeginTyping, View!WithHost, View!Views
  <2>3. call \in View!Calls /\ call.call = "begin typing" /\ call.to = TRUE
    BY <2>0 DEF View!Calls
  <2>4. Append(v.calls, call) \in Seq(View!Calls)
    <3>1. v.calls \in Seq(View!Calls)
      BY <1>0 DEF View!Views
    <3>2. call \in View!Calls
      BY <2>3
    <3>3. QED
      BY <3>1, <3>2
  <2>5. w \in View!Views
    BY <1>0, <2>1, <2>4 DEF View!Views
  <2>6. /\ w.calls = Append(v.calls, call) /\ w.typing = TRUE /\ w.panel = v.panel
        /\ w.visible = v.visible /\ w.size = v.size /\ w.excluded = v.excluded
    BY <1>0, <2>1 DEF View!Views
  <2>7. View!Lined(w)
    BY <1>2, <2>3, <2>5, <2>6, Requested DEF View!Turns, View!Turn
  <2>8. QED
    BY <2>2, <2>6, <2>7
<1>3. QED
  BY <1>0, <1>1, <1>2

\* The window is shown or hidden (set_visible), and typing ends with it.
LEMMA Shown ==
  ASSUME NEW v, View!Lined(v), s2.noActivate \in BOOLEAN, NEW visible \in BOOLEAN
  PROVE  LET w == View!SetVisible(v, visible)
         IN /\ View!Lined(w) /\ (View!Placed(v) => View!Placed(w))
            /\ w.visible = visible /\ w.panel = v.panel
<1>0. v \in View!Views
  BY DEF View!Lined
<1>1. CASE v.visible = visible
  BY <1>1 DEF View!SetVisible
<1>2. CASE v.visible # visible
  <2>0. PICK call : call = [call |-> "show", to |-> visible]
    OBVIOUS
  <2>1. PICK u : u = IF visible THEN v ELSE View!StopTyping(v, TRUE)
    OBVIOUS
  <2>2. /\ View!Lined(u) /\ u \in View!Views /\ u.visible = v.visible /\ u.panel = v.panel
        /\ ~visible => u.typing = FALSE
        /\ visible => u = v
    BY <2>1, Stopped DEF View!Lined
  <2>3. PICK w : w = [u EXCEPT !.visible = visible, !.calls = Append(@, call)]
    OBVIOUS
  <2>4. View!SetVisible(v, visible) = w
    BY <1>2, <2>0, <2>1, <2>2, <2>3 DEF View!SetVisible, View!WithHost, View!Views
  <2>5. call \in View!Calls /\ call.call = "show" /\ call.to = visible
    BY <2>0 DEF View!Calls
  <2>6. Append(u.calls, call) \in Seq(View!Calls)
    <3>1. u.calls \in Seq(View!Calls)
      BY <2>2 DEF View!Views
    <3>2. QED
      BY <2>5, <3>1
  <2>7. w \in View!Views
    BY <2>2, <2>3, <2>6 DEF View!Views
  <2>8. /\ w.calls = Append(u.calls, call) /\ w.typing = u.typing /\ w.panel = u.panel
        /\ w.visible = visible /\ w.size = u.size /\ w.excluded = u.excluded
    BY <2>2, <2>3 DEF View!Views
  <2>9. View!Lined(w)
    BY <2>2, <2>5, <2>7, <2>8, Requested DEF View!Turns
  <2>10. View!Placed(v) => View!Placed(w)
    BY <2>2, <2>8 DEF View!Placed
  <2>11. QED
    BY <2>2, <2>4, <2>8, <2>9, <2>10
<1>3. QED
  BY <1>1, <1>2

\* A view drawn while the native window stays as it is.
LEMMA Drawn ==
  ASSUME NEW w, s1' = w, View!Lined(w), View!Placed(w), s2' = s2,
         "share" \in s12' <=> "share" \in s12, View!Away' => View!Away
  PROVE  View!Lined(s1)' /\ View!Placed(s1)'
<1>1. View!Placed(s1)'
  BY DEF View!Placed
<1>2. (IF "share" \in s12' THEN w.excluded ELSE s2'.hidden)
        = IF "share" \in s12 THEN w.excluded ELSE s2.hidden
  OBVIOUS
<1>3. /\ View!Settles(s1', "show", s2'.shown, s1'.visible)
      /\ View!Settles(s1', "resize", s2'.panel, s1'.size)
      /\ View!Settles(s1', "exclude", IF "share" \in s12' THEN s1'.excluded ELSE s2'.hidden, s1'.excluded)
      /\ View!TakesTurns(s1', View!Turn(~s2'.noActivate), View!Turn(s1'.typing))
      /\ s1' \in View!Views
  BY <1>2 DEF View!Lined
<1>4. s1'.typing /\ View!Away' => View!Later(s1', 0, "begin typing")
  BY DEF View!Lined
<1>5. QED
  BY <1>1, <1>3, <1>4 DEF View!Lined

\* An event of the session leaves the window in line if the view it draws is.
LEMMA ViewEvent ==
  ASSUME View!Following, NEW w, View!Lined(w), View!Placed(w), View!Event(w),
         s8' \in Seq(View!Choices)
  PROVE  View!Following' /\ View!GivesBack
<1> USE DEF View!Event, View!Move, View!Becomes, View!Unfocused
<1>1. View!Lined(s1)' /\ View!Placed(s1)'
  <2>1. s1' = w /\ s2' = s2 /\ s12' = s12 /\ (View!Away' => View!Away)
    BY DEF View!Away
  <2>2. QED
    BY <2>1, Drawn
<1>2. View!Owned'
  BY DEF View!Owned, View!Following
<1>3. View!GivesBack
  BY DEF View!GivesBack
<1>4. QED
  BY <1>1, <1>2, <1>3 DEF View!Following

\* A key leaves it in line,
LEMMA ViewKey ==
  ASSUME View!Following, NEW w, View!Lined(w), View!Placed(w), View!Key(w),
         s6' \in View!Choices, s7' \in {0, 1}, s8' \in Seq(View!Choices)
  PROVE  View!Following' /\ View!GivesBack
<1> USE DEF View!Key, View!Move, View!Becomes, View!Unfocused
<1>1. View!Lined(s1)' /\ View!Placed(s1)'
  <2>1. s1' = w /\ s2' = s2 /\ s12' = s12 /\ (View!Away' => View!Away)
    BY DEF View!Away
  <2>2. QED
    BY <2>1, Drawn
<1>2. View!Owned'
  BY DEF View!Owned, View!Following
<1>3. View!GivesBack
  BY DEF View!GivesBack
<1>4. QED
  BY <1>1, <1>2, <1>3 DEF View!Following

\* and a click, whether it brings the keyboard or not.
LEMMA ViewClick ==
  ASSUME View!Following, NEW w, View!Lined(w), View!Placed(w), View!Click(w),
         s6' \in View!Choices, s7' \in {0, 1}, s8' \in Seq(View!Choices)
  PROVE  View!Following' /\ View!GivesBack
<1> USE DEF View!Move, View!Becomes
<1>0. /\ s1' = w /\ UNCHANGED <<s2, s4, s9>> /\ s10' = s10 + 1 /\ s5 = 0
      /\ \/ UNCHANGED <<s3, s5, s11, s12>>
         \/ /\ s3' = "copilot" /\ s5' = s5 /\ s3 # "copilot" /\ ~s2.noActivate
            /\ s12' = s12 \cup {"focus"}
            /\ s11' = s11
  BY WindowsAssumption DEF View!Click, View!Unfocused, View!Focus, View!Copilot
<1>1. View!Lined(s1)' /\ View!Placed(s1)'
  <2>1. /\ s1' = w /\ s2' = s2 /\ ("share" \in s12' <=> "share" \in s12)
        /\ View!Away' => View!Away
    BY <1>0 DEF View!Away, View!Copilot
  <2>2. QED
    BY <2>1, Drawn
<1>2. View!Owned'
  <2>1. CASE s3' = s3 /\ s5' = s5 /\ s11' = s11 /\ s12' = s12
    BY <1>0, <2>1 DEF View!Owned, View!Following
  <2>2. CASE s3' = "copilot" /\ s12' = s12 \cup {"focus"} /\ s5' = s5
    BY <1>0, <2>2, WindowsAssumption DEF View!Owned, View!Following, View!Copilot
  <2>3. \/ s3' = s3 /\ s5' = s5 /\ s11' = s11 /\ s12' = s12
        \/ s3' = "copilot" /\ s12' = s12 \cup {"focus"} /\ s5' = s5
    BY <1>0
  <2>4. QED
    BY <2>1, <2>2, <2>3
<1>3. View!GivesBack
  <2>1. s10 \in Nat /\ s10' = s10 + 1
    BY <1>0 DEF View!Owned, View!Following
  <2>2. s10' # s10
    BY <2>1
  <2>3. QED
    BY <2>2 DEF View!GivesBack
<1>4. QED
  BY <1>1, <1>2, <1>3 DEF View!Following

\* The native window does what it was asked first.
LEMMA Served ==
  ASSUME View!Following, NEW kind, View!Called(kind),
         s2'.shown = IF kind = "show" THEN View!To ELSE s2.shown,
         s2'.panel = IF kind = "resize" THEN View!To ELSE s2.panel,
         \/ "share" \in s12'
         \/ kind = "exclude" /\ s2'.hidden = View!To
         \/ kind # "exclude" /\ s2'.hidden = s2.hidden /\ "share" \notin s12,
         s2'.noActivate = IF kind = "begin typing" THEN FALSE
                          ELSE IF kind = "end typing" THEN TRUE ELSE s2.noActivate,
         View!Away' => View!Away /\ kind # "begin typing"
  PROVE  /\ View!Lined(s1)' /\ View!Placed(s1)'
         /\ kind = "begin typing" => s2.noActivate
<1>0. /\ s1 \in View!Views /\ s1.calls \in Seq(View!Calls) /\ s1.calls # <<>>
      /\ s1.typing \in BOOLEAN /\ s2.noActivate \in BOOLEAN
      /\ s1' = [s1 EXCEPT !.calls = Tail(@)] /\ Head(s1.calls).call = kind
  BY DEF View!Following, View!Lined, View!Views, View!Called, View!Owned
<1>1. PICK w : w = s1'
  OBVIOUS
<1>2. /\ w.calls = Tail(s1.calls) /\ w.typing = s1.typing /\ w.visible = s1.visible
      /\ w.size = s1.size /\ w.excluded = s1.excluded /\ w.panel = s1.panel
  BY <1>0, <1>1 DEF View!Views
<1>3. w.calls \in Seq(View!Calls) /\ Takes(s1, w) /\ Head(s1.calls) = s1.calls[1]
  <2>1. PICK v : v = s1
    OBVIOUS
  <2>2. PICK calls \in Seq(View!Calls) : calls = s1.calls
    BY <1>0
  <2>3. calls # <<>> /\ v.calls = calls /\ w.calls = Tail(calls)
    BY <1>0, <1>2, <2>1, <2>2
  <2>4. w.calls \in Seq(View!Calls) /\ Takes(v, w) /\ Head(v.calls) = v.calls[1]
    BY <2>2, <2>3, CallTaken
  <2>5. QED
    BY <2>1, <2>4
<1>4. w \in View!Views
  BY <1>0, <1>1, <1>2, <1>3 DEF View!Views
<1>5. s1.calls[1].call = kind /\ s1.calls[1].to = View!To
  BY <1>0, <1>3 DEF View!To
<1>6. /\ View!Settles(s1, "show", s2.shown, s1.visible)
      /\ View!Settles(s1, "resize", s2.panel, s1.size)
      /\ View!Settles(s1, "exclude", IF "share" \in s12 THEN s1.excluded ELSE s2.hidden, s1.excluded)
      /\ View!TakesTurns(s1, View!Turn(~s2.noActivate), View!Turn(s1.typing))
      /\ s1.typing /\ View!Away => View!Later(s1, 0, "begin typing")
  BY DEF View!Following, View!Lined
<1>7. View!Settles(w, "show", s2'.shown, w.visible)
  BY <1>2, <1>3, <1>5, <1>6, SettlesTaken
<1>8. View!Settles(w, "resize", s2'.panel, w.size)
  BY <1>2, <1>3, <1>5, <1>6, SettlesTaken
<1>9. View!Settles(w, "exclude", IF "share" \in s12' THEN w.excluded ELSE s2'.hidden, w.excluded)
  <2>1. PICK later : later = IF "share" \in s12' THEN w.excluded ELSE s2'.hidden
    OBVIOUS
  <2>2. PICK now : now = IF "share" \in s12 THEN s1.excluded ELSE s2.hidden
    OBVIOUS
  <2>3. \/ later = w.excluded
        \/ s1.calls[1].call = "exclude" /\ later = s1.calls[1].to
        \/ s1.calls[1].call # "exclude" /\ later = now
    BY <1>5, <2>1, <2>2
  <2>4. View!Settles(s1, "exclude", now, w.excluded)
    BY <1>2, <1>6, <2>2
  <2>5. View!Settles(w, "exclude", later, w.excluded)
    BY <1>3, <2>3, <2>4, SettlesTaken
  <2>6. QED
    BY <2>1, <2>5
<1>10. /\ View!TakesTurns(w, View!Turn(~s2'.noActivate), View!Turn(w.typing))
       /\ kind # View!Turn(~s2.noActivate)
  <2>1. PICK first, next, last :
          /\ first = View!Turn(~s2.noActivate) /\ next = View!Turn(~s2'.noActivate)
          /\ last = View!Turn(s1.typing)
    OBVIOUS
  <2>2. first \in View!Turns /\ next \in View!Turns /\ last \in View!Turns
    BY <2>1 DEF View!Turn, View!Turns
  <2>3. kind = next \/ (kind \notin View!Turns /\ next = first)
    <3>1. CASE kind = "begin typing"
      <4>1. ~s2'.noActivate
        BY <3>1
      <4>2. next = IF s2'.noActivate THEN "end typing" ELSE "begin typing"
        BY <2>1 DEF View!Turn
      <4>3. QED
        BY <3>1, <4>1, <4>2
    <3>2. CASE kind = "end typing"
      <4>1. s2'.noActivate
        BY <3>2
      <4>2. next = IF s2'.noActivate THEN "end typing" ELSE "begin typing"
        BY <2>1 DEF View!Turn
      <4>3. QED
        BY <3>2, <4>1, <4>2
    <3>3. CASE kind \notin View!Turns
      <4>1. s2'.noActivate = s2.noActivate
        BY <3>3 DEF View!Turns
      <4>2. QED
        BY <2>1, <3>3, <4>1
    <3>4. QED
      BY <3>1, <3>2, <3>3 DEF View!Turns
  <2>4. View!TakesTurns(s1, first, last)
    BY <1>6, <2>1
  <2>5. View!TakesTurns(w, next, last) /\ kind # first
    BY <1>3, <1>5, <2>2, <2>3, <2>4, TurnsTaken
  <2>6. QED
    BY <1>2, <2>1, <2>5
<1>11. ASSUME w.typing, View!Away' PROVE View!Later(w, 0, "begin typing")
  <2>1. CASE kind = "end typing"
    <3>1. View!Turn(~s2'.noActivate) = "end typing" /\ View!Turn(w.typing) = "begin typing"
      BY <1>11, <2>1 DEF View!Turn
    <3>2. QED
      BY <1>10, <3>1 DEF View!TakesTurns
  <2>2. CASE kind # "end typing"
    <3>1. kind # "begin typing" /\ View!Later(s1, 0, "begin typing")
      BY <1>2, <1>6, <1>11
    <3>2. QED
      BY <1>3, <1>5, <3>1, LaterTaken
  <2>3. QED
    BY <2>1, <2>2
<1>12. View!Lined(s1)'
  BY <1>1, <1>4, <1>7, <1>8, <1>9, <1>10, <1>11 DEF View!Lined
<1>13. View!Placed(s1)'
  BY <1>1, <1>2 DEF View!Placed, View!Following
<1>14. kind = "begin typing" => s2.noActivate
  BY <1>0, <1>10 DEF View!Turn
<1>15. QED
  BY <1>12, <1>13, <1>14

\* Each of the calls keeps the invariant, and gives the keyboard back where it was.
LEMMA CallsServed ==
  ASSUME View!Following,
         \/ View!BeginTypingCall \/ View!EndTypingCall \/ View!ResizeCall
         \/ View!ShowCall \/ View!ExcludeCall
  PROVE  View!Following' /\ View!GivesBack
<1> USE WindowsAssumption
<1> USE DEF View!HostOnly, View!Unfocused, View!Focus, View!Force, View!Copilot, View!NoApp
<1>0. /\ s2 \in [noActivate : BOOLEAN, previous : Windows \cup {"none"}, shown : BOOLEAN,
                 hidden : BOOLEAN, panel : BOOLEAN]
      /\ s5 \in Nat /\ s3 \in Windows \cup {"copilot", "none"} /\ s4 \subseteq Windows
      /\ s6 \in View!Choices /\ s7 \in {0, 1} /\ s8 \in Seq(View!Choices) /\ s10 \in Nat
      /\ s3 \in Windows => s11 = s3
      /\ s2.noActivate => s2.previous = "none"
      /\ s3 = "copilot" /\ s2.previous # "none" /\ "focus" \notin s12 => s11 = s2.previous
  BY DEF View!Following, View!Owned
<1>1. ASSUME NEW kind, View!Called(kind), kind \in {"begin typing", "end typing", "resize", "show", "exclude"}
      PROVE  View!To \in BOOLEAN
  <2>1. Head(s1.calls) \in View!Calls
    <3>1. s1.calls \in Seq(View!Calls) /\ s1.calls # <<>>
      BY <1>1 DEF View!Following, View!Lined, View!Views, View!Called
    <3>2. QED
      BY <3>1
  <2>2. QED
    BY <2>1 DEF View!To, View!Calls
<1>2. CASE View!BeginTypingCall
  <2>1. View!Called("begin typing") /\ UNCHANGED <<s4, s6, s7, s8, s9, s10, s13>>
    BY <1>2 DEF View!BeginTypingCall
  <2>2. s2' = [s2 EXCEPT !.noActivate = FALSE, !.previous = IF s3 \in Windows THEN s3 ELSE @]
    BY <1>2 DEF View!BeginTypingCall
  <2>3. \/ s3' = "copilot" /\ s5' = s5 /\ s11' = s11 /\ s12' = s12 \ {"focus"}
        \/ UNCHANGED <<s3, s5, s11>> /\ s12' = s12 \cup {"focus"}
    BY <1>2 DEF View!BeginTypingCall
  <2>4. /\ s2'.shown = s2.shown /\ s2'.panel = s2.panel /\ s2'.hidden = s2.hidden
        /\ s2'.noActivate = FALSE
        /\ s2'.previous = IF s3 \in Windows THEN s3 ELSE s2.previous
        /\ s2' \in [noActivate : BOOLEAN, previous : Windows \cup {"none"}, shown : BOOLEAN,
                     hidden : BOOLEAN, panel : BOOLEAN]
    BY <1>0, <2>2
  <2>5. View!Lined(s1)' /\ View!Placed(s1)' /\ s2.noActivate
    <3>1. ~View!Away' /\ ("share" \in s12' <=> "share" \in s12)
      BY <2>3 DEF View!Away
    <3>2. QED
      BY <2>1, <2>4, <3>1, Served
  <2>6. View!Owned'
    <3>1. s3' \in Windows \cup {"copilot", "none"} /\ s5' \in Nat /\ (s3' \in Windows => s11' = s3')
      BY <1>0, <2>3
    <3>2. s3' = "copilot" /\ s2'.previous # "none" /\ "focus" \notin s12' => s11' = s2'.previous
      BY <1>0, <2>3, <2>4, <2>5
    <3>3. QED
      BY <1>0, <2>1, <2>4, <3>1, <3>2 DEF View!Owned
  <2>7. View!GivesBack
    BY <2>1, <2>3 DEF View!GivesBack, View!Called
  <2>8. QED
    BY <2>5, <2>6, <2>7 DEF View!Following
<1>3. CASE View!EndTypingCall
  <2>1. View!Called("end typing") /\ UNCHANGED <<s4, s6, s7, s8, s9, s10, s13>>
    BY <1>3 DEF View!EndTypingCall
  <2>2. /\ s2' = [s2 EXCEPT !.noActivate = TRUE, !.previous = "none"]
        /\ s2'.shown = s2.shown /\ s2'.panel = s2.panel /\ s2'.hidden = s2.hidden
        /\ s2'.noActivate = TRUE /\ s2'.previous = "none"
        /\ s2' \in [noActivate : BOOLEAN, previous : Windows \cup {"none"}, shown : BOOLEAN,
                     hidden : BOOLEAN, panel : BOOLEAN]
    BY <1>0, <1>3 DEF View!EndTypingCall
  <2>3. \/ /\ s2.previous \in s4 /\ s3 = "copilot" /\ s3' = s2.previous
           /\ s5' = s5 + 1 /\ s11' = s3' /\ s12' = s12 \ {"focus"}
        \/ UNCHANGED <<s3, s5, s11>> /\ s12' \in {s12, s12 \cup {"focus"}}
    BY <1>0, <1>3 DEF View!EndTypingCall
  <2>4. View!Lined(s1)' /\ View!Placed(s1)'
    <3>1. (View!Away' => View!Away) /\ ("share" \in s12' <=> "share" \in s12)
      BY <1>0, <2>3 DEF View!Away
    <3>2. QED
      BY <2>1, <2>2, <3>1, Served
  <2>5. View!Owned'
    <3>1. s3' \in Windows \cup {"copilot", "none"} /\ s5' \in Nat /\ (s3' \in Windows => s11' = s3')
      BY <1>0, <2>3
    <3>2. QED
      BY <1>0, <2>1, <2>2, <3>1 DEF View!Owned
  <2>6. View!GivesBack
    BY <1>0, <2>3 DEF View!GivesBack
  <2>7. QED
    BY <2>4, <2>5, <2>6 DEF View!Following
<1>4. CASE View!ResizeCall
  <2>1. View!Called("resize") /\ UNCHANGED <<s3, s4, s5, s6, s7, s8, s9, s10, s11, s12, s13>>
    BY <1>4 DEF View!ResizeCall
  <2>2. View!To \in BOOLEAN
    BY <1>1, <2>1
  <2>3. /\ s2'.shown = s2.shown /\ s2'.panel = View!To /\ s2'.hidden = s2.hidden
        /\ s2'.noActivate = s2.noActivate /\ s2'.previous = s2.previous
        /\ s2' \in [noActivate : BOOLEAN, previous : Windows \cup {"none"}, shown : BOOLEAN,
                     hidden : BOOLEAN, panel : BOOLEAN]
    BY <1>0, <1>4, <2>2 DEF View!ResizeCall
  <2>4. View!Lined(s1)' /\ View!Placed(s1)'
    BY <2>1, <2>3, Served DEF View!Away
  <2>5. View!Owned' /\ View!GivesBack
    BY <1>0, <2>1, <2>3 DEF View!Owned, View!GivesBack
  <2>6. QED
    BY <2>4, <2>5 DEF View!Following
<1>5. CASE View!ShowCall
  <2>1. View!Called("show") /\ UNCHANGED <<s4, s6, s7, s8, s9, s10, s12, s13>>
    BY <1>5 DEF View!ShowCall
  <2>2. View!To \in BOOLEAN
    BY <1>1, <2>1
  <2>3. /\ s2'.shown = View!To /\ s2'.panel = s2.panel /\ s2'.hidden = s2.hidden
        /\ s2'.noActivate = s2.noActivate /\ s2'.previous = s2.previous
        /\ s2' \in [noActivate : BOOLEAN, previous : Windows \cup {"none"}, shown : BOOLEAN,
                     hidden : BOOLEAN, panel : BOOLEAN]
    BY <1>0, <1>5, <2>2 DEF View!ShowCall
  <2>4. \/ /\ s3 = "copilot" /\ ~View!To /\ s3' \in s4 \cup {"none"}
           /\ s5' = s5 + 1 /\ s11' = IF s3' \in Windows THEN s3' ELSE s11
        \/ UNCHANGED <<s3, s5, s11>>
    BY <1>0, <1>5 DEF View!ShowCall
  <2>5. View!Lined(s1)' /\ View!Placed(s1)'
    <3>1. View!Away' => View!Away
      BY <1>0, <2>1, <2>4 DEF View!Away
    <3>2. QED
      BY <2>1, <2>3, <3>1, Served
  <2>6. View!Owned'
    <3>1. /\ s3' \in Windows \cup {"copilot", "none"} /\ s5' \in Nat
          /\ s3' \in Windows => s11' = s3'
          /\ s3' = "copilot" => s3 = "copilot" /\ s11' = s11
      BY <1>0, <2>4
    <3>2. QED
      BY <1>0, <2>1, <2>3, <3>1 DEF View!Owned
  <2>7. View!GivesBack
    BY <2>3, <2>4 DEF View!GivesBack
  <2>8. QED
    BY <2>5, <2>6, <2>7 DEF View!Following
<1>6. CASE View!ExcludeCall
  <2>1. View!Called("exclude") /\ UNCHANGED <<s3, s4, s5, s6, s7, s8, s9, s10, s11, s13>>
    BY <1>6 DEF View!ExcludeCall
  <2>2. View!To \in BOOLEAN
    BY <1>1, <2>1
  <2>3. /\ s2'.shown = s2.shown /\ s2'.panel = s2.panel
        /\ s2'.noActivate = s2.noActivate /\ s2'.previous = s2.previous
        /\ s2' \in [noActivate : BOOLEAN, previous : Windows \cup {"none"}, shown : BOOLEAN,
                     hidden : BOOLEAN, panel : BOOLEAN]
        /\ s2'.hidden = View!To \/ "share" \in s12'
        /\ "focus" \in s12' <=> "focus" \in s12
    BY <1>0, <1>6, <2>2 DEF View!ExcludeCall
  <2>4. View!Lined(s1)' /\ View!Placed(s1)'
    BY <2>1, <2>3, Served DEF View!Away
  <2>5. View!Owned' /\ View!GivesBack
    BY <1>0, <2>1, <2>3 DEF View!Owned, View!GivesBack
  <2>6. QED
    BY <2>4, <2>5 DEF View!Following
<1>7. QED
  BY <1>2, <1>3, <1>4, <1>5, <1>6

\* What else a handler may change of what the view shows.
Alike(v, w) ==
  /\ w \in View!Views /\ w.calls = v.calls /\ w.visible = v.visible
  /\ w.size = v.size /\ w.excluded = v.excluded /\ w.typing = v.typing

\* The handlers' changes of the panel, the sheet, the tab and the name are of that kind,
LEMMA Restyled ==
  ASSUME NEW v \in View!Views
  PROVE  /\ \A tab \in {"live", "transcript"} :
              Alike(v, [v EXCEPT !.tab = tab]) /\ [v EXCEPT !.tab = tab].panel = v.panel
         /\ Alike(v, [v EXCEPT !.panel = TRUE]) /\ [v EXCEPT !.panel = TRUE].panel
         /\ \A sheet \in BOOLEAN :
              LET w == [v EXCEPT !.panel = TRUE, !.sheet = sheet]
                  u == [v EXCEPT !.sheet = sheet, !.panel = TRUE]
              IN Alike(v, w) /\ w.panel /\ u = w
         /\ LET w == [v EXCEPT !.panel = TRUE, !.sheet = FALSE, !.tab = "live"]
            IN Alike(v, w) /\ w.panel
         /\ Alike(v, [v EXCEPT !.panel = FALSE, !.collapsed = TRUE])
         /\ LET w == [v EXCEPT !.panel = TRUE, !.collapsed = FALSE]
            IN Alike(v, w) /\ w.panel
         /\ \A naming \in BOOLEAN :
              Alike(v, [v EXCEPT !.naming = naming]) /\ [v EXCEPT !.naming = naming].panel = v.panel
         /\ Alike(v, [v EXCEPT !.sheet = FALSE, !.naming = FALSE])
  BY DEF Alike, View!Views

\* and leave the view in line.
LEMMA AlikeLined ==
  ASSUME NEW v, NEW w, View!Lined(v), Alike(v, w)
  PROVE  View!Lined(w) /\ w \in View!Views /\ w.visible = v.visible /\ w.typing = v.typing
  BY Redrawn DEF Alike

\* The events of the session and the hotkeys keep the invariant,
LEMMA EventsKeep ==
  ASSUME View!Following,
         \/ View!ToggleVisibility \/ View!Show \/ View!FocusAsk \/ View!AnswerStarted
         \/ View!Insights \/ View!Ending \/ View!NotesSaved
  PROVE  View!Following' /\ View!GivesBack
<1>0. /\ View!Lined(s1) /\ View!Placed(s1) /\ s1 \in View!Views /\ s1.visible \in BOOLEAN
      /\ s2.noActivate \in BOOLEAN /\ s8 \in Seq(View!Choices)
  BY DEF View!Following, View!Owned, View!Lined, View!Views
<1>1. CASE View!ToggleVisibility
  <2>1. PICK w : w = View!SetVisible(s1, ~s1.visible)
    OBVIOUS
  <2>2. View!Lined(w) /\ View!Placed(w)
    BY <1>0, <2>1, Shown
  <2>3. View!Event(w) /\ s8' = s8
    BY <1>1, <2>1 DEF View!ToggleVisibility, View!Running
  <2>4. QED
    BY <1>0, <2>2, <2>3, ViewEvent
<1>2. CASE View!Show
  <2>1. PICK w : w = View!SetVisible(s1, TRUE)
    OBVIOUS
  <2>2. View!Lined(w) /\ View!Placed(w)
    BY <1>0, <2>1, Shown
  <2>3. View!Event(w) /\ s8' = s8
    BY <1>2, <2>1 DEF View!Show
  <2>4. QED
    BY <1>0, <2>2, <2>3, ViewEvent
<1>3. CASE View!FocusAsk
  <2>1. PICK a : a = View!SetVisible(s1, TRUE)
    OBVIOUS
  <2>2. View!Lined(a) /\ a.visible = TRUE /\ a \in View!Views
    BY <1>0, <2>1, Shown DEF View!Lined
  <2>3. PICK b : b = [a EXCEPT !.panel = TRUE, !.sheet = FALSE]
    OBVIOUS
  <2>4. View!Lined(b) /\ b.visible = TRUE /\ b.panel
    <3>1. Alike(a, b) /\ b.panel
      BY <2>2, <2>3, Restyled
    <3>2. QED
      BY <2>2, <3>1, AlikeLined
  <2>5. PICK c : c = View!SetVisible(b, TRUE)
    OBVIOUS
  <2>6. View!Lined(c) /\ c.visible = TRUE /\ c.panel = b.panel
    BY <1>0, <2>4, <2>5, Shown
  <2>7. PICK w : w = View!BeginTyping(c)
    OBVIOUS
  <2>8. View!Lined(w) /\ View!Placed(w)
    BY <1>0, <2>4, <2>6, <2>7, Begun DEF View!Placed
  <2>9. View!Event(w) /\ s8' = s8
    BY <1>3, <2>1, <2>3, <2>5, <2>7 DEF View!FocusAsk, View!Running, View!StartTyping
  <2>10. QED
    BY <1>0, <2>8, <2>9, ViewEvent
<1>4. CASE View!AnswerStarted
  <2>1. PICK w : w = [s1 EXCEPT !.panel = TRUE, !.sheet = FALSE, !.tab = "live"]
    OBVIOUS
  <2>2. View!Lined(w) /\ View!Placed(w)
    <3>1. Alike(s1, w) /\ w.panel
      BY <1>0, <2>1, Restyled
    <3>2. QED
      BY <1>0, <3>1, AlikeLined DEF View!Placed
  <2>3. View!Event(w) /\ s8' = s8
    BY <1>4, <2>1 DEF View!AnswerStarted, View!Running
  <2>4. QED
    BY <1>0, <2>2, <2>3, ViewEvent
<1>5. CASE View!Insights
  <2>1. PICK w : w = [s1 EXCEPT !.panel = TRUE]
    OBVIOUS
  <2>2. View!Lined(w) /\ View!Placed(w)
    <3>1. Alike(s1, w) /\ w.panel
      BY <1>0, <2>1, Restyled
    <3>2. QED
      BY <1>0, <3>1, AlikeLined DEF View!Placed
  <2>3. View!Event(w) /\ s8' = s8
    BY <1>5, <2>1 DEF View!Insights, View!Running
  <2>4. QED
    BY <1>0, <2>2, <2>3, ViewEvent
<1>6. CASE View!Ending \/ View!NotesSaved
  <2>1. PICK a : a = [s1 EXCEPT !.panel = TRUE, !.sheet = FALSE, !.tab = "live"]
    OBVIOUS
  <2>2. View!Lined(a)
    <3>1. Alike(s1, a)
      BY <1>0, <2>1, Restyled
    <3>2. QED
      BY <1>0, <3>1, AlikeLined
  <2>3. PICK b : b = View!StopTyping(a, FALSE)
    OBVIOUS
  <2>4. View!Lined(b) /\ View!Placed(b)
    BY <1>0, <2>2, <2>3, Stopped
  <2>5. PICK w : w = View!SetVisible(b, TRUE)
    OBVIOUS
  <2>6. View!Lined(w) /\ View!Placed(w)
    BY <1>0, <2>4, <2>5, Shown
  <2>7. View!Event(w) /\ s8' = s8
    BY <1>6, <2>1, <2>3, <2>5 DEF View!Ending, View!NotesSaved, View!WrapUp
  <2>8. QED
    BY <1>0, <2>6, <2>7, ViewEvent
<1>7. QED
  BY <1>1, <1>2, <1>3, <1>4, <1>5, <1>6

\* the keys typed into the window do,
LEMMA KeysKeep ==
  ASSUME View!Following, View!TypeText \/ View!SendByEnter \/ View!Escape
  PROVE  View!Following' /\ View!GivesBack
<1>0. /\ View!Lined(s1) /\ View!Placed(s1) /\ s1 \in View!Views
      /\ s2.noActivate \in BOOLEAN /\ s8 \in Seq(View!Choices)
      /\ s6 \in View!Choices /\ s7 \in {0, 1}
  BY DEF View!Following, View!Owned, View!Lined
<1>1. CASE View!TypeText
  <2>1. View!Key(s1) /\ s7' \in {0, 1} /\ s6' = s6 /\ s8' = s8
    BY <1>0, <1>1 DEF View!TypeText
  <2>2. PICK w : w = s1
    OBVIOUS
  <2>3. View!Key(w) /\ View!Lined(w) /\ View!Placed(w)
    BY <1>0, <2>1, <2>2
  <2>4. QED
    BY <1>0, <2>1, <2>3, ViewKey
<1>2. CASE View!SendByEnter
  <2>1. PICK a : a = [s1 EXCEPT !.tab = "live"]
    OBVIOUS
  <2>2. View!Lined(a)
    <3>1. Alike(s1, a)
      BY <1>0, <2>1, Restyled
    <3>2. QED
      BY <1>0, <3>1, AlikeLined
  <2>3. PICK w : w = View!StopTyping(a, TRUE)
    OBVIOUS
  <2>4. View!Lined(w) /\ View!Placed(w)
    BY <1>0, <2>2, <2>3, Stopped
  <2>5. View!Key(w) /\ UNCHANGED <<s6, s7, s8>>
    BY <1>2, <2>1, <2>3 DEF View!SendByEnter, View!Sent, View!Kept
  <2>6. QED
    BY <1>0, <2>4, <2>5, ViewKey
<1>3. CASE View!Escape
  <2>1. PICK a : a = [s1 EXCEPT !.sheet = FALSE, !.naming = FALSE]
    OBVIOUS
  <2>2. View!Lined(a)
    <3>1. Alike(s1, a)
      BY <1>0, <2>1, Restyled
    <3>2. QED
      BY <1>0, <3>1, AlikeLined
  <2>3. PICK w : w = View!StopTyping(a, TRUE)
    OBVIOUS
  <2>4. View!Lined(w) /\ View!Placed(w)
    BY <1>0, <2>2, <2>3, Stopped
  <2>5. View!Key(w) /\ UNCHANGED <<s6, s7, s8>>
    BY <1>3, <2>1, <2>3 DEF View!Escape, View!Kept
  <2>6. QED
    BY <1>0, <2>4, <2>5, ViewKey
<1>4. QED
  BY <1>1, <1>2, <1>3

\* the clicks on it do,
LEMMA ClicksKeep ==
  ASSUME View!Following,
         \/ View!AskAi \/ View!Hide \/ View!ClickEnd \/ View!ClickPanel \/ View!OpenSheet
         \/ View!CloseSheet \/ (\E tab \in {"live", "transcript"} : View!ClickTab(tab))
         \/ View!ClickAsk \/ View!Send \/ View!BeginNaming \/ View!NameVoice
         \/ View!ClickText \/ View!ToggleHide \/ View!SaveText
  PROVE  View!Following' /\ View!GivesBack
<1>0. /\ View!Lined(s1) /\ View!Placed(s1) /\ s1 \in View!Views
      /\ s2.noActivate \in BOOLEAN /\ s8 \in Seq(View!Choices)
      /\ s6 \in View!Choices /\ s7 \in {0, 1}
      /\ s6.text \in {0, 1} /\ s6.hide \in BOOLEAN
  BY DEF View!Following, View!Owned, View!Lined, View!Choices
<1>1. CASE View!AskAi
  <2>1. PICK w : w = [s1 EXCEPT !.panel = TRUE]
    OBVIOUS
  <2>2. View!Lined(w) /\ View!Placed(w)
    <3>1. Alike(s1, w) /\ w.panel
      BY <1>0, <2>1, Restyled
    <3>2. QED
      BY <1>0, <3>1, AlikeLined DEF View!Placed
  <2>3. View!Click(w) /\ UNCHANGED <<s6, s7, s8>>
    BY <1>1, <2>1 DEF View!AskAi, View!Kept
  <2>4. QED
    BY <1>0, <2>2, <2>3, ViewClick
<1>2. CASE View!Hide
  <2>1. PICK w : w = View!SetVisible(s1, FALSE)
    OBVIOUS
  <2>2. View!Lined(w) /\ View!Placed(w)
    BY <1>0, <2>1, Shown
  <2>3. View!Click(w) /\ UNCHANGED <<s6, s7, s8>>
    BY <1>2, <2>1 DEF View!Hide, View!Kept
  <2>4. QED
    BY <1>0, <2>2, <2>3, ViewClick
<1>3. CASE View!ClickEnd
  <2>1. PICK w : w = View!StopTyping(s1, TRUE)
    OBVIOUS
  <2>2. View!Lined(w) /\ View!Placed(w)
    BY <1>0, <2>1, Stopped
  <2>3. View!Click(w) /\ UNCHANGED <<s6, s7, s8>>
    BY <1>3, <2>1 DEF View!ClickEnd, View!Kept
  <2>4. QED
    BY <1>0, <2>2, <2>3, ViewClick
<1>4. CASE View!ClickPanel
  <2>1. CASE s1.panel
    <3>1. PICK a : a = [s1 EXCEPT !.panel = FALSE, !.collapsed = TRUE]
      OBVIOUS
    <3>2. Alike(s1, a)
      BY <1>0, <3>1, Restyled
    <3>3. View!Lined(a)
      BY <1>0, <3>2, AlikeLined
    <3>4. PICK w : w = View!StopTyping(a, TRUE)
      OBVIOUS
    <3>5. View!Lined(w) /\ View!Placed(w)
      BY <1>0, <3>3, <3>4, Stopped
    <3>6. View!Click(w) /\ UNCHANGED <<s6, s7, s8>>
      BY <1>4, <2>1, <3>1, <3>4 DEF View!ClickPanel, View!Kept
    <3>7. QED
      BY <1>0, <3>5, <3>6, ViewClick
  <2>2. CASE ~s1.panel
    <3>1. PICK w : w = [s1 EXCEPT !.panel = TRUE, !.collapsed = FALSE]
      OBVIOUS
    <3>2. Alike(s1, w) /\ w.panel
      BY <1>0, <3>1, Restyled
    <3>3. View!Lined(w) /\ View!Placed(w)
      BY <1>0, <3>2, AlikeLined DEF View!Placed
    <3>4. View!Click(w) /\ UNCHANGED <<s6, s7, s8>>
      BY <1>4, <2>2, <3>1 DEF View!ClickPanel, View!Kept
    <3>5. QED
      BY <1>0, <3>3, <3>4, ViewClick
  <2>3. QED
    BY <2>1, <2>2
<1>5. CASE View!OpenSheet
  <2>1. PICK w : w = [s1 EXCEPT !.sheet = TRUE, !.panel = TRUE]
    OBVIOUS
  <2>2. View!Lined(w) /\ View!Placed(w)
    <3>1. Alike(s1, w) /\ w.panel
      BY <1>0, <2>1, Restyled
    <3>2. QED
      BY <1>0, <3>1, AlikeLined DEF View!Placed
  <2>3. View!Click(w) /\ s7' = s6.text /\ UNCHANGED <<s6, s8>>
    BY <1>5, <2>1 DEF View!OpenSheet
  <2>4. QED
    BY <1>0, <2>2, <2>3, ViewClick
<1>6. CASE View!CloseSheet
  <2>1. PICK a : a = [s1 EXCEPT !.sheet = FALSE, !.panel = TRUE]
    OBVIOUS
  <2>2. View!Lined(a)
    <3>1. Alike(s1, a)
      BY <1>0, <2>1, Restyled
    <3>2. QED
      BY <1>0, <3>1, AlikeLined
  <2>3. PICK w : w = View!StopTyping(a, TRUE)
    OBVIOUS
  <2>4. View!Lined(w) /\ View!Placed(w)
    BY <1>0, <2>2, <2>3, Stopped
  <2>5. View!Click(w) /\ UNCHANGED <<s6, s7, s8>>
    BY <1>6, <2>1, <2>3 DEF View!CloseSheet, View!Kept
  <2>6. QED
    BY <1>0, <2>4, <2>5, ViewClick
<1>7. ASSUME NEW tab \in {"live", "transcript"}, View!ClickTab(tab)
      PROVE  View!Following' /\ View!GivesBack
  <2>1. PICK w : w = [s1 EXCEPT !.tab = tab]
    OBVIOUS
  <2>2. View!Lined(w) /\ View!Placed(w)
    <3>1. Alike(s1, w) /\ w.panel = s1.panel
      BY <1>0, <2>1, Restyled
    <3>2. QED
      BY <1>0, <3>1, AlikeLined DEF View!Placed
  <2>3. View!Click(w) /\ UNCHANGED <<s6, s7, s8>>
    BY <1>7, <2>1 DEF View!ClickTab, View!Kept
  <2>4. QED
    BY <1>0, <2>2, <2>3, ViewClick
<1>8. CASE View!ClickAsk
  <2>0. s1.visible /\ s1.panel
    BY <1>8 DEF View!ClickAsk, View!FooterShown, View!Panel
  <2>1. PICK a : a = View!SetVisible(s1, TRUE)
    OBVIOUS
  <2>2. View!Lined(a) /\ a.visible /\ a.panel
    BY <1>0, <2>0, <2>1, Shown
  <2>3. PICK w : w = View!BeginTyping(a)
    OBVIOUS
  <2>4. View!Lined(w) /\ View!Placed(w)
    BY <1>0, <2>2, <2>3, Begun DEF View!Placed
  <2>5. View!Click(w) /\ UNCHANGED <<s6, s7, s8>>
    BY <1>8, <2>1, <2>3 DEF View!ClickAsk, View!StartTyping, View!Kept
  <2>6. QED
    BY <1>0, <2>4, <2>5, ViewClick
<1>9. CASE View!Send
  <2>1. PICK a : a = View!SetVisible(s1, TRUE)
    OBVIOUS
  <2>2. View!Lined(a)
    BY <1>0, <2>1, Shown
  <2>3. PICK b : b = View!BeginTyping(a)
    OBVIOUS
  <2>4. View!Lined(b) /\ b \in View!Views
    BY <1>0, <2>2, <2>3, Begun DEF View!Lined
  <2>5. PICK c : c = [b EXCEPT !.tab = "live"]
    OBVIOUS
  <2>6. View!Lined(c)
    <3>1. Alike(b, c)
      BY <2>4, <2>5, Restyled
    <3>2. QED
      BY <2>4, <3>1, AlikeLined
  <2>7. PICK w : w = View!StopTyping(c, TRUE)
    OBVIOUS
  <2>8. View!Lined(w) /\ View!Placed(w)
    BY <1>0, <2>6, <2>7, Stopped
  <2>9. View!Click(w) /\ UNCHANGED <<s6, s7, s8>>
    BY <1>9, <2>1, <2>3, <2>5, <2>7 DEF View!Send, View!Sent, View!StartTyping, View!Kept
  <2>10. QED
    BY <1>0, <2>8, <2>9, ViewClick
<1>10. CASE View!BeginNaming
  <2>0. s1.visible /\ s1.panel
    BY <1>10 DEF View!BeginNaming, View!NamesShown, View!Panel
  <2>1. PICK a : a = [s1 EXCEPT !.naming = TRUE]
    OBVIOUS
  <2>2. View!Lined(a) /\ a.visible /\ a.panel
    <3>1. Alike(s1, a) /\ a.panel = s1.panel
      BY <1>0, <2>1, Restyled
    <3>2. QED
      BY <1>0, <2>0, <3>1, AlikeLined
  <2>3. PICK w : w = View!BeginTyping(a)
    OBVIOUS
  <2>4. View!Lined(w) /\ View!Placed(w)
    BY <1>0, <2>2, <2>3, Begun DEF View!Placed
  <2>5. View!Click(w) /\ UNCHANGED <<s6, s7, s8>>
    BY <1>10, <2>1, <2>3 DEF View!BeginNaming, View!Kept
  <2>6. QED
    BY <1>0, <2>4, <2>5, ViewClick
<1>11. CASE View!NameVoice
  <2>1. PICK a : a = [s1 EXCEPT !.naming = FALSE]
    OBVIOUS
  <2>2. View!Lined(a)
    <3>1. Alike(s1, a)
      BY <1>0, <2>1, Restyled
    <3>2. QED
      BY <1>0, <3>1, AlikeLined
  <2>3. PICK w : w = View!StopTyping(a, TRUE)
    OBVIOUS
  <2>4. View!Lined(w) /\ View!Placed(w)
    BY <1>0, <2>2, <2>3, Stopped
  <2>5. View!Click(w) /\ UNCHANGED <<s6, s7, s8>>
    BY <1>11, <2>1, <2>3 DEF View!NameVoice, View!Kept
  <2>6. QED
    BY <1>0, <2>4, <2>5, ViewClick
<1>12. CASE View!ClickText
  <2>0. s1.visible /\ s1.panel
    BY <1>12 DEF View!ClickText, View!Panel
  <2>1. PICK w : w = View!BeginTyping(s1)
    OBVIOUS
  <2>2. View!Lined(w) /\ View!Placed(w)
    BY <1>0, <2>0, <2>1, Begun DEF View!Placed
  <2>3. View!Click(w) /\ UNCHANGED <<s6, s7, s8>>
    BY <1>12, <2>1 DEF View!ClickText, View!Kept
  <2>4. QED
    BY <1>0, <2>2, <2>3, ViewClick
\* The settings that are sent are settings.
<1>13. ASSUME NEW new \in View!Choices, View!Update(new)
       PROVE  s6' \in View!Choices /\ s7' \in {0, 1} /\ s8' \in Seq(View!Choices)
  <2>1. s6' = new /\ s7' = s7 /\ (s8' = Append(s8, new) \/ s8' = s8)
    BY <1>13 DEF View!Update
  <2>2. QED
    BY <1>0, <1>13, <2>1
<1>14. CASE View!ToggleHide
  <2>1. PICK new : new = [s6 EXCEPT !.hide = ~@]
    OBVIOUS
  <2>2. new \in View!Choices
    BY <1>0, <2>1 DEF View!Choices
  <2>3. View!Click(s1) /\ View!Update(new)
    BY <1>14, <2>1 DEF View!ToggleHide
  <2>4. PICK w : w = s1
    OBVIOUS
  <2>5. View!Click(w) /\ View!Lined(w) /\ View!Placed(w)
    BY <1>0, <2>3, <2>4
  <2>6. QED
    BY <1>13, <2>2, <2>3, <2>5, ViewClick
<1>15. CASE View!SaveText
  <2>1. PICK new : new = [s6 EXCEPT !.text = s7]
    OBVIOUS
  <2>2. new \in View!Choices
    BY <1>0, <2>1 DEF View!Choices
  <2>3. PICK w : w = View!StopTyping(s1, TRUE)
    OBVIOUS
  <2>4. View!Lined(w) /\ View!Placed(w)
    BY <1>0, <2>3, Stopped
  <2>5. View!Click(w) /\ View!Update(new)
    BY <1>15, <2>1, <2>3 DEF View!SaveText
  <2>6. QED
    BY <1>13, <2>2, <2>4, <2>5, ViewClick
<1>16. QED
  BY <1>1, <1>2, <1>3, <1>4, <1>5, <1>6, <1>7, <1>8, <1>9, <1>10, <1>11, <1>12, <1>14, <1>15

\* and so do drawing, the other applications, a lost activation and the end.
LEMMA RestKeeps ==
  ASSUME View!Following,
         \/ View!Render \/ (\E app \in Windows : View!Switch(app) \/ View!Quit(app))
         \/ View!Deactivated \/ View!Echo \/ View!Finish \/ View!Exit
  PROVE  View!Following' /\ View!GivesBack
<1> USE WindowsAssumption
<1>0. /\ View!Lined(s1) /\ View!Placed(s1) /\ View!Owned
      /\ s1 \in View!Views /\ s2.noActivate \in BOOLEAN /\ s1.panel \in BOOLEAN
      /\ s6 \in View!Choices /\ s6.hide \in BOOLEAN /\ s8 \in Seq(View!Choices)
      /\ s5 \in Nat
  BY DEF View!Following, View!Owned, View!Lined, View!Views, View!Choices
\* Of a step that leaves the view alone.
<1>1. ASSUME s1' = s1, s2' = s2, s12' = s12, View!Away' => View!Away, View!Owned'
      PROVE  View!Following' /\ View!GivesBack
  <2>1. PICK w : w = s1
    OBVIOUS
  <2>2. s1' = w /\ View!Lined(w) /\ View!Placed(w)
    BY <1>0, <1>1, <2>1
  <2>3. View!Lined(s1)' /\ View!Placed(s1)'
    BY <1>1, <2>2, Drawn
  <2>4. QED
    BY <1>1, <2>3 DEF View!Following, View!GivesBack
<1>2. CASE View!Render
  <2>1. PICK call : call = [call |-> "resize", to |-> s1.panel]
    OBVIOUS
  <2>2. call \in View!Calls /\ call.call = "resize" /\ call.to = s1.panel
    BY <1>0, <2>1 DEF View!Calls
  <2>3. PICK a : a = IF s1.size = s1.panel THEN s1
                     ELSE [s1 EXCEPT !.size = s1.panel, !.calls = Append(@, call)]
    OBVIOUS
  <2>4. View!Lined(a) /\ View!Placed(a) /\ a \in View!Views
    <3>1. CASE s1.size = s1.panel
      BY <1>0, <2>3, <3>1
    <3>2. CASE s1.size # s1.panel
      <4>1. s1.calls \in Seq(View!Calls)
        BY <1>0 DEF View!Views
      <4>2. Append(s1.calls, call) \in Seq(View!Calls)
        BY <2>2, <4>1
      <4>3. a \in View!Views
        BY <1>0, <2>3, <3>2, <4>2 DEF View!Views
      <4>4. /\ a.calls = Append(s1.calls, call) /\ a.typing = s1.typing /\ a.panel = s1.panel
            /\ a.visible = s1.visible /\ a.size = s1.panel /\ a.excluded = s1.excluded
        BY <1>0, <2>3, <3>2 DEF View!Views
      <4>5. PICK v : v = s1
        OBVIOUS
      <4>6. View!Lined(a)
        BY <1>0, <2>2, <4>3, <4>4, <4>5, Requested DEF View!Turns
      <4>7. QED
        BY <1>0, <4>3, <4>4, <4>6 DEF View!Placed
    <3>3. QED
      BY <3>1, <3>2
  <2>5. PICK other : other = [call |-> "exclude", to |-> s6.hide]
    OBVIOUS
  <2>6. other \in View!Calls /\ other.call = "exclude" /\ other.to = s6.hide
    BY <1>0, <2>5 DEF View!Calls
  <2>7. PICK w : w = IF s1.excluded = s6.hide THEN a
                     ELSE [a EXCEPT !.excluded = s6.hide, !.calls = Append(@, other)]
    OBVIOUS
  <2>8. View!Lined(w) /\ View!Placed(w)
    <3>1. CASE s1.excluded = s6.hide
      BY <2>4, <2>7, <3>1
    <3>2. CASE s1.excluded # s6.hide
      <4>1. a.calls \in Seq(View!Calls)
        BY <2>4 DEF View!Views
      <4>2. Append(a.calls, other) \in Seq(View!Calls)
        BY <2>6, <4>1
      <4>3. w \in View!Views
        BY <1>0, <2>4, <2>7, <3>2, <4>2 DEF View!Views
      <4>4. /\ w.calls = Append(a.calls, other) /\ w.typing = a.typing /\ w.panel = a.panel
            /\ w.visible = a.visible /\ w.size = a.size /\ w.excluded = s6.hide
        BY <2>4, <2>7, <3>2 DEF View!Views
      <4>5. View!Lined(w)
        BY <1>0, <2>4, <2>6, <4>3, <4>4, Requested DEF View!Turns
      <4>6. QED
        BY <2>4, <4>4, <4>5 DEF View!Placed
    <3>3. QED
      BY <3>1, <3>2
  <2>9. s1' = w /\ UNCHANGED <<s2, s3, s4, s5, s6, s7, s8, s9, s10, s11, s12, s13>>
    <3>1. UNCHANGED <<s2, s3, s4, s5, s6, s7, s8, s9, s10, s11, s12, s13>>
      BY <1>2 DEF View!Render
    <3>2. a = IF s1.size = s1.panel THEN s1
              ELSE View!WithHost([s1 EXCEPT !.size = s1.panel], "resize", s1.panel)
      BY <1>0, <2>1, <2>3 DEF View!WithHost, View!Views
    <3>3. w = IF s1.excluded = s6.hide THEN a
              ELSE View!WithHost([a EXCEPT !.excluded = s6.hide], "exclude", s6.hide)
      BY <2>4, <2>5, <2>7 DEF View!WithHost, View!Views
    <3>4. s1' = w
      BY <1>2, <3>2, <3>3 DEF View!Render, View!Becomes
    <3>5. QED
      BY <3>1, <3>4
  <2>10. View!Lined(s1)' /\ View!Placed(s1)'
    BY <2>8, <2>9, Drawn DEF View!Away
  <2>11. View!Owned' /\ View!GivesBack
    BY <1>0, <2>9 DEF View!Owned, View!GivesBack
  <2>12. QED
    BY <2>10, <2>11 DEF View!Following
<1>3. ASSUME NEW app \in Windows, View!Switch(app) \/ View!Quit(app)
      PROVE  View!Following' /\ View!GivesBack
  <2>1. /\ UNCHANGED <<s1, s2, s6, s7, s8, s9, s12, s13>> /\ s4' \subseteq s4
        /\ s10 \in Nat /\ s10' = s10 + 1
        /\ \/ /\ s3' \in Windows \cup {"none"} /\ s11' = IF s3' \in Windows THEN s3' ELSE s11
              /\ s5' = IF s3 = "copilot" THEN s5 + 1 ELSE s5
           \/ UNCHANGED <<s3, s5, s11>>
    <3>1. s10 \in Nat /\ s4 \subseteq Windows
      BY <1>0 DEF View!Owned
    <3>2. CASE View!Switch(app)
      BY <1>3, <3>1, <3>2 DEF View!Switch, View!Move, View!Focus, View!Copilot
    <3>3. CASE View!Quit(app)
      BY <1>3, <3>1, <3>3
         DEF View!Quit, View!Move, View!Focus, View!Copilot, View!NoApp, View!Unfocused
    <3>4. QED
      BY <1>3, <3>2, <3>3
  <2>2. View!Away' => View!Away
    BY <1>0, <2>1 DEF View!Away, View!Copilot
  <2>3. View!Owned'
    <3>1. /\ s5' \in Nat /\ s3' \in Windows \cup {"copilot", "none"} /\ s10' \in Nat
          /\ s3' \in Windows => s11' = s3'
          /\ s3' = "copilot" => s3 = "copilot" /\ s11' = s11
      BY <1>0, <2>1 DEF View!Owned, View!Copilot, View!NoApp
    <3>2. QED
      BY <1>0, <2>1, <3>1 DEF View!Owned, View!Copilot, View!NoApp
  <2>4. QED
    BY <1>1, <2>1, <2>2, <2>3
<1>4. CASE View!Deactivated
  <2>1. PICK w : w = View!StopTyping(s1, FALSE)
    OBVIOUS
  <2>2. View!Lined(w) /\ View!Placed(w) /\ w.typing = FALSE
    BY <1>0, <2>1, Stopped
  <2>3. /\ s1' = w /\ s5 > 0 /\ s5' = s5 - 1
        /\ UNCHANGED <<s2, s3, s4, s6, s7, s8, s9, s10, s11, s12, s13>>
    BY <1>4, <2>1 DEF View!Deactivated, View!Becomes
  <2>4. View!Lined(s1)' /\ View!Placed(s1)'
    <3>1. /\ View!Settles(w, "show", s2.shown, w.visible)
          /\ View!Settles(w, "resize", s2.panel, w.size)
          /\ View!Settles(w, "exclude", IF "share" \in s12 THEN w.excluded ELSE s2.hidden, w.excluded)
          /\ View!TakesTurns(w, View!Turn(~s2.noActivate), View!Turn(w.typing))
          /\ w \in View!Views
      BY <2>2 DEF View!Lined
    <3>2. View!Lined(s1)'
      BY <2>2, <2>3, <3>1 DEF View!Lined
    <3>3. QED
      BY <2>2, <2>3, <3>2 DEF View!Placed
  <2>5. View!Owned' /\ View!GivesBack
    <3>1. s5' \in Nat
      BY <1>0, <2>3
    <3>2. QED
      BY <1>0, <2>3, <3>1 DEF View!Owned, View!GivesBack
  <2>6. QED
    BY <2>4, <2>5 DEF View!Following
<1>5. CASE View!Echo
  <2>1. /\ s8 # <<>> /\ s8' = Tail(s8) /\ s6' = Head(s8) /\ s7' \in {s7, Head(s8).text}
        /\ UNCHANGED <<s1, s2, s3, s4, s5, s9, s10, s11, s12, s13>>
    BY <1>5 DEF View!Echo
  <2>2. s8' \in Seq(View!Choices) /\ s6' \in View!Choices
    BY <1>0, <2>1
  <2>3. s7' \in {0, 1}
    BY <1>0, <2>1, <2>2 DEF View!Choices, View!Owned
  <2>4. View!Owned' /\ (View!Away' => View!Away)
    BY <1>0, <2>1, <2>2, <2>3 DEF View!Owned, View!Away
  <2>5. QED
    BY <1>1, <2>1, <2>4
<1>6. CASE View!Finish
  <2>1. /\ UNCHANGED <<s1, s2, s3, s4, s5, s6, s7, s10, s11, s12, s13>>
        /\ \E n \in 0..Len(s8) : s8' = SubSeq(s8, 1, n)
    BY <1>6 DEF View!Finish
  <2>2. s8' \in Seq(View!Choices)
    BY <1>0, <2>1
  <2>3. View!Owned' /\ (View!Away' => View!Away)
    BY <1>0, <2>1, <2>2 DEF View!Owned, View!Away
  <2>4. QED
    BY <1>1, <2>1, <2>3
<1>7. CASE View!Exit
  <2>1. UNCHANGED <<s1, s2, s3, s4, s5, s6, s7, s8, s10, s11, s12, s13>>
    BY <1>7 DEF View!Exit
  <2>2. View!Owned' /\ (View!Away' => View!Away)
    BY <1>0, <2>1 DEF View!Owned, View!Away
  <2>3. QED
    BY <1>1, <2>1, <2>2
<1>8. QED
  BY <1>2, <1>3, <1>4, <1>5, <1>6, <1>7

\* The window starts in its invariant,
LEMMA ViewInit == View!Init => View!Following
<1> SUFFICES ASSUME View!Init PROVE View!Following
  OBVIOUS
<1>1. PICK hide \in BOOLEAN, hidden \in BOOLEAN :
        /\ s6 = [hide |-> hide, text |-> 0]
        /\ s12 = IF hidden = hide THEN {} ELSE {"share"}
        /\ s2 = [noActivate |-> TRUE, previous |-> View!NoApp, shown |-> TRUE,
                 hidden |-> hidden, panel |-> TRUE]
        /\ s1 = [visible |-> TRUE, panel |-> FALSE, collapsed |-> FALSE, sheet |-> FALSE,
                 tab |-> "live", typing |-> FALSE, naming |-> FALSE,
                 size |-> FALSE, excluded |-> hide,
                 calls |-> <<[call |-> "resize", to |-> FALSE]>>]
  BY DEF View!Init
<1>2. /\ hide \in BOOLEAN /\ hidden \in BOOLEAN
      /\ s1.calls = <<[call |-> "resize", to |-> FALSE]>>
  BY <1>1
<1>3. /\ s1.calls \in Seq(View!Calls) /\ DOMAIN s1.calls = {1}
      /\ s1.calls[1].call = "resize" /\ s1.calls[1].to = FALSE
  BY <1>2 DEF View!Calls
<1>4. s1 \in View!Views
  BY <1>1, <1>2, <1>3 DEF View!Views
<1>5. View!Settles(s1, "show", s2.shown, s1.visible)
  BY <1>1, <1>3 DEF View!Settles
<1>6. View!Settles(s1, "resize", s2.panel, s1.size)
  <2>1. View!LaterTo(s1, 0, "resize", FALSE)
    BY <1>3 DEF View!LaterTo
  <2>2. s1.size = FALSE
    BY <1>1
  <2>3. QED
    BY <1>3, <2>1, <2>2 DEF View!Settles
<1>7. View!Settles(s1, "exclude", IF "share" \in s12 THEN s1.excluded ELSE s2.hidden, s1.excluded)
  <2>1. s1.excluded = (IF "share" \in s12 THEN s1.excluded ELSE s2.hidden)
    BY <1>1, <1>2
  <2>2. QED
    BY <1>3, <2>1 DEF View!Settles
<1>8. View!TakesTurns(s1, View!Turn(~s2.noActivate), View!Turn(s1.typing))
  <2>1. s2.noActivate = TRUE /\ s1.typing = FALSE
    BY <1>1
  <2>2. View!Turn(~s2.noActivate) = "end typing" /\ View!Turn(s1.typing) = "end typing"
    BY <2>1 DEF View!Turn
  <2>3. View!TakesTurns(s1, "end typing", "end typing")
    BY <1>3 DEF View!TakesTurns, View!Turns
  <2>4. QED
    BY <2>2, <2>3
<1>9. View!Lined(s1) /\ View!Placed(s1)
  <2>1. s1.typing = FALSE
    BY <1>1
  <2>2. QED
    BY <1>4, <1>5, <1>6, <1>7, <1>8, <2>1 DEF View!Lined, View!Placed
<1>10. View!Owned
  <2>1. /\ s2 \in [noActivate : BOOLEAN, previous : Windows \cup {View!NoApp}, shown : BOOLEAN,
                   hidden : BOOLEAN, panel : BOOLEAN]
        /\ s6 \in View!Choices /\ s2.previous = View!NoApp
    BY <1>1, <1>2 DEF View!Choices
  <2>2. s8 \in Seq(View!Choices) /\ s7 \in {0, 1}
    BY DEF View!Init
  <2>3. /\ s4 \subseteq Windows /\ s3 \in Windows /\ s11 = s3 /\ s5 \in Nat
        /\ s10 \in Nat
    BY DEF View!Init
  <2>4. QED
    BY <2>1, <2>2, <2>3 DEF View!Owned
<1>11. QED
  BY <1>9, <1>10 DEF View!Following

\* every step keeps it and gives the keyboard back where it was,
LEMMA ViewStep ==
  ASSUME View!Following, View!Next
  PROVE  View!Following' /\ View!GivesBack
<1>1. QED
  BY EventsKeep, KeysKeep, ClicksKeep, RestKeeps, CallsServed DEF View!Next

\* and a view in line says what is promised.
LEMMA ViewPromises ==
  ASSUME View!Following
  PROVE  View!KeysHaveAPlace /\ View!HostFollowsView
<1>1. /\ View!Lined(s1) /\ View!Placed(s1) /\ View!Owned
  BY DEF View!Following
<1>2. ASSUME View!Quiet PROVE DOMAIN s1.calls = {}
  BY <1>2 DEF View!Quiet
<1>3. ASSUME View!Quiet
      PROVE  /\ \A kind : ~View!Later(s1, 0, kind)
             /\ \A kind, to : ~View!LaterTo(s1, 0, kind, to)
  BY <1>2, <1>3 DEF View!Later, View!LaterTo
<1>4. View!KeysHaveAPlace
  <2>1. View!Quiet /\ s1.typing /\ "focus" \notin s12 => s3 = View!Copilot
    BY <1>1, <1>3 DEF View!Quiet, View!Lined, View!Away
  <2>2. QED
    BY <1>1, <2>1 DEF View!KeysHaveAPlace, View!Placed
<1>5. ASSUME View!Quiet
      PROVE  /\ s2.shown = s1.visible /\ s2.panel = s1.panel
             /\ s2.noActivate = ~s1.typing
             /\ "share" \notin s12 => s2.hidden = s6.hide
  <2>1. s1.size = s1.panel /\ s1.excluded = s6.hide
    BY <1>5 DEF View!Quiet
  <2>2. s2.shown = s1.visible /\ s2.panel = s1.size
    BY <1>1, <1>3, <1>5 DEF View!Lined, View!Settles
  <2>3. "share" \notin s12 => s2.hidden = s1.excluded
    BY <1>1, <1>3, <1>5 DEF View!Lined, View!Settles
  <2>4. View!Turn(~s2.noActivate) = View!Turn(s1.typing)
    BY <1>1, <1>3, <1>5 DEF View!Lined, View!TakesTurns
  <2>5. s2.noActivate \in BOOLEAN /\ s1.typing \in BOOLEAN
    BY <1>1 DEF View!Owned, View!Lined, View!Views
  <2>6. s2.noActivate = ~s1.typing
    BY <2>4, <2>5 DEF View!Turn
  <2>7. QED
    BY <2>1, <2>2, <2>3, <2>6
<1>6. QED
  BY <1>4, <1>5 DEF View!HostFollowsView

-----------------------------------------------------------------------------
(* Where the keys go.                                                      *)

Aiming == Delivering /\ (part = "copilot window" => View!Following)

\* The deliverers and the window start in their invariants,
LEMMA AimingInit == Init => Aiming
  BY DeliveringInit, ViewInit DEF Init, Aiming

\* the window keeps its own while nothing happens,
LEMMA ViewRests ==
  ASSUME View!Following, UNCHANGED vars
  PROVE  View!Following'
<1>1. /\ UNCHANGED <<s1, s2, s3, s4, s5, s6, s7, s8, s10, s11, s12>>
      /\ View!Lined(s1) /\ View!Placed(s1) /\ View!Owned
  BY DEF vars, View!Following
<1>2. View!Away' => View!Away
  BY <1>1 DEF View!Away
<1>3. View!Lined(s1)' /\ View!Placed(s1)'
  BY <1>1, <1>2, Drawn
<1>4. View!Owned'
  BY <1>1 DEF View!Owned
<1>5. QED
  BY <1>3, <1>4 DEF View!Following

\* and every step keeps them, the window's giving the keyboard back where it was.
LEMMA AimingStep ==
  Aiming /\ [Next]_vars =>
    Aiming' /\ (\/ part = "copilot window" => View!GivesBack
                \/ UNCHANGED vars)
<1> SUFFICES ASSUME Aiming, [Next]_vars
             PROVE  Aiming' /\ (\/ part = "copilot window" => View!GivesBack
                                \/ UNCHANGED vars)
  OBVIOUS
<1>1. Delivering'
  BY DeliveringStep DEF Aiming
<1>2. CASE part = "copilot window" /\ View!Next /\ part' = part
  BY <1>1, <1>2, ViewStep DEF Aiming
<1>3. CASE part # "copilot window" /\ part' = part
  BY <1>1, <1>3 DEF Aiming
<1>4. CASE UNCHANGED vars
  <2>1. part' = part
    BY <1>4 DEF vars
  <2>2. QED
    BY <1>1, <1>4, <2>1, ViewRests DEF Aiming
<1>5. QED
  BY <1>2, <1>3, <1>4 DEF Next

\* A paste's chord is typed into the window that has the focus and had it when the
\* text was copied (paste.rs), and leaves no key down (injection.rs), or at the
\* window the dictation was for (windows/system.rs); and the copilot's window takes keys only for a panel that is
\* shown, has the keyboard only to be typed into, does in the end what its view asks,
\* and gives the keyboard back where it was (copilot_view.rs, win/host.rs).
THEOREM KeysGoRight == Spec => KeysGoWhereMeant
<1>1. Spec => []Aiming
  BY AimingInit, AimingStep, PTL DEF Spec
<1>2. Aiming =>
        /\ part = "linux delivery" => X11!FocusIsStable /\ X11!KeysAreReleased
        /\ part = "windows delivery" => Send!AimIsTarget
        /\ part = "copilot window" => View!KeysHaveAPlace /\ View!HostFollowsView
  BY ViewPromises DEF Aiming, Delivering, X11!Chord, X11!KeysAreReleased
<1>3. Aiming /\ [Next]_vars => [part = "copilot window" => View!GivesBack]_vars
  BY AimingStep
<1>4. QED
  BY <1>1, <1>2, <1>3, PTL DEF Spec, KeysGoWhereMeant
=============================================================================
