---------------------------- MODULE Ps2Bootstrap ----------------------------
(***************************************************************************)
(* From the first frame on the keyboard wire to Stage 0 in the host: the   *)
(* supervisor and its classifier (ps2/supervisor.rs, crates/ps2-framer     *)
(* classifier.rs), the injector (ps2/injector.rs) and the life cycle the   *)
(* status LED shows (lifecycle.rs).  The tasks run on one executor: what a *)
(* task does between two awaits is one step.                               *)
(***************************************************************************)
EXTENDS DebugScript

CONSTANTS
    Confidence,  \* CONFIDENCE_THRESHOLD
    KbdDepth,    \* depth of KBD_FRAMES
    RawDepth     \* depth of INJECT_RAW

ASSUME DepthAssumption ==
    Confidence \in Nat \ {0, 1} /\ KbdDepth \in Nat \ {0} /\ RawDepth \in Nat

Classes == {"Xt", "At", "Ps2"}
SupervisorStates ==
    {"Boot", "DetectMachineClass", "InjectDebug", "ServeStage0Download",
     "ServeStage1Handoff", "ServeCapHandshake"}

VARIABLES
    st,           \* the classifier's state
    kbdFrames,    \* KBD_FRAMES; "Bad" is a frame that is not usable
    auxActivity,  \* AUX_ACTIVITY is signalled
    trigger,      \* INJECT_TRIGGER, "none" when it is not signalled
    inj,          \* the script the injector types and the line it is at
    rawQ,         \* INJECT_RAW: requests that end a line, or do not
    life,         \* SUPERVISOR_STATE
    booted,       \* main has reached its serve loop
    host,         \* external: what the host runs, and its memory
    lost          \* history: the "trigger" or "script" whose detection was reset

injVars == <<inj, rawQ, host>>
vars    == <<st, kbdFrames, auxActivity, trigger, injVars, life, booted, lost>>

-----------------------------------------------------------------------------
(* The classifier.                                                         *)
Unknown      == [state |-> "Unknown", streak |-> 0, class |-> "none"]
Candidate(k, n) == [state |-> "Candidate", streak |-> n, class |-> k]
Confirmed(c) == [state |-> "Confirmed", streak |-> Confidence, class |-> c]

Kind(c) == IF c = "Ps2" THEN "At" ELSE c

\* Mutant: confirmed by one frame too many
Observe_late(k) ==
    IF st.state = "Unknown" \/ Kind(st.class) # k THEN Candidate(k, 1)
    ELSE IF st.state = "Confirmed" THEN st
    ELSE IF st.streak + 1 > Confidence THEN Confirmed(k)
    ELSE Candidate(k, st.streak + 1)

\* Mutant: a confirmed class is not contradicted
Observe_sticky(k) ==
    IF st.state = "Confirmed" THEN st
    ELSE IF st.state = "Unknown" \/ Kind(st.class) # k THEN Candidate(k, 1)
    ELSE IF st.streak + 1 >= Confidence THEN Confirmed(k)
    ELSE Candidate(k, st.streak + 1)

\* observe_at, observe_xt.
Observe(k) ==
    IF st.state = "Unknown" \/ Kind(st.class) # k THEN Candidate(k, 1)
    ELSE IF st.state = "Confirmed" THEN st
    ELSE IF st.streak + 1 >= Confidence THEN Confirmed(k)
    ELSE Candidate(k, st.streak + 1)

\* handle_event, of a detection or of the loss of one.
HandleEvent(new) ==
    IF new.state = "Confirmed" /\ new # st
    THEN /\ trigger' = new.class
         /\ lost' = lost \ {"trigger"}
         /\ UNCHANGED life
    ELSE IF st.state = "Confirmed" /\ new # st
    THEN /\ lost' = {"trigger", "script"}
         /\ life' = IF life \in {"InjectDebug", "ServeStage0Download", "ServeStage1Handoff"}
                    THEN "DetectMachineClass" ELSE life
         /\ UNCHANGED trigger
    ELSE UNCHANGED <<trigger, life, lost>>

\* One frame from the keyboard queue, which select() polls first.
SupervisorFrame ==
    /\ kbdFrames # <<>>
    /\ kbdFrames' = Tail(kbdFrames)
    /\ LET new == IF Head(kbdFrames) = "Bad" THEN st ELSE Observe(Head(kbdFrames))
       IN st' = new /\ HandleEvent(new)
    /\ UNCHANGED <<auxActivity, injVars, booted>>

\* Mutant: AUX traffic promotes an XT host, too
SupervisorAux_any ==
    /\ kbdFrames = <<>> /\ auxActivity
    /\ auxActivity' = FALSE
    /\ LET new == IF st.state = "Confirmed" THEN Confirmed("Ps2") ELSE st
       IN st' = new /\ HandleEvent(new)
    /\ UNCHANGED <<kbdFrames, injVars, booted>>

SupervisorAux ==
    /\ kbdFrames = <<>> /\ auxActivity
    /\ auxActivity' = FALSE
    /\ LET new == IF st = Confirmed("At") THEN Confirmed("Ps2") ELSE st
       IN st' = new /\ HandleEvent(new)
    /\ UNCHANGED <<kbdFrames, injVars, booted>>

-----------------------------------------------------------------------------
(* The injector.                                                           *)
Idle == [class |-> "none", line |-> 0]

\* Mutant: raw requests go first
InjectorTrigger_rawFirst ==
    /\ inj = Idle /\ trigger # "none" /\ rawQ = <<>>
    /\ trigger' = "none"
    /\ life' = "InjectDebug"
    /\ inj' = [class |-> trigger, line |-> 1]
    /\ lost' = IF "trigger" \in lost THEN lost \cup {"script"} ELSE lost \ {"script"}
    /\ UNCHANGED <<st, kbdFrames, auxActivity, rawQ, booted, host>>

InjectorTrigger ==
    /\ inj = Idle /\ trigger # "none"
    /\ trigger' = "none"
    /\ life' = "InjectDebug"
    /\ inj' = [class |-> trigger, line |-> 1]
    /\ lost' = IF "trigger" \in lost THEN lost \cup {"script"} ELSE lost \ {"script"}
    /\ UNCHANGED <<st, kbdFrames, auxActivity, rawQ, booted, host>>

TypeLine ==
    /\ inj # Idle /\ inj.line \in DOMAIN WordsRead[inj.class]
    /\ host' = HostTyped(host, inj.class, inj.line)
    /\ inj' = [inj EXCEPT !.line = @ + 1]
    /\ UNCHANGED <<st, kbdFrames, auxActivity, trigger, rawQ, life, booted, lost>>

\* Mutant: the life cycle is left as it is
ScriptDone_silent ==
    /\ inj # Idle /\ inj.line \notin DOMAIN WordsRead[inj.class]
    /\ inj' = Idle
    /\ UNCHANGED <<st, kbdFrames, auxActivity, trigger, rawQ, life, booted, host, lost>>

ScriptDone ==
    /\ inj # Idle /\ inj.line \notin DOMAIN WordsRead[inj.class]
    /\ inj' = Idle
    /\ life' = "ServeStage0Download"
    /\ UNCHANGED <<st, kbdFrames, auxActivity, trigger, rawQ, booted, host, lost>>

\* A raw request is typed in AT frames whatever the host is.
InjectorRaw ==
    /\ inj = Idle /\ trigger = "none" /\ rawQ # <<>>
    /\ rawQ' = Tail(rawQ)
    /\ host' = [host EXCEPT !.dirty = host.xt \/ Head(rawQ) # "line"]
    /\ UNCHANGED <<st, kbdFrames, auxActivity, trigger, inj, life, booted, lost>>

-----------------------------------------------------------------------------
(* What reaches them: the oversampler tasks, the control port, main.       *)
KbdFrame(f) ==
    /\ Len(kbdFrames) < KbdDepth
    /\ kbdFrames' = Append(kbdFrames, f)
    /\ UNCHANGED <<st, auxActivity, trigger, injVars, life, booted, lost>>

AuxFrame ==
    /\ auxActivity' = TRUE
    /\ UNCHANGED <<st, kbdFrames, trigger, injVars, life, booted, lost>>

ControlRaw(bytes) ==
    /\ Len(rawQ) < RawDepth
    /\ rawQ' = Append(rawQ, bytes)
    /\ UNCHANGED <<st, kbdFrames, auxActivity, trigger, inj, host, life, booted, lost>>

MainReady ==
    /\ ~booted /\ booted' = TRUE
    /\ life' = "ServeCapHandshake"
    /\ UNCHANGED <<st, kbdFrames, auxActivity, trigger, injVars, lost>>

HostReset ==
    /\ host' = [host EXCEPT !.runs = "dos", !.mem = <<>>, !.dirty = FALSE]
    /\ UNCHANGED <<st, kbdFrames, auxActivity, trigger, inj, rawQ, life, booted, lost>>

-----------------------------------------------------------------------------
Init ==
    /\ st = Unknown /\ kbdFrames = <<>> /\ auxActivity = FALSE
    /\ trigger = "none" /\ inj = Idle /\ rawQ = <<>>
    /\ life = "Boot" /\ booted = FALSE
    /\ \E xt \in BOOLEAN :
           host = [xt |-> xt, runs |-> "dos", mem |-> <<>>, dirty |-> FALSE]
    /\ lost = {}

Supervisor == SupervisorFrame \/ SupervisorAux
Injector   == InjectorTrigger \/ TypeLine \/ ScriptDone \/ InjectorRaw

Next ==
    \/ Supervisor \/ Injector
    \/ \E f \in {"At", "Xt", "Bad"} : KbdFrame(f)
    \/ AuxFrame
    \/ \E bytes \in {"keys", "line"} : ControlRaw(bytes)
    \/ MainReady \/ HostReset

Spec == Init /\ [][Next]_vars

\* The executor polls every task that is ready.
FairSpec == Spec /\ WF_vars(Supervisor) /\ WF_vars(Injector)

-----------------------------------------------------------------------------
States == {Unknown} \cup {Candidate(k, n) : k \in {"At", "Xt"}, n \in 1 .. Confidence - 1}
          \cup {Confirmed(c) : c \in Classes}

TypeOK ==
    /\ st \in States
    /\ kbdFrames \in Seq({"At", "Xt", "Bad"}) /\ Len(kbdFrames) <= KbdDepth
    /\ auxActivity \in BOOLEAN /\ booted \in BOOLEAN
    /\ trigger \in Classes \cup {"none"}
    /\ inj.class \in Classes \cup {"none"} /\ inj.line \in Nat
    /\ life \in SupervisorStates
    /\ lost \subseteq {"trigger", "script"}

(* The class is what the trailing run of frames says it is: the classifier *)
(* implements HostClass, and no usable frame passes without counting.      *)
HC == INSTANCE HostClass WITH
          kind <- Kind(st.class), run <- st.streak, aux <- st.class = "Ps2"
FrameTaken ==
    kbdFrames # <<>> /\ Head(kbdFrames) # "Bad" /\ kbdFrames' = Tail(kbdFrames)
ClassFollowsFrames == HC!Spec /\ [][FrameTaken => HC!Frame(Head(kbdFrames))]_vars

Holds(c) == st.state = "Confirmed" /\ (st.class = c \/ (c = "At" /\ st.class = "Ps2"))

(* Injector.rs types for a minute and a half what was decided before: the  *)
(* class it types for, or will type for, is the host's as the classifier   *)
(* knows it, unless that has been taken back since.                        *)
FreshUnlessReset ==
    /\ trigger # "none" /\ "trigger" \notin lost => Holds(trigger)
    /\ inj # Idle /\ "script" \notin lost => Holds(inj.class)

(* lifecycle: main, supervisor and injector store into one cell; still the *)
(* LED says InjectDebug only while a script is being typed.                *)
InjectShownOnlyWhileTyping == life = "InjectDebug" => inj # Idle

(* Stage 0 never starts from a memory that is not its image, although a    *)
(* script may be typed to a host that is reset, of the other class, or     *)
(* whose command line the operator has left unfinished.                    *)
ImageTyped ==
    host.runs = "stage0" =>
        LET bin == Image[IF host.xt THEN "Xt" ELSE "At"]
        IN \A i \in DOMAIN bin : /\ Stage0Origin + i - 1 \in DOMAIN host.mem
                                /\ host.mem[Stage0Origin + i - 1] = bin[i]

(* A detection is handed to the injector in the end.                       *)
TriggerServed == trigger # "none" ~> trigger = "none"
=============================================================================
