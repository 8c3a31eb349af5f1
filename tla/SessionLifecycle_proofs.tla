---------------------- MODULE SessionLifecycle_proofs ----------------------
(***************************************************************************)
(* For any number of sessions and commands: who is engaged has taken bash  *)
(* over, "never" and an opt-out hold, and a superseded start changes       *)
(* nothing.                                                                *)
(***************************************************************************)
EXTENDS SessionLifecycle, TLAPS

\* Stronger than BashNeverDrifts: the registrations outlive their session.
SurfacesInv == \A i \in Starts : decision[i] = "active" => registered

\* A start whose configuration says "never" decided at once: it never probes.
NeverInv == \A i \in Starts : start[i].never => start[i].pc # "probing" /\ decision[i] # "active"

\* Who owns the runtime, or had a command typed, or was turned off, has begun; and
\* turning off superseded whatever that session was still probing.
OptOutInv ==
    /\ runtime # NoRuntime => start[runtime].pc # "idle"
    /\ \A c \in Commands : command[c].pc = "running" =>
          command[c].rt \in Starts /\ start[command[c].rt].pc # "idle"
    /\ \A i \in Starts :
          /\ start[i].gen <= generation
          /\ decision[i] = "opted-out" =>
               /\ start[i].pc # "idle"
               /\ start[i].pc = "probing" => start[i].gen < generation

IInv == TypeOK /\ SurfacesInv /\ NeverInv /\ OptOutInv

LEMMA InitIInv == Init => IInv
<1> SUFFICES ASSUME Init PROVE IInv
  OBVIOUS
<1> USE LifecycleAssumption DEF Init, Unopened
<1>1. TypeOK
  <2>1. Unopened \in StartStates
    BY DEF StartStates
  <2>2. start \in [Starts -> StartStates]
    BY <2>1
  <2>3. decision \in [Starts -> Decisions] /\ command \in [Commands -> CommandStates]
    BY DEF Decisions, CommandStates
  <2>4. registered \in BOOLEAN
    OBVIOUS
  <2>5. generation \in Nat /\ runtime \in Starts \cup {NoRuntime} /\ shutdowns \in 0..MaxShutdowns
    OBVIOUS
  <2> HIDE DEF Init
  <2> QED
    BY <2>2, <2>3, <2>4, <2>5 DEF TypeOK
<1>2. SurfacesInv /\ NeverInv /\ OptOutInv
  BY DEF SurfacesInv, NeverInv, OptOutInv
<1> QED
  BY <1>1, <1>2 DEF IInv

\* The effect of taking a decision, whichever handler takes it.
LEMMA AppliesType ==
    ASSUME TypeOK, NEW i \in Starts, NEW d \in Decisions, NEW st \in StartStates,
           Applies(i, d, st)
    PROVE  /\ start' \in [Starts -> StartStates]
           /\ decision' \in [Starts -> Decisions]
           /\ registered' \in BOOLEAN
BY DEF Applies, TypeOK, StartStates, Decisions

LEMMA OpenedType ==
    ASSUME TypeOK
    PROVE  /\ Opened \in StartStates
           /\ Opened.gen = generation + 1 /\ Opened.pc = "idle" /\ ~Opened.never
<1>1. Unopened \in StartStates /\ Unopened.pc = "idle" /\ ~Unopened.never
  BY DEF Unopened, StartStates
<1>2. ASSUME NEW st \in StartStates
      PROVE  LET new == [st EXCEPT !.gen = generation + 1]
             IN  /\ new \in StartStates /\ new.gen = generation + 1
                 /\ new.pc = st.pc /\ new.never = st.never
  BY DEF StartStates, TypeOK
<1> QED
  BY <1>1, <1>2 DEF Opened

\* What session_start has done to its session before its first await.
LEMMA BeginsEffect ==
    ASSUME IInv, NEW i \in Starts, StartBegins(i)
    PROVE  /\ start'[i].gen = generation + 1 /\ start'[i].pc # "idle"
           /\ start'[i].never => start'[i].pc # "probing" /\ decision'[i] # "active"
           /\ decision'[i] = "opted-out" => start'[i].pc # "probing"
           /\ \A j \in Starts : j # i => start'[j] = start[j] /\ decision'[j] = decision[j]
<1> USE DEF IInv, TypeOK
<1>1. Opened \in StartStates /\ Opened.gen = generation + 1 /\ ~Opened.never
  BY OpenedType
<1>2. ASSUME NEW st \in StartStates, NEW d \in Decisions, st.gen = generation + 1,
             st.never => d # "active", Applies(i, d, st)
      PROVE  /\ start'[i].gen = generation + 1 /\ start'[i].pc \in {"restoring", "done"}
             /\ start'[i].never => decision'[i] # "active"
             /\ \A j \in Starts : j # i => start'[j] = start[j] /\ decision'[j] = decision[j]
  <2>1. start'[i] = [st EXCEPT !.pc = IF d = "active" /\ st.restores THEN "restoring" ELSE "done"]
        /\ decision'[i] = d
        /\ \A j \in Starts : j # i => start'[j] = start[j] /\ decision'[j] = decision[j]
    BY <1>2 DEF Applies
  <2>2. start'[i].gen = st.gen /\ start'[i].never = st.never /\ start'[i].pc \in {"restoring", "done"}
    BY <2>1 DEF StartStates
  <2> QED
    BY <1>2, <2>1, <2>2
<1>3. CASE Applies(i, "config-never", [Opened EXCEPT !.never = TRUE])
  <2>1. LET st == [Opened EXCEPT !.never = TRUE]
        IN  st \in StartStates /\ st.gen = generation + 1
    BY <1>1 DEF StartStates
  <2> QED
    BY <1>2, <1>3, <2>1 DEF Decisions
<1>4. CASE Applies(i, "opted-out", Opened)
  BY <1>1, <1>2, <1>4 DEF Decisions
<1>5. ASSUME NEW r \in BOOLEAN, Applies(i, "active", [Opened EXCEPT !.restores = r])
      PROVE  /\ start'[i].gen = generation + 1 /\ start'[i].pc \in {"restoring", "done"}
             /\ start'[i].never => decision'[i] # "active"
             /\ \A j \in Starts : j # i => start'[j] = start[j] /\ decision'[j] = decision[j]
  <2>1. LET st == [Opened EXCEPT !.restores = r]
        IN  st \in StartStates /\ st.gen = generation + 1 /\ ~st.never
    BY <1>1 DEF StartStates
  <2> QED
    BY <1>2, <1>5, <2>1 DEF Decisions
<1>6. CASE /\ start' = [start EXCEPT ![i] = [Opened EXCEPT !.pc = "probing"]]
           /\ UNCHANGED <<decision, registered>>
  <2>1. LET st == [Opened EXCEPT !.pc = "probing"]
        IN  st.gen = generation + 1 /\ st.pc = "probing" /\ ~st.never
    BY <1>1 DEF StartStates
  <2>2. start[i].pc = "idle" /\ decision[i] # "opted-out"
    BY DEF StartBegins, OptOutInv
  <2> QED
    BY <1>6, <2>1, <2>2
<1> QED
  BY <1>3, <1>4, <1>5, <1>6 DEF StartBegins

LEMMA TypeStep == IInv /\ [Next]_vars => TypeOK'
<1> SUFFICES ASSUME IInv, [Next]_vars PROVE TypeOK'
  OBVIOUS
<1>0. TypeOK
  BY DEF IInv
<1>1. ASSUME NEW i \in Starts, StartBegins(i) PROVE TypeOK'
  <2>1. generation' \in Nat /\ runtime' \in Starts
    BY <1>0, <1>1 DEF StartBegins, Invalidate, TypeOK
  <2>2. start' \in [Starts -> StartStates] /\ decision' \in [Starts -> Decisions] /\ registered' \in BOOLEAN
    <3>0. ASSUME NEW st \in StartStates
          PROVE  /\ [st EXCEPT !.never = TRUE] \in StartStates
                 /\ \A r \in BOOLEAN : [st EXCEPT !.restores = r] \in StartStates
                 /\ [st EXCEPT !.pc = "probing"] \in StartStates
      BY DEF StartStates
    <3>1. CASE Applies(i, "config-never", [Opened EXCEPT !.never = TRUE])
      BY <1>0, <3>0, <3>1, AppliesType, OpenedType DEF Decisions
    <3>2. CASE Applies(i, "opted-out", Opened)
      BY <1>0, <3>0, <3>2, AppliesType, OpenedType DEF Decisions
    <3>3. CASE \E r \in BOOLEAN : Applies(i, "active", [Opened EXCEPT !.restores = r])
      BY <1>0, <3>0, <3>3, AppliesType, OpenedType DEF Decisions
    <3>4. CASE /\ start' = [start EXCEPT ![i] = [Opened EXCEPT !.pc = "probing"]]
               /\ UNCHANGED <<decision, registered>>
      BY <1>0, <3>0, <3>4, OpenedType DEF TypeOK
    <3> QED
      BY <1>1, <3>1, <3>2, <3>3, <3>4 DEF StartBegins
  <2> QED
    BY <1>0, <1>1, <2>1, <2>2 DEF StartBegins, TypeOK
<1>2. ASSUME NEW i \in Starts, StartProbed(i) PROVE TypeOK'
  <2>1. CASE \E d \in {"active", "no-evidence"} : Applies(i, d, start[i])
    BY <1>0, <1>2, <2>1, AppliesType DEF StartProbed, TypeOK, Decisions
  <2>2. CASE ~IsCurrent(i)
    BY <1>0, <1>2, <2>2 DEF StartProbed, TypeOK, StartStates
  <2> QED
    BY <1>2, <2>1, <2>2 DEF StartProbed
<1>3. ASSUME NEW i \in Starts, StartRestored(i) PROVE TypeOK'
  BY <1>0, <1>3 DEF StartRestored, TypeOK, StartStates
<1>4. ASSUME NEW c \in Commands, NEW verb \in {"engage", "off"}, CommandTyped(c, verb) PROVE TypeOK'
  BY <1>0, <1>4 DEF CommandTyped, TypeOK, CommandStates
<1>5. ASSUME NEW c \in Commands, CommandEndsIdle(c) \/ Engages(c) \/ TurnsOff(c) PROVE TypeOK'
  <2>1. command' \in [Commands -> CommandStates]
    BY <1>0, <1>5 DEF CommandEndsIdle, Engages, TurnsOff, CommandEnds, TypeOK, CommandStates
  <2>2. decision' \in [Starts -> Decisions]
    BY <1>0, <1>5 DEF CommandEndsIdle, Engages, TurnsOff, TypeOK, Decisions
  <2>3. generation' \in Nat /\ UNCHANGED <<runtime, start, shutdowns>>
    BY <1>0, <1>5 DEF CommandEndsIdle, Engages, TurnsOff, Invalidate, TypeOK
  <2>4. registered' \in BOOLEAN
    BY <1>0, <1>5 DEF CommandEndsIdle, Engages, TurnsOff, TypeOK
  <2> QED
    BY <1>0, <2>1, <2>2, <2>3, <2>4 DEF TypeOK
<1>6. CASE Shutdown
  BY <1>0, <1>6, LifecycleAssumption DEF Shutdown, Invalidate, TypeOK
<1>7. CASE UNCHANGED vars
  BY <1>0, <1>7 DEF vars, TypeOK
<1> QED
  BY <1>1, <1>2, <1>3, <1>4, <1>5, <1>6, <1>7 DEF Next, StartStep, CommandStep

LEMMA SurfacesStep == IInv /\ [Next]_vars => SurfacesInv'
<1> SUFFICES ASSUME IInv, [Next]_vars PROVE SurfacesInv'
  OBVIOUS
<1> USE DEF IInv, SurfacesInv, TypeOK
<1>1. ASSUME NEW i \in Starts, StartStep(i) PROVE SurfacesInv'
  BY <1>1 DEF StartStep, StartBegins, StartProbed, StartRestored, Applies
<1>2. ASSUME NEW c \in Commands, CommandStep(c) PROVE SurfacesInv'
  BY <1>2 DEF CommandStep, CommandTyped, CommandEndsIdle, Engages, TurnsOff
<1>3. CASE Shutdown \/ UNCHANGED vars
  BY <1>3 DEF Shutdown, vars
<1> QED
  BY <1>1, <1>2, <1>3 DEF Next

LEMMA NeverStep == IInv /\ [Next]_vars => NeverInv'
<1> SUFFICES ASSUME IInv, [Next]_vars PROVE NeverInv'
  OBVIOUS
<1> USE DEF IInv, NeverInv, TypeOK, StartStates
<1>1. ASSUME NEW i \in Starts, StartBegins(i) PROVE NeverInv'
  BY <1>1, BeginsEffect
<1>2. ASSUME NEW i \in Starts, StartProbed(i) PROVE NeverInv'
  BY <1>2 DEF StartProbed, Applies
<1>3. ASSUME NEW i \in Starts, StartRestored(i) PROVE NeverInv'
  BY <1>3 DEF StartRestored
<1>4. ASSUME NEW c \in Commands, CommandStep(c) PROVE NeverInv'
  BY <1>4 DEF CommandStep, CommandTyped, CommandEndsIdle, Engages, TurnsOff
<1>5. CASE Shutdown \/ UNCHANGED vars
  BY <1>5 DEF Shutdown, vars
<1> QED
  BY <1>1, <1>2, <1>3, <1>4, <1>5 DEF Next, StartStep

LEMMA OptOutStep == IInv /\ [Next]_vars => OptOutInv'
<1> SUFFICES ASSUME IInv, [Next]_vars PROVE OptOutInv'
  OBVIOUS
<1> USE LifecycleAssumption DEF IInv, OptOutInv, TypeOK, StartStates, CommandStates
<1>1. ASSUME NEW i \in Starts, StartBegins(i) PROVE OptOutInv'
  <2>1. generation' = generation + 1 /\ runtime' = i /\ UNCHANGED command
    BY <1>1 DEF StartBegins, Invalidate
  <2>2. /\ start'[i].gen = generation + 1 /\ start'[i].pc # "idle"
        /\ decision'[i] = "opted-out" => start'[i].pc # "probing"
        /\ \A j \in Starts : j # i => start'[j] = start[j] /\ decision'[j] = decision[j]
    BY <1>1, BeginsEffect
  <2> QED
    BY <2>1, <2>2
<1>2. ASSUME NEW i \in Starts, StartProbed(i) PROVE OptOutInv'
  <2>1. generation' = generation /\ runtime' = runtime /\ UNCHANGED command
    BY <1>2 DEF StartProbed
  <2>2. /\ start'[i].gen = start[i].gen /\ start'[i].pc \notin {"idle", "probing"}
        /\ \A j \in Starts : j # i => start'[j] = start[j] /\ decision'[j] = decision[j]
    BY <1>2 DEF StartProbed, Applies
  <2> QED
    BY <2>1, <2>2
<1>3. ASSUME NEW i \in Starts, StartRestored(i) PROVE OptOutInv'
  BY <1>3 DEF StartRestored
<1>4. ASSUME NEW c \in Commands, NEW verb \in {"engage", "off"}, CommandTyped(c, verb)
      PROVE  OptOutInv'
  BY <1>4 DEF CommandTyped
<1>5. ASSUME NEW c \in Commands, CommandEndsIdle(c) PROVE OptOutInv'
  BY <1>5 DEF CommandEndsIdle, CommandEnds
<1>6. ASSUME NEW c \in Commands, Engages(c) \/ TurnsOff(c) PROVE OptOutInv'
  <2>1. generation' = generation + 1 /\ UNCHANGED <<runtime, start>>
    BY <1>6 DEF Engages, TurnsOff, Invalidate
  <2>2. /\ command'[c].pc = "done"
        /\ \A d \in Commands : d # c => command'[d] = command[d]
        /\ \A i \in Starts : i # command[c].rt => decision'[i] = decision[i]
        /\ command[c].rt \in Starts /\ start[command[c].rt].pc # "idle"
    BY <1>6 DEF Engages, TurnsOff, CommandEnds
  <2> QED
    BY <2>1, <2>2
<1>7. CASE Shutdown \/ UNCHANGED vars
  BY <1>7 DEF Shutdown, Invalidate, vars
<1> QED
  BY <1>1, <1>2, <1>3, <1>4, <1>5, <1>6, <1>7 DEF Next, StartStep, CommandStep

LEMMA Invariance == Spec => []IInv
<1>1. IInv /\ [Next]_vars => IInv'
  BY TypeStep, SurfacesStep, NeverStep, OptOutStep DEF IInv
<1> QED
  BY InitIInv, <1>1, PTL DEF Spec

\* Every variable keeps its type, for any number of starts and commands.
THEOREM TypeCorrect == Spec => []TypeOK
BY Invariance, PTL DEF IInv

\* The agent's bash and the operator's `!' run in the same place: a session that
\* is engaged has the routed bash registered, since every step that takes an
\* active decision registers it and nothing takes it back (lazyBashOperations,
\* resolveUserBash).
THEOREM BashAgrees == Spec => []BashNeverDrifts
<1>1. IInv => BashNeverDrifts
  BY DEF IInv, SurfacesInv, TypeOK, BashNeverDrifts, BashTool, UserBash, Routed
<1> QED
  BY Invariance, <1>1, PTL

\* activation "never" is never overruled.
THEOREM NeverHolds == Spec => []NeverStaysDormant
<1>1. IInv => NeverStaysDormant
  BY DEF IInv, NeverInv, NeverStaysDormant
<1> QED
  BY Invariance, <1>1, PTL

\* An opt-out is undone only by an explicit command of its own session: `off'
\* supersedes the probe that might have decided otherwise.
THEOREM OptOutStands == Spec => OptOutHolds
<1> DEFINE Kept == \A i \in Starts :
                decision[i] = "opted-out" /\ decision'[i] # "opted-out"
                => \E c \in Commands :
                      /\ command[c].rt = i
                      /\ command[c].verb = "engage"
                      /\ command[c].pc = "running" /\ command'[c].pc = "done"
<1>1. IInv /\ [Next]_vars => [Kept]_vars
  <2> SUFFICES ASSUME IInv, Next, NEW i \in Starts,
                      decision[i] = "opted-out", decision'[i] # "opted-out"
               PROVE  \E c \in Commands :
                         /\ command[c].rt = i
                         /\ command[c].verb = "engage"
                         /\ command[c].pc = "running" /\ command'[c].pc = "done"
    OBVIOUS
  <2> USE DEF IInv, TypeOK, OptOutInv
  <2>1. ASSUME NEW j \in Starts, StartStep(j) PROVE FALSE
    <3>1. start[i].pc # "idle" /\ (start[i].pc = "probing" => ~IsCurrent(i))
      BY DEF IsCurrent, StartStates
    <3> QED
      BY <2>1, <3>1 DEF StartStep, StartBegins, StartProbed, StartRestored, Applies
  <2>2. ASSUME NEW c \in Commands, CommandStep(c) PROVE Engages(c) /\ command[c].rt = i
    BY <2>2 DEF CommandStep, CommandTyped, CommandEndsIdle, Engages, TurnsOff
  <2>3. ~Shutdown
    BY DEF Shutdown
  <2>4. PICK c \in Commands : Engages(c) /\ command[c].rt = i
    BY <2>1, <2>2, <2>3 DEF Next
  <2> QED
    BY <2>4 DEF Engages, CommandEnds, CommandStates
<1> QED
  BY Invariance, <1>1, PTL DEF Spec, OptOutHolds

\* What a session_start does after it was superseded is nothing.
THEOREM SupersededIsInert == Spec => SupersededMutatesNothing
<1> DEFINE Inert == \A i \in Starts :
                start[i].pc \in {"probing", "restoring"} /\ ~IsCurrent(i) /\ start'[i] # start[i]
                => UNCHANGED <<generation, runtime, decision, registered>>
<1>1. IInv /\ [Next]_vars => [Inert]_vars
  <2> SUFFICES ASSUME IInv, Next, NEW i \in Starts, start[i].pc \in {"probing", "restoring"},
                      ~IsCurrent(i), start'[i] # start[i]
               PROVE  UNCHANGED <<generation, runtime, decision, registered>>
    OBVIOUS
  <2> USE DEF IInv, TypeOK
  <2>1. ASSUME NEW j \in Starts, StartStep(j) PROVE j = i /\ ~StartBegins(i)
    BY <2>1 DEF StartStep, StartBegins, StartProbed, StartRestored, Applies
  <2>2. ASSUME NEW c \in Commands, CommandStep(c) PROVE FALSE
    BY <2>2 DEF CommandStep, CommandTyped, CommandEndsIdle, Engages, TurnsOff
  <2>3. ~Shutdown
    BY DEF Shutdown
  <2>4. StartProbed(i) \/ StartRestored(i)
    BY <2>1, <2>2, <2>3 DEF Next, StartStep
  <2> QED
    BY <2>4 DEF StartProbed, StartRestored
<1> QED
  BY Invariance, <1>1, PTL DEF Spec, SupersededMutatesNothing

=============================================================================
