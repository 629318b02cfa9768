-------------------------- MODULE SessionRunsProofs --------------------------
(***************************************************************************)
(* Proofs about the runs of a session, for any number of commands and of     *)
(* replacements of the session.                                              *)
(***************************************************************************)
EXTENDS SessionRuns, TLAPS

\* A command that has not called the SDK holds the admission.
Admitted ==
  \A c \in Cmd : cmds[c].kind \in Resumes /\ cmds[c].stage \in {"aborting", "snapshot"}
                   => pendingResume = c /\ ~preparing[c]

\* The SDK is at the command whose promise is pending, if it is at one; a resume
\* it prepares still holds the admission.
Owned ==
  /\ \A c \in Cmd : /\ cmds[c].stage = "sdk" => owner = c
                    /\ cmds[c].kind = "none" => cmds[c].stage = "done"
  /\ owner # 0 => cmds[owner].stage = "sdk" /\ sdk # "idle"
  /\ sdk = "preparing" /\ owner # 0 /\ cmds[owner].kind \in Resumes
       => pendingResume = owner /\ preparing[owner]

\* Only resumes are stopped by name, and while one holds the admission Stop marks
\* it there.
Marked ==
  \A c \in Cmd : /\ stopAsked[c] => cmds[c].kind \in Resumes
                 /\ stopAsked[c] /\ pendingResume = c => cancelled[c]
                 /\ preparing[c] => cmds[c].kind \in Resumes

IInv == /\ TypeOK /\ Admitted /\ Owned /\ Marked
        /\ AdmissionIsHeld /\ RunIsShown /\ StopIsHonoured

-----------------------------------------------------------------------------
\* What a step does to the commands

Command == [kind : Kinds \cup {"none"}, stage : Stages, prevEnd : Nat, leaf : Nat,
            session : 1..MaxInner]

\* One command goes to a stage.
Advances(c, stage) ==
  /\ cmds' \in [Cmd -> Command]
  /\ \A d \in Cmd : cmds'[d].kind = cmds[d].kind /\ (d # c => cmds'[d] = cmds[d])
  /\ cmds'[c].stage = stage

\* The commands whose promise is pending, all or that of the owner, go to a stage.
Settles(stage) ==
  /\ cmds' \in [Cmd -> Command]
  /\ \A d \in Cmd : /\ cmds'[d].kind = cmds[d].kind
                    /\ cmds'[d].stage = IF cmds[d].stage = "sdk" THEN stage
                                        ELSE cmds[d].stage

LEMMA NoCommandZero == 0 \notin Cmd /\ \A c \in Cmd : c \in Nat
BY DEF Cmd

LEMMA CommandGoes ==
  ASSUME TypeOK, NEW c \in Cmd, NEW s \in Stages,
         \/ cmds' = [cmds EXCEPT ![c].stage = s, ![c].prevEnd = ends,
                                ![c].session = inner]
         \/ cmds' = [cmds EXCEPT ![c].stage = s, ![c].prevEnd = ends]
         \/ cmds' = [cmds EXCEPT ![c].stage = s, ![c].leaf = turns]
  PROVE  Advances(c, s)
<1>1. cmds \in [Cmd -> Command] /\ ends \in Nat /\ turns \in Nat /\ inner \in 1..MaxInner
  BY DEF TypeOK, Command
<1>2. PICK r \in Command : /\ cmds' = [cmds EXCEPT ![c] = r]
                           /\ r.kind = cmds[c].kind /\ r.stage = s
  <2>1. CASE cmds' = [cmds EXCEPT ![c].stage = s, ![c].prevEnd = ends,
                                 ![c].session = inner]
    <3>1. [cmds[c] EXCEPT !.stage = s, !.prevEnd = ends, !.session = inner] \in Command
      BY ZenonT(60), <1>1 DEF Command
    <3> QED  BY <1>1, <2>1, <3>1 DEF Command
  <2>2. CASE cmds' = [cmds EXCEPT ![c].stage = s, ![c].prevEnd = ends]
    <3>1. [cmds[c] EXCEPT !.stage = s, !.prevEnd = ends] \in Command
      BY ZenonT(60), <1>1 DEF Command
    <3> QED  BY <1>1, <2>2, <3>1 DEF Command
  <2>3. CASE cmds' = [cmds EXCEPT ![c].stage = s, ![c].leaf = turns]
    <3>1. [cmds[c] EXCEPT !.stage = s, !.leaf = turns] \in Command
      BY ZenonT(60), <1>1 DEF Command
    <3> QED  BY <1>1, <2>3, <3>1 DEF Command
  <2> QED  BY <2>1, <2>2, <2>3
<1> QED  BY <1>1, <1>2 DEF Advances

\* A command that is over.
LEMMA CommandOver ==
  ASSUME TypeOK, RunsAssumption, NEW c \in Cmd, Over(c)
  PROVE  Advances(c, "done")
<1>1. cmds \in [Cmd -> Command]
  BY DEF TypeOK, Command
<1>2. [NoCommand EXCEPT !.kind = cmds[c].kind] \in Command
  BY <1>1 DEF Command, NoCommand, RunsAssumption, Stages
<1>3. [NoCommand EXCEPT !.kind = cmds[c].kind].stage = "done"
  BY DEF NoCommand
<1>4. [NoCommand EXCEPT !.kind = cmds[c].kind].kind = cmds[c].kind
  BY DEF NoCommand
<1> QED  BY <1>1, <1>2, <1>3, <1>4 DEF Advances, Over

LEMMA CommandsSettle ==
  ASSUME TypeOK, Owned, NEW s \in Stages,
         \/ cmds' = [c \in Cmd |-> IF cmds[c].stage = "sdk"
                                   THEN [cmds[c] EXCEPT !.stage = s] ELSE cmds[c]]
         \/ cmds' = [c \in Cmd |-> IF c = owner
                                   THEN [cmds[c] EXCEPT !.stage = s] ELSE cmds[c]]
  PROVE  Settles(s)
<1>1. cmds \in [Cmd -> Command]
  BY DEF TypeOK, Command
<1>2. \A c \in Cmd : cmds[c].stage = "sdk" <=> c = owner
  <2>1. \A c \in Cmd : cmds[c].stage = "sdk" => c = owner
    BY DEF Owned
  <2>2. owner # 0 => cmds[owner].stage = "sdk"
    BY DEF Owned
  <2> QED  BY <2>1, <2>2, NoCommandZero
<1>3. cmds' = [c \in Cmd |-> IF cmds[c].stage = "sdk"
                            THEN [cmds[c] EXCEPT !.stage = s] ELSE cmds[c]]
  BY <1>2
<1>4. \A c \in Cmd : [cmds[c] EXCEPT !.stage = s] \in Command
  BY <1>1 DEF Command
<1>5. cmds' \in [Cmd -> Command]
  BY <1>1, <1>3, <1>4
<1>6. \A c \in Cmd : /\ [cmds[c] EXCEPT !.stage = s].kind = cmds[c].kind
                     /\ [cmds[c] EXCEPT !.stage = s].stage = s
  BY <1>1 DEF Command
<1> QED  BY <1>3, <1>5, <1>6 DEF Settles

\* A command is issued: nothing of it was there before.
LEMMA CommandIssued ==
  ASSUME TypeOK, NEW c \in Cmd, NEW k \in Kinds, NEW s \in Stages, Issue(c, k, s)
  PROVE  /\ cmds' \in [Cmd -> Command]
         /\ cmds[c].kind = "none" /\ cmds'[c].kind = k /\ cmds'[c].stage = s
         /\ \A d \in Cmd \ {c} : cmds'[d] = cmds[d]
<1>1. cmds \in [Cmd -> Command]
  BY DEF TypeOK, Command
<1>2. [kind |-> k, stage |-> s, prevEnd |-> ends, leaf |-> turns, session |-> inner]
        \in Command
  BY DEF TypeOK, Command
<1> QED  BY <1>1, <1>2 DEF Issue

-----------------------------------------------------------------------------
\* destroy(): whatever the wrapper was at, the admission stays with a command that
\* will see its promise rejected.
LEMMA DestroyKeeps ==
  ASSUME IInv, Destroy, bash' \in BOOLEAN, authPending' \in BOOLEAN
  PROVE  IInv'
<1> USE DEF IInv
<1>1. Settles("rejected")
  BY CommandsSettle DEF Destroy, Disposed, Stages
<1>2. /\ alive' = FALSE
      /\ cancelled' = [c \in Cmd |-> cancelled[c] \/ c = pendingResume]
      /\ sdk' = "idle" /\ owner' = 0
      /\ UNCHANGED <<inner, runActive, stopping, ends, pendingResume, preparing, turns, stopAsked, masked>>
  BY DEF Destroy, Disposed, history
<1>3. TypeOK'
  BY <1>1, <1>2, NoCommandZero DEF TypeOK, Command, Settles
<1>4. Admitted'
  BY <1>1, <1>2, NoCommandZero DEF Admitted, TypeOK, Command, Resumes, Owned, Marked, Prompts, Kinds, Settles
<1>5. Owned'
  BY <1>1, <1>2, NoCommandZero DEF Owned, TypeOK, Command, Resumes, Admitted, Prompts, Settles
<1>6. Marked'
  BY <1>1, <1>2, NoCommandZero DEF Marked, TypeOK, Command, Resumes, AdmissionIsHeld, Owned, Settles
<1>7. AdmissionIsHeld'
  BY <1>1, <1>2, NoCommandZero DEF AdmissionIsHeld, TypeOK, Command, Resumes, Prompts, Waiting, Stages, Owned, Settles
<1>8. RunIsShown'
  BY <1>1, <1>2, NoCommandZero DEF RunIsShown, TypeOK, Settles
<1>9. StopIsHonoured'
  BY <1>1, <1>2, NoCommandZero DEF StopIsHonoured, TypeOK, Owned, Marked, RunIsShown, Settles
<1> QED  BY <1>3, <1>4, <1>5, <1>6, <1>7, <1>8, <1>9 DEF IInv

LEMMA IInvHolds == ASSUME RunsAssumption PROVE Spec => []IInv
<1>1. Init => IInv
  <2> SUFFICES ASSUME Init  PROVE IInv
    OBVIOUS
  <2>1. NoCommand \in Command
    BY RunsAssumption DEF RunsAssumption, NoCommand, Command, Stages
  <2>2. TypeOK
    <3>1. 1 \in 1..MaxInner
      BY RunsAssumption DEF RunsAssumption
    <3>2. cmds \in [Cmd -> Command]
      BY <2>1 DEF Init
    <3> QED  BY <3>1, <3>2 DEF Init, TypeOK, Command
  <2>3. \A c \in Cmd : cmds[c].kind = "none" /\ cmds[c].stage = "done"
    BY DEF Init, NoCommand
  <2> QED  BY <2>2, <2>3 DEF Init, IInv, Admitted, Owned, Marked, AdmissionIsHeld,
                            RunIsShown, StopIsHonoured, Resumes
<1>2. IInv /\ [Next]_vars => IInv'
  <2> SUFFICES ASSUME IInv, [Next]_vars  PROVE IInv'
    OBVIOUS
  <2> USE DEF IInv
  <2>1. ASSUME NEW c \in Cmd, NEW k \in Prompts, Prompt(c, k)  PROVE IInv'
    <3>1. /\ cmds' \in [Cmd -> Command]
          /\ cmds[c].kind = "none" /\ cmds'[c].kind = k /\ cmds'[c].stage = "snapshot"
          /\ \A d \in Cmd \ {c} : cmds'[d] = cmds[d]
      BY <2>1, CommandIssued DEF Prompt, Kinds, Stages
    <3>2. /\ pendingResume = 0
          /\ UNCHANGED <<alive, inner, runActive, stopping, ends, bash, authPending, pendingResume, cancelled, preparing, sdk, owner, turns, stopAsked, masked>>
      BY <2>1 DEF Prompt, wrapper, resume, engine, history
    <3>3. TypeOK'
      BY <3>1, <3>2, NoCommandZero DEF TypeOK, Command
    <3>4. Admitted'
      BY <3>1, <3>2, NoCommandZero DEF Admitted, TypeOK, Command, Resumes, Owned, Marked, Prompts, Kinds
    <3>5. Owned'
      BY <3>1, <3>2, NoCommandZero DEF Owned, TypeOK, Command, Resumes, Admitted, Prompts
    <3>6. Marked'
      BY <3>1, <3>2, NoCommandZero DEF Marked, TypeOK, Command, Resumes, AdmissionIsHeld, Owned
    <3>7. AdmissionIsHeld'
      BY <3>1, <3>2, NoCommandZero DEF AdmissionIsHeld, TypeOK, Command, Resumes, Prompts, Waiting, Stages, Owned
    <3>8. RunIsShown'
      BY <3>1, <3>2, NoCommandZero DEF RunIsShown, TypeOK
    <3>9. StopIsHonoured'
      BY <3>1, <3>2, NoCommandZero DEF StopIsHonoured, TypeOK, Owned, Marked, RunIsShown
    <3> QED  BY <3>3, <3>4, <3>5, <3>6, <3>7, <3>8, <3>9 DEF IInv
  <2>2. ASSUME NEW c \in Cmd, Resume(c)  PROVE IInv'
    <3>1. /\ cmds' \in [Cmd -> Command]
          /\ cmds[c].kind = "none" /\ cmds'[c].kind = "resume" /\ cmds'[c].stage = "snapshot"
          /\ \A d \in Cmd \ {c} : cmds'[d] = cmds[d]
      BY <2>2, CommandIssued DEF Resume, Kinds, Resumes, Stages
    <3>2. /\ pendingResume = 0 /\ pendingResume' = c /\ ~runActive /\ sdk = "idle"
          /\ UNCHANGED <<alive, inner, runActive, stopping, ends, bash, authPending, cancelled, preparing, sdk, owner, turns, stopAsked, masked>>
      BY <2>2 DEF Resume, Quiet, wrapper, engine, history
    <3>3. TypeOK'
      BY <3>1, <3>2, NoCommandZero DEF TypeOK, Command
    <3>4. Admitted'
      BY <3>1, <3>2, NoCommandZero DEF Admitted, TypeOK, Command, Resumes, Owned, Marked, Prompts, Kinds
    <3>5. Owned'
      BY <3>1, <3>2, NoCommandZero DEF Owned, TypeOK, Command, Resumes, Admitted, Prompts
    <3>6. Marked'
      BY <3>1, <3>2, NoCommandZero DEF Marked, TypeOK, Command, Resumes, AdmissionIsHeld, Owned
    <3>7. AdmissionIsHeld'
      BY <3>1, <3>2, NoCommandZero DEF AdmissionIsHeld, TypeOK, Command, Resumes, Prompts, Waiting, Stages, Owned
    <3>8. RunIsShown'
      BY <3>1, <3>2, NoCommandZero DEF RunIsShown, TypeOK
    <3>9. StopIsHonoured'
      BY <3>1, <3>2, NoCommandZero DEF StopIsHonoured, TypeOK, Owned, Marked, RunIsShown
    <3> QED  BY <3>3, <3>4, <3>5, <3>6, <3>7, <3>8, <3>9 DEF IInv
  <2>3. ASSUME NEW c \in Cmd, Restart(c)  PROVE IInv'
    <3>1. /\ cmds' \in [Cmd -> Command]
          /\ cmds[c].kind = "none" /\ cmds'[c].kind = "restart" /\ cmds'[c].stage = "aborting"
          /\ \A d \in Cmd \ {c} : cmds'[d] = cmds[d]
      BY <2>3, CommandIssued DEF Restart, Kinds, Resumes, Stages
    <3>2. /\ runActive /\ pendingResume = 0 /\ pendingResume' = c /\ stopping' = TRUE
          /\ UNCHANGED <<alive, inner, runActive, ends, bash, authPending, cancelled, preparing, sdk, owner, turns, stopAsked, masked>>
      BY <2>3 DEF Restart, engine, history
    <3>3. TypeOK'
      BY <3>1, <3>2, NoCommandZero DEF TypeOK, Command
    <3>4. Admitted'
      BY <3>1, <3>2, NoCommandZero DEF Admitted, TypeOK, Command, Resumes, Owned, Marked, Prompts, Kinds
    <3>5. Owned'
      BY <3>1, <3>2, NoCommandZero DEF Owned, TypeOK, Command, Resumes, Admitted, Prompts
    <3>6. Marked'
      BY <3>1, <3>2, NoCommandZero DEF Marked, TypeOK, Command, Resumes, AdmissionIsHeld, Owned
    <3>7. AdmissionIsHeld'
      BY <3>1, <3>2, NoCommandZero DEF AdmissionIsHeld, TypeOK, Command, Resumes, Prompts, Waiting, Stages, Owned
    <3>8. RunIsShown'
      BY <3>1, <3>2, NoCommandZero DEF RunIsShown, TypeOK
    <3>9. StopIsHonoured'
      BY <3>1, <3>2, NoCommandZero DEF StopIsHonoured, TypeOK, Owned, Marked, RunIsShown
    <3> QED  BY <3>3, <3>4, <3>5, <3>6, <3>7, <3>8, <3>9 DEF IInv
  <2>4. ASSUME NEW c \in Cmd, PromptCalls(c)  PROVE IInv'
    <3>1. CASE sdk = "idle" /\ alive
      <4>1. Advances(c, "sdk")
        BY <2>4, <3>1, CommandGoes DEF PromptCalls, Stages
      <4>2. /\ cmds[c].kind \in Prompts /\ cmds[c].stage = "snapshot"
            /\ sdk = "idle" /\ alive
            /\ sdk' = "preparing" /\ owner' = c
            /\ UNCHANGED <<alive, inner, runActive, stopping, ends, bash, authPending, pendingResume, cancelled, preparing, turns, stopAsked, masked>>
        BY <2>4, <3>1 DEF PromptCalls, At, wrapper, resume, history
      <4>3. TypeOK'
        BY <4>1, <4>2, NoCommandZero DEF TypeOK, Command, Advances
      <4>4. Admitted'
        BY <4>1, <4>2, NoCommandZero DEF Admitted, TypeOK, Command, Resumes, Owned, Marked, Prompts, Kinds, Advances
      <4>5. Owned'
        BY <4>1, <4>2, NoCommandZero DEF Owned, TypeOK, Command, Resumes, Admitted, Prompts, Advances
      <4>6. Marked'
        BY <4>1, <4>2, NoCommandZero DEF Marked, TypeOK, Command, Resumes, AdmissionIsHeld, Owned, Advances
      <4>7. AdmissionIsHeld'
        BY <4>1, <4>2, NoCommandZero DEF AdmissionIsHeld, TypeOK, Command, Resumes, Prompts, Waiting, Stages, Owned, Advances
      <4>8. RunIsShown'
        BY <4>1, <4>2, NoCommandZero DEF RunIsShown, TypeOK, Advances
      <4>9. StopIsHonoured'
        BY <4>1, <4>2, NoCommandZero DEF StopIsHonoured, TypeOK, Owned, Marked, RunIsShown, Advances
      <4> QED  BY <4>3, <4>4, <4>5, <4>6, <4>7, <4>8, <4>9 DEF IInv
    <3>2. CASE ~(sdk = "idle" /\ alive)
      <4>1. Advances(c, "rejected")
        BY <2>4, <3>2, CommandGoes DEF PromptCalls, Stages
      <4>2. /\ cmds[c].kind \in Prompts /\ cmds[c].stage = "snapshot"
            /\ UNCHANGED <<alive, inner, runActive, stopping, ends, bash, authPending, pendingResume, cancelled, preparing, sdk, owner, turns, stopAsked, masked>>
        BY <2>4, <3>2 DEF PromptCalls, At, wrapper, resume, history
      <4>3. TypeOK'
        BY <4>1, <4>2, NoCommandZero DEF TypeOK, Command, Advances
      <4>4. Admitted'
        BY <4>1, <4>2, NoCommandZero DEF Admitted, TypeOK, Command, Resumes, Owned, Marked, Prompts, Kinds, Advances
      <4>5. Owned'
        BY <4>1, <4>2, NoCommandZero DEF Owned, TypeOK, Command, Resumes, Admitted, Prompts, Advances
      <4>6. Marked'
        BY <4>1, <4>2, NoCommandZero DEF Marked, TypeOK, Command, Resumes, AdmissionIsHeld, Owned, Advances
      <4>7. AdmissionIsHeld'
        BY <4>1, <4>2, NoCommandZero DEF AdmissionIsHeld, TypeOK, Command, Resumes, Prompts, Waiting, Stages, Owned, Advances
      <4>8. RunIsShown'
        BY <4>1, <4>2, NoCommandZero DEF RunIsShown, TypeOK, Advances
      <4>9. StopIsHonoured'
        BY <4>1, <4>2, NoCommandZero DEF StopIsHonoured, TypeOK, Owned, Marked, RunIsShown, Advances
      <4> QED  BY <4>3, <4>4, <4>5, <4>6, <4>7, <4>8, <4>9 DEF IInv
    <3> QED  BY <3>1, <3>2
  <2>5. ASSUME NEW c \in Cmd, Aborted(c)  PROVE IInv'
    <3>1. CASE ~cancelled[c] /\ alive /\ inner = cmds[c].session /\ Quiet(c)
      <4>1. Advances(c, "snapshot")
        BY <2>5, <3>1, CommandGoes DEF Aborted, Stages
      <4>2. /\ cmds[c].kind = "restart" /\ cmds[c].stage = "aborting"
            /\ UNCHANGED <<alive, inner, runActive, stopping, ends, bash, authPending, pendingResume, cancelled, preparing, sdk, owner, turns, stopAsked, masked>>
        BY <2>5, <3>1 DEF Aborted, At, wrapper, engine, history
      <4>3. TypeOK'
        BY <4>1, <4>2, NoCommandZero DEF TypeOK, Command, Advances
      <4>4. Admitted'
        BY <4>1, <4>2, NoCommandZero DEF Admitted, TypeOK, Command, Resumes, Owned, Marked, Prompts, Kinds, Advances
      <4>5. Owned'
        BY <4>1, <4>2, NoCommandZero DEF Owned, TypeOK, Command, Resumes, Admitted, Prompts, Advances
      <4>6. Marked'
        BY <4>1, <4>2, NoCommandZero DEF Marked, TypeOK, Command, Resumes, AdmissionIsHeld, Owned, Advances
      <4>7. AdmissionIsHeld'
        BY <4>1, <4>2, NoCommandZero DEF AdmissionIsHeld, TypeOK, Command, Resumes, Prompts, Waiting, Stages, Owned, Advances
      <4>8. RunIsShown'
        BY <4>1, <4>2, NoCommandZero DEF RunIsShown, TypeOK, Advances
      <4>9. StopIsHonoured'
        BY <4>1, <4>2, NoCommandZero DEF StopIsHonoured, TypeOK, Owned, Marked, RunIsShown, Advances
      <4> QED  BY <4>3, <4>4, <4>5, <4>6, <4>7, <4>8, <4>9 DEF IInv
    <3>2. CASE ~(~cancelled[c] /\ alive /\ inner = cmds[c].session /\ Quiet(c))
      <4>1. Advances(c, "done")
        BY <2>5, <3>2, CommandOver DEF Aborted, Stages
      <4>2. /\ cmds[c].kind = "restart" /\ cmds[c].stage = "aborting"
            /\ GivenUp(c)
            /\ UNCHANGED <<alive, inner, runActive, stopping, ends, bash, authPending, cancelled, preparing, sdk, owner, turns, stopAsked, masked>>
        BY <2>5, <3>2 DEF Aborted, At, wrapper, engine, history
      <4>3. pendingResume' \in {0} \cup Cmd
        BY <4>2, RunsAssumption DEF TypeOK, RunsAssumption, GivenUp, StoppingFromStart
      <4>4. TypeOK'
        BY <4>1, <4>2, <4>3, NoCommandZero DEF TypeOK, Command, GivenUp, Advances
      <4>5. Admitted'
        BY <4>1, <4>2, NoCommandZero DEF Admitted, TypeOK, Command, Resumes, Owned, Marked, Prompts, Kinds, GivenUp, Advances
      <4>6. Owned'
        BY ZenonT(60), <4>1, <4>2, NoCommandZero DEF Owned, TypeOK, Command, Resumes, Admitted, Prompts, GivenUp, Advances
      <4>7. Marked'
        BY <4>1, <4>2, NoCommandZero DEF Marked, TypeOK, Command, Resumes, AdmissionIsHeld, Owned, GivenUp, Advances
      <4>8. AdmissionIsHeld'
        BY <4>1, <4>2, NoCommandZero DEF AdmissionIsHeld, TypeOK, Command, Resumes, Prompts, Waiting, Stages, Owned, GivenUp, Advances
      <4>9. RunIsShown'
        BY <4>1, <4>2, NoCommandZero DEF RunIsShown, TypeOK, GivenUp, Advances
      <4>10. StopIsHonoured'
        BY <4>1, <4>2, NoCommandZero DEF StopIsHonoured, TypeOK, Owned, Marked, RunIsShown, GivenUp, Advances
      <4> QED  BY <4>4, <4>5, <4>6, <4>7, <4>8, <4>9, <4>10 DEF IInv
    <3> QED  BY <3>1, <3>2
  <2>6. ASSUME NEW c \in Cmd, AbortRejected(c)  PROVE IInv'
    <3>1. Advances(c, "done")
      BY <2>6, CommandOver DEF AbortRejected, Stages
    <3>2. /\ cmds[c].kind = "restart" /\ cmds[c].stage = "aborting"
          /\ GivenUp(c)
          /\ stopping' = (stopping /\ ~SameRun(c))
          /\ stopAsked' = [d \in Cmd |-> stopAsked[d] /\ ~(d = owner /\ SameRun(c))]
          /\ UNCHANGED <<alive, inner, runActive, ends, bash, authPending, cancelled, preparing, sdk, owner, turns, masked>>
      BY <2>6 DEF AbortRejected, At, engine
    <3>3. pendingResume' \in {0} \cup Cmd
      BY <3>2, RunsAssumption DEF TypeOK, RunsAssumption, GivenUp, StoppingFromStart
    <3>4. TypeOK'
      BY <3>1, <3>2, <3>3, NoCommandZero DEF TypeOK, Command, GivenUp, SameRun, Advances
    <3>5. Admitted'
      BY <3>1, <3>2, NoCommandZero DEF Admitted, TypeOK, Command, Resumes, Owned, Marked, Prompts, Kinds, GivenUp, SameRun, Advances
    <3>6. Owned'
      BY <3>1, <3>2, NoCommandZero DEF Owned, TypeOK, Command, Resumes, Admitted, Prompts, GivenUp, SameRun, Advances
    <3>7. Marked'
      BY <3>1, <3>2, NoCommandZero DEF Marked, TypeOK, Command, Resumes, AdmissionIsHeld, Owned, GivenUp, SameRun, Advances
    <3>8. AdmissionIsHeld'
      BY <3>1, <3>2, NoCommandZero DEF AdmissionIsHeld, TypeOK, Command, Resumes, Prompts, Waiting, Stages, Owned, GivenUp, SameRun, Advances
    <3>9. RunIsShown'
      BY <3>1, <3>2, NoCommandZero DEF RunIsShown, TypeOK, GivenUp, SameRun, Advances
    <3>10. StopIsHonoured'
      BY <3>1, <3>2, NoCommandZero DEF StopIsHonoured, TypeOK, Owned, Marked, RunIsShown, GivenUp, SameRun, Advances
    <3> QED  BY <3>4, <3>5, <3>6, <3>7, <3>8, <3>9, <3>10 DEF IInv
  <2>7. ASSUME NEW c \in Cmd, ResumeCalls(c)  PROVE IInv'
    <3>1. CASE StillWanted(c)
      <4>1. Advances(c, "sdk")
        BY <2>7, <3>1, CommandGoes DEF ResumeCalls, Stages
      <4>2. /\ cmds[c].kind \in Resumes /\ cmds[c].stage = "snapshot"
            /\ alive /\ sdk = "idle" /\ ~cancelled[c]
            /\ preparing' = [preparing EXCEPT ![c] = TRUE]
            /\ sdk' = "preparing" /\ owner' = c
            /\ UNCHANGED <<alive, inner, runActive, stopping, ends, bash, authPending, pendingResume, cancelled, turns, stopAsked, masked>>
        BY <2>7, <3>1 DEF ResumeCalls, At, wrapper, history, StillWanted
      <4>3. TypeOK'
        BY <4>1, <4>2, NoCommandZero DEF TypeOK, Command, Advances
      <4>4. Admitted'
        BY <4>1, <4>2, NoCommandZero DEF Admitted, TypeOK, Command, Resumes, Owned, Marked, Prompts, Kinds, Advances
      <4>5. Owned'
        BY <4>1, <4>2, NoCommandZero DEF Owned, TypeOK, Command, Resumes, Admitted, Prompts, Advances
      <4>6. Marked'
        BY <4>1, <4>2, NoCommandZero DEF Marked, TypeOK, Command, Resumes, AdmissionIsHeld, Owned, Advances
      <4>7. AdmissionIsHeld'
        BY <4>1, <4>2, NoCommandZero DEF AdmissionIsHeld, TypeOK, Command, Resumes, Prompts, Waiting, Stages, Owned, Advances
      <4>8. RunIsShown'
        BY <4>1, <4>2, NoCommandZero DEF RunIsShown, TypeOK, Advances
      <4>9. StopIsHonoured'
        BY <4>1, <4>2, NoCommandZero DEF StopIsHonoured, TypeOK, Owned, Marked, RunIsShown, Advances
      <4> QED  BY <4>3, <4>4, <4>5, <4>6, <4>7, <4>8, <4>9 DEF IInv
    <3>2. CASE ~StillWanted(c)
      <4>1. Advances(c, "done")
        BY <2>7, <3>2, CommandOver DEF ResumeCalls, Stages
      <4>2. /\ cmds[c].kind \in Resumes /\ cmds[c].stage = "snapshot"
            /\ GivenUp(c)
            /\ UNCHANGED <<alive, inner, runActive, stopping, ends, bash, authPending, cancelled, preparing, sdk, owner, turns, stopAsked, masked>>
        BY <2>7, <3>2 DEF ResumeCalls, At, wrapper, history, StillWanted
      <4>3. pendingResume' \in {0} \cup Cmd
        BY <4>2, RunsAssumption DEF TypeOK, RunsAssumption, GivenUp, StoppingFromStart
      <4>4. TypeOK'
        BY <4>1, <4>2, <4>3, NoCommandZero DEF TypeOK, Command, GivenUp, Advances
      <4>5. Admitted'
        BY <4>1, <4>2, NoCommandZero DEF Admitted, TypeOK, Command, Resumes, Owned, Marked, Prompts, Kinds, GivenUp, Advances
      <4>6. Owned'
        BY <4>1, <4>2, NoCommandZero DEF Owned, TypeOK, Command, Resumes, Admitted, Prompts, GivenUp, Advances
      <4>7. Marked'
        BY <4>1, <4>2, NoCommandZero DEF Marked, TypeOK, Command, Resumes, AdmissionIsHeld, Owned, GivenUp, Advances
      <4>8. AdmissionIsHeld'
        BY <4>1, <4>2, NoCommandZero DEF AdmissionIsHeld, TypeOK, Command, Resumes, Prompts, Waiting, Stages, Owned, GivenUp, Advances
      <4>9. RunIsShown'
        BY <4>1, <4>2, NoCommandZero DEF RunIsShown, TypeOK, GivenUp, Advances
      <4>10. StopIsHonoured'
        BY <4>1, <4>2, NoCommandZero DEF StopIsHonoured, TypeOK, Owned, Marked, RunIsShown, GivenUp, Advances
      <4> QED  BY <4>4, <4>5, <4>6, <4>7, <4>8, <4>9, <4>10 DEF IInv
    <3> QED  BY <3>1, <3>2
  <2>8. ASSUME NEW c \in Cmd, Settled(c)  PROVE IInv'
    <3>1. Advances(c, "done")
      BY <2>8, CommandOver DEF Settled, Stages
    <3>2. /\ cmds[c].stage = "resolved"
          /\ IF cmds[c].kind \in Resumes THEN GivenUp(c) ELSE UNCHANGED pendingResume
          /\ UNCHANGED <<alive, inner, runActive, stopping, ends, bash, authPending, cancelled, preparing, sdk, owner, turns, stopAsked, masked>>
      BY <2>8 DEF Settled, wrapper, engine, history
    <3>3. pendingResume' \in {0} \cup Cmd
      BY <3>2, RunsAssumption DEF TypeOK, RunsAssumption, GivenUp, StoppingFromStart
    <3>4. TypeOK'
      BY <3>1, <3>2, <3>3, NoCommandZero DEF TypeOK, Command, GivenUp, Advances
    <3>5. Admitted'
      BY <3>1, <3>2, NoCommandZero DEF Admitted, TypeOK, Command, Resumes, Owned, Marked, Prompts, Kinds, GivenUp, Advances
    <3>6. Owned'
      BY <3>1, <3>2, NoCommandZero DEF Owned, TypeOK, Command, Resumes, Admitted, Prompts, GivenUp, Advances
    <3>7. Marked'
      BY <3>1, <3>2, NoCommandZero DEF Marked, TypeOK, Command, Resumes, AdmissionIsHeld, Owned, GivenUp, Advances
    <3>8. AdmissionIsHeld'
      BY <3>1, <3>2, NoCommandZero DEF AdmissionIsHeld, TypeOK, Command, Resumes, Prompts, Waiting, Stages, Owned, GivenUp, Advances
    <3>9. RunIsShown'
      BY <3>1, <3>2, NoCommandZero DEF RunIsShown, TypeOK, GivenUp, Advances
    <3>10. StopIsHonoured'
      BY <3>1, <3>2, NoCommandZero DEF StopIsHonoured, TypeOK, Owned, Marked, RunIsShown, GivenUp, Advances
    <3> QED  BY <3>4, <3>5, <3>6, <3>7, <3>8, <3>9, <3>10 DEF IInv
  <2>9. ASSUME NEW c \in Cmd, Rejected(c)  PROVE IInv'
    <3>1. CASE ShowsItsEnd(c)
      <4>1. Advances(c, "done")
        BY <2>9, <3>1, CommandOver DEF Rejected, Stages
      <4>2. /\ cmds[c].stage = "rejected"
            /\ IF cmds[c].kind \in Resumes THEN GivenUp(c) ELSE UNCHANGED pendingResume
            /\ runActive' = FALSE /\ stopping' = FALSE /\ ends' = ends + 1
            /\ masked' = (masked \/ sdk = "running")
            /\ UNCHANGED <<alive, inner, bash, authPending, cancelled, preparing, sdk, owner, turns, stopAsked>>
        BY <2>9, <3>1 DEF Rejected, ShowEnd, engine
      <4>3. ends' \in Nat /\ pendingResume' \in {0} \cup Cmd
        BY <4>2, RunsAssumption DEF TypeOK, RunsAssumption, GivenUp, StoppingFromStart
      <4>4. TypeOK'
        BY <4>1, <4>2, <4>3, NoCommandZero DEF TypeOK, Command, GivenUp, Advances
      <4>5. Admitted'
        BY <4>1, <4>2, NoCommandZero DEF Admitted, TypeOK, Command, Resumes, Owned, Marked, Prompts, Kinds, GivenUp, Advances
      <4>6. Owned'
        BY <4>1, <4>2, NoCommandZero DEF Owned, TypeOK, Command, Resumes, Admitted, Prompts, GivenUp, Advances
      <4>7. Marked'
        BY <4>1, <4>2, NoCommandZero DEF Marked, TypeOK, Command, Resumes, AdmissionIsHeld, Owned, GivenUp, Advances
      <4>8. AdmissionIsHeld'
        BY <4>1, <4>2, NoCommandZero DEF AdmissionIsHeld, TypeOK, Command, Resumes, Prompts, Waiting, Stages, Owned, GivenUp, Advances
      <4>9. RunIsShown'
        BY <4>1, <4>2, NoCommandZero DEF RunIsShown, TypeOK, GivenUp, Advances
      <4>10. StopIsHonoured'
        BY <4>1, <4>2, NoCommandZero DEF StopIsHonoured, TypeOK, Owned, Marked, RunIsShown, GivenUp, Advances
      <4> QED  BY <4>4, <4>5, <4>6, <4>7, <4>8, <4>9, <4>10 DEF IInv
    <3>2. CASE ~ShowsItsEnd(c)
      <4>1. Advances(c, "done")
        BY <2>9, <3>2, CommandOver DEF Rejected, Stages
      <4>2. /\ cmds[c].stage = "rejected"
            /\ IF cmds[c].kind \in Resumes THEN GivenUp(c) ELSE UNCHANGED pendingResume
            /\ UNCHANGED <<alive, inner, runActive, stopping, ends, bash, authPending, cancelled, preparing, sdk, owner, turns, stopAsked, masked>>
        BY <2>9, <3>2 DEF Rejected, ShowEnd, engine
      <4>3. pendingResume' \in {0} \cup Cmd
        BY <4>2, RunsAssumption DEF TypeOK, RunsAssumption, GivenUp, StoppingFromStart
      <4>4. TypeOK'
        BY <4>1, <4>2, <4>3, NoCommandZero DEF TypeOK, Command, GivenUp, Advances
      <4>5. Admitted'
        BY <4>1, <4>2, NoCommandZero DEF Admitted, TypeOK, Command, Resumes, Owned, Marked, Prompts, Kinds, GivenUp, Advances
      <4>6. Owned'
        BY <4>1, <4>2, NoCommandZero DEF Owned, TypeOK, Command, Resumes, Admitted, Prompts, GivenUp, Advances
      <4>7. Marked'
        BY <4>1, <4>2, NoCommandZero DEF Marked, TypeOK, Command, Resumes, AdmissionIsHeld, Owned, GivenUp, Advances
      <4>8. AdmissionIsHeld'
        BY <4>1, <4>2, NoCommandZero DEF AdmissionIsHeld, TypeOK, Command, Resumes, Prompts, Waiting, Stages, Owned, GivenUp, Advances
      <4>9. RunIsShown'
        BY <4>1, <4>2, NoCommandZero DEF RunIsShown, TypeOK, GivenUp, Advances
      <4>10. StopIsHonoured'
        BY <4>1, <4>2, NoCommandZero DEF StopIsHonoured, TypeOK, Owned, Marked, RunIsShown, GivenUp, Advances
      <4> QED  BY <4>4, <4>5, <4>6, <4>7, <4>8, <4>9, <4>10 DEF IInv
    <3> QED  BY <3>1, <3>2
  <2>10. CASE Abort
    <3>1. /\ alive
          /\ cancelled' = [c \in Cmd |-> cancelled[c] \/ c = pendingResume]
          /\ stopping' = (stopping \/ runActive)
          /\ stopAsked' = [c \in Cmd |->
               \/ stopAsked[c]
               \/ cmds[c].kind \in Resumes /\ c \in {pendingResume, owner}]
          /\ UNCHANGED <<cmds, alive, inner, runActive, ends, bash, authPending, pendingResume, preparing, sdk, owner, turns, masked>>
      BY <2>10 DEF Abort, engine
    <3>2. TypeOK'
      BY <3>1, NoCommandZero DEF TypeOK, Command
    <3>3. Admitted'
      BY <3>1, NoCommandZero DEF Admitted, TypeOK, Command, Resumes, Owned, Marked, Prompts, Kinds
    <3>4. Owned'
      BY <3>1, NoCommandZero DEF Owned, TypeOK, Command, Resumes, Admitted, Prompts
    <3>5. Marked'
      BY <3>1, NoCommandZero DEF Marked, TypeOK, Command, Resumes, AdmissionIsHeld, Owned
    <3>6. AdmissionIsHeld'
      BY <3>1, NoCommandZero DEF AdmissionIsHeld, TypeOK, Command, Resumes, Prompts, Waiting, Stages, Owned
    <3>7. RunIsShown'
      BY <3>1, NoCommandZero DEF RunIsShown, TypeOK
    <3>8. StopIsHonoured'
      BY <3>1, NoCommandZero DEF StopIsHonoured, TypeOK, Owned, Marked, RunIsShown
    <3> QED  BY <3>2, <3>3, <3>4, <3>5, <3>6, <3>7, <3>8 DEF IInv
  <2>11. CASE AgentStarts
    <3>1. /\ sdk = "preparing" /\ sdk' = "running" /\ turns' = turns + 1
          /\ runActive' = TRUE /\ masked' = FALSE
          /\ stopping' = StoppingFromStart
          /\ pendingResume' = IF pendingResume # 0 /\ preparing[pendingResume] THEN 0
                            ELSE pendingResume
          /\ UNCHANGED <<cmds, alive, inner, ends, bash, authPending, cancelled, preparing, owner, stopAsked>>
      BY <2>11 DEF AgentStarts
    <3>2. turns' \in Nat /\ stopping' \in BOOLEAN /\ pendingResume' \in {0} \cup Cmd
      BY <3>1, RunsAssumption DEF TypeOK, RunsAssumption, GivenUp, StoppingFromStart
    <3>3. TypeOK'
      BY <3>1, <3>2, NoCommandZero DEF TypeOK, Command, StoppingFromStart
    <3>4. Admitted'
      BY <3>1, NoCommandZero DEF Admitted, TypeOK, Command, Resumes, Owned, Marked, Prompts, Kinds, StoppingFromStart
    <3>5. Owned'
      BY <3>1, NoCommandZero DEF Owned, TypeOK, Command, Resumes, Admitted, Prompts, StoppingFromStart
    <3>6. Marked'
      BY <3>1, NoCommandZero DEF Marked, TypeOK, Command, Resumes, AdmissionIsHeld, Owned, StoppingFromStart
    <3>7. AdmissionIsHeld'
      BY <3>1, NoCommandZero DEF AdmissionIsHeld, TypeOK, Command, Resumes, Prompts, Waiting, Stages, Owned, StoppingFromStart
    <3>8. RunIsShown'
      BY <3>1, NoCommandZero DEF RunIsShown, TypeOK, StoppingFromStart
    <3>9. StopIsHonoured'
      BY <3>1, NoCommandZero DEF StopIsHonoured, TypeOK, Owned, Marked, RunIsShown, StoppingFromStart
    <3> QED  BY <3>3, <3>4, <3>5, <3>6, <3>7, <3>8, <3>9 DEF IInv
  <2>12. CASE AgentEnds
    <3>1. Settles("resolved")
      BY <2>12, CommandsSettle DEF AgentEnds, Stages
    <3>2. /\ sdk = "running" /\ sdk' = "idle" /\ owner' = 0
          /\ runActive' = FALSE /\ stopping' = FALSE /\ ends' = ends + 1 /\ masked' = FALSE
          /\ UNCHANGED <<alive, inner, bash, authPending, pendingResume, cancelled, preparing, turns, stopAsked>>
      BY <2>12 DEF AgentEnds, ShowEnd, resume
    <3>3. ends' \in Nat
      BY <3>2, RunsAssumption DEF TypeOK, RunsAssumption, GivenUp, StoppingFromStart
    <3>4. TypeOK'
      BY <3>1, <3>2, <3>3, NoCommandZero DEF TypeOK, Command, Settles
    <3>5. Admitted'
      BY <3>1, <3>2, NoCommandZero DEF Admitted, TypeOK, Command, Resumes, Owned, Marked, Prompts, Kinds, Settles
    <3>6. Owned'
      BY <3>1, <3>2, NoCommandZero DEF Owned, TypeOK, Command, Resumes, Admitted, Prompts, Settles
    <3>7. Marked'
      BY <3>1, <3>2, NoCommandZero DEF Marked, TypeOK, Command, Resumes, AdmissionIsHeld, Owned, Settles
    <3>8. AdmissionIsHeld'
      BY <3>1, <3>2, NoCommandZero DEF AdmissionIsHeld, TypeOK, Command, Resumes, Prompts, Waiting, Stages, Owned, Settles
    <3>9. RunIsShown'
      BY <3>1, <3>2, NoCommandZero DEF RunIsShown, TypeOK, Settles
    <3>10. StopIsHonoured'
      BY <3>1, <3>2, NoCommandZero DEF StopIsHonoured, TypeOK, Owned, Marked, RunIsShown, Settles
    <3> QED  BY <3>4, <3>5, <3>6, <3>7, <3>8, <3>9, <3>10 DEF IInv
  <2>13. CASE ExtensionRuns
    <3>1. /\ sdk = "idle" /\ sdk' = "preparing" /\ owner' = 0
          /\ UNCHANGED <<cmds, alive, inner, runActive, stopping, ends, bash, authPending, pendingResume, cancelled, preparing, turns, stopAsked, masked>>
      BY <2>13 DEF ExtensionRuns, wrapper, resume, history
    <3>2. TypeOK'
      BY <3>1, NoCommandZero DEF TypeOK, Command
    <3>3. Admitted'
      BY <3>1, NoCommandZero DEF Admitted, TypeOK, Command, Resumes, Owned, Marked, Prompts, Kinds
    <3>4. Owned'
      BY <3>1, NoCommandZero DEF Owned, TypeOK, Command, Resumes, Admitted, Prompts
    <3>5. Marked'
      BY <3>1, NoCommandZero DEF Marked, TypeOK, Command, Resumes, AdmissionIsHeld, Owned
    <3>6. AdmissionIsHeld'
      BY <3>1, NoCommandZero DEF AdmissionIsHeld, TypeOK, Command, Resumes, Prompts, Waiting, Stages, Owned
    <3>7. RunIsShown'
      BY <3>1, NoCommandZero DEF RunIsShown, TypeOK
    <3>8. StopIsHonoured'
      BY <3>1, NoCommandZero DEF StopIsHonoured, TypeOK, Owned, Marked, RunIsShown
    <3> QED  BY <3>2, <3>3, <3>4, <3>5, <3>6, <3>7, <3>8 DEF IInv
  <2>14. ASSUME NEW s \in Stages, SetupEnds(s)  PROVE IInv'
    <3>1. Settles(s)
      BY <2>14, CommandsSettle DEF SetupEnds, Stages
    <3>2. /\ s \in {"resolved", "rejected"}
          /\ sdk = "preparing" /\ sdk' = "idle" /\ owner' = 0
          /\ UNCHANGED <<alive, inner, runActive, stopping, ends, bash, authPending, pendingResume, cancelled, preparing, turns, stopAsked, masked>>
      BY <2>14 DEF SetupEnds, wrapper, resume, history
    <3>3. TypeOK'
      BY <3>1, <3>2, NoCommandZero DEF TypeOK, Command, Settles
    <3>4. Admitted'
      BY <3>1, <3>2, NoCommandZero DEF Admitted, TypeOK, Command, Resumes, Owned, Marked, Prompts, Kinds, Settles
    <3>5. Owned'
      BY <3>1, <3>2, NoCommandZero DEF Owned, TypeOK, Command, Resumes, Admitted, Prompts, Settles
    <3>6. Marked'
      BY <3>1, <3>2, NoCommandZero DEF Marked, TypeOK, Command, Resumes, AdmissionIsHeld, Owned, Settles
    <3>7. AdmissionIsHeld'
      BY <3>1, <3>2, NoCommandZero DEF AdmissionIsHeld, TypeOK, Command, Resumes, Prompts, Waiting, Stages, Owned, Settles
    <3>8. RunIsShown'
      BY <3>1, <3>2, NoCommandZero DEF RunIsShown, TypeOK, Settles
    <3>9. StopIsHonoured'
      BY <3>1, <3>2, NoCommandZero DEF StopIsHonoured, TypeOK, Owned, Marked, RunIsShown, Settles
    <3> QED  BY <3>3, <3>4, <3>5, <3>6, <3>7, <3>8, <3>9 DEF IInv
  <2>15. CASE BashStarts
    <3>1. /\ bash' = TRUE
          /\ UNCHANGED <<cmds, alive, inner, runActive, stopping, ends, authPending, pendingResume, cancelled, preparing, sdk, owner, turns, stopAsked, masked>>
      BY <2>15 DEF BashStarts, resume, engine, history
    <3>2. TypeOK'
      BY <3>1, NoCommandZero DEF TypeOK, Command
    <3>3. Admitted'
      BY <3>1, NoCommandZero DEF Admitted, TypeOK, Command, Resumes, Owned, Marked, Prompts, Kinds
    <3>4. Owned'
      BY <3>1, NoCommandZero DEF Owned, TypeOK, Command, Resumes, Admitted, Prompts
    <3>5. Marked'
      BY <3>1, NoCommandZero DEF Marked, TypeOK, Command, Resumes, AdmissionIsHeld, Owned
    <3>6. AdmissionIsHeld'
      BY <3>1, NoCommandZero DEF AdmissionIsHeld, TypeOK, Command, Resumes, Prompts, Waiting, Stages, Owned
    <3>7. RunIsShown'
      BY <3>1, NoCommandZero DEF RunIsShown, TypeOK
    <3>8. StopIsHonoured'
      BY <3>1, NoCommandZero DEF StopIsHonoured, TypeOK, Owned, Marked, RunIsShown
    <3> QED  BY <3>2, <3>3, <3>4, <3>5, <3>6, <3>7, <3>8 DEF IInv
  <2>16. CASE BashEnds
    <3>1. CASE alive /\ authPending /\ CanRestartForAuth(FALSE)
      BY <2>16, <3>1, DestroyKeeps DEF BashEnds, resume, engine, history, TypeOK
    <3>2. CASE ~(alive /\ authPending /\ CanRestartForAuth(FALSE))
      <4>1. /\ bash' = FALSE
            /\ UNCHANGED <<cmds, alive, inner, runActive, stopping, ends, authPending, pendingResume, cancelled, preparing, sdk, owner, turns, stopAsked, masked>>
        BY <2>16, <3>2 DEF BashEnds, resume, engine, history
      <4>2. TypeOK'
        BY <4>1, NoCommandZero DEF TypeOK, Command
      <4>3. Admitted'
        BY <4>1, NoCommandZero DEF Admitted, TypeOK, Command, Resumes, Owned, Marked, Prompts, Kinds
      <4>4. Owned'
        BY <4>1, NoCommandZero DEF Owned, TypeOK, Command, Resumes, Admitted, Prompts
      <4>5. Marked'
        BY <4>1, NoCommandZero DEF Marked, TypeOK, Command, Resumes, AdmissionIsHeld, Owned
      <4>6. AdmissionIsHeld'
        BY <4>1, NoCommandZero DEF AdmissionIsHeld, TypeOK, Command, Resumes, Prompts, Waiting, Stages, Owned
      <4>7. RunIsShown'
        BY <4>1, NoCommandZero DEF RunIsShown, TypeOK
      <4>8. StopIsHonoured'
        BY <4>1, NoCommandZero DEF StopIsHonoured, TypeOK, Owned, Marked, RunIsShown
      <4> QED  BY <4>2, <4>3, <4>4, <4>5, <4>6, <4>7, <4>8 DEF IInv
    <3> QED  BY <3>1, <3>2
  <2>17. CASE AuthChanges
    <3>1. CASE CanRestartForAuth(bash)
      BY <2>17, <3>1, DestroyKeeps DEF AuthChanges, resume, engine, history, TypeOK
    <3>2. CASE ~CanRestartForAuth(bash)
      <4>1. /\ authPending' = TRUE
            /\ UNCHANGED <<cmds, alive, inner, runActive, stopping, ends, bash, pendingResume, cancelled, preparing, sdk, owner, turns, stopAsked, masked>>
        BY <2>17, <3>2 DEF AuthChanges, resume, engine, history
      <4>2. TypeOK'
        BY <4>1, NoCommandZero DEF TypeOK, Command
      <4>3. Admitted'
        BY <4>1, NoCommandZero DEF Admitted, TypeOK, Command, Resumes, Owned, Marked, Prompts, Kinds
      <4>4. Owned'
        BY <4>1, NoCommandZero DEF Owned, TypeOK, Command, Resumes, Admitted, Prompts
      <4>5. Marked'
        BY <4>1, NoCommandZero DEF Marked, TypeOK, Command, Resumes, AdmissionIsHeld, Owned
      <4>6. AdmissionIsHeld'
        BY <4>1, NoCommandZero DEF AdmissionIsHeld, TypeOK, Command, Resumes, Prompts, Waiting, Stages, Owned
      <4>7. RunIsShown'
        BY <4>1, NoCommandZero DEF RunIsShown, TypeOK
      <4>8. StopIsHonoured'
        BY <4>1, NoCommandZero DEF StopIsHonoured, TypeOK, Owned, Marked, RunIsShown
      <4> QED  BY <4>2, <4>3, <4>4, <4>5, <4>6, <4>7, <4>8 DEF IInv
    <3> QED  BY <3>1, <3>2
  <2>18. CASE AuthRestarts
    BY <2>18, DestroyKeeps DEF AuthRestarts, TypeOK
  <2>19. CASE IdleFires
    BY <2>19, DestroyKeeps DEF IdleFires, TypeOK
  <2>20. CASE Closes
    BY <2>20, DestroyKeeps DEF Closes, TypeOK
  <2>21. CASE Replaced
    <3>1. Settles("rejected")
      BY <2>21, CommandsSettle DEF Replaced, Disposed, Stages
    <3>2. /\ alive /\ inner < MaxInner /\ inner' = inner + 1
          /\ runActive' = FALSE /\ stopping' = FALSE /\ masked' = FALSE
          /\ sdk' = "idle" /\ owner' = 0
          /\ UNCHANGED <<alive, ends, bash, authPending, pendingResume, cancelled, preparing, turns, stopAsked>>
      BY <2>21 DEF Replaced, Disposed, resume
    <3>3. inner' \in 1..MaxInner
      BY <3>2, RunsAssumption DEF TypeOK, RunsAssumption, GivenUp, StoppingFromStart
    <3>4. TypeOK'
      BY <3>1, <3>2, <3>3, NoCommandZero DEF TypeOK, Command, Settles
    <3>5. Admitted'
      BY <3>1, <3>2, NoCommandZero DEF Admitted, TypeOK, Command, Resumes, Owned, Marked, Prompts, Kinds, Settles
    <3>6. Owned'
      BY <3>1, <3>2, NoCommandZero DEF Owned, TypeOK, Command, Resumes, Admitted, Prompts, Settles
    <3>7. Marked'
      BY <3>1, <3>2, NoCommandZero DEF Marked, TypeOK, Command, Resumes, AdmissionIsHeld, Owned, Settles
    <3>8. AdmissionIsHeld'
      BY <3>1, <3>2, NoCommandZero DEF AdmissionIsHeld, TypeOK, Command, Resumes, Prompts, Waiting, Stages, Owned, Settles
    <3>9. RunIsShown'
      BY <3>1, <3>2, NoCommandZero DEF RunIsShown, TypeOK, Settles
    <3>10. StopIsHonoured'
      BY <3>1, <3>2, NoCommandZero DEF StopIsHonoured, TypeOK, Owned, Marked, RunIsShown, Settles
    <3> QED  BY <3>4, <3>5, <3>6, <3>7, <3>8, <3>9, <3>10 DEF IInv
  <2>22. CASE UNCHANGED vars
    BY <2>22 DEF vars, wrapper, resume, engine, history, TypeOK, Admitted, Owned,
                Marked, AdmissionIsHeld, RunIsShown, StopIsHonoured, SameRun
  <2> HIDE DEF IInv
  <2> QED  BY <2>1, <2>2, <2>3, <2>4, <2>5, <2>6, <2>7, <2>8, <2>9, <2>10, <2>11, <2>12, <2>13, <2>14, <2>15, <2>16, <2>17, <2>18, <2>19, <2>20, <2>21, <2>22 DEF Next
<1> QED  BY <1>1, <1>2, PTL DEF Spec

\* Every variable keeps its type.
THEOREM TypesHold == ASSUME RunsAssumption PROVE Spec => []TypeOK
<1>1. IInv => TypeOK
  BY DEF IInv
<1> QED  BY <1>1, IInvHolds, PTL

\* The admission of prompts is never lost: whoever holds it is a resume that is
\* still under way, however it is aborted, disposed of or replaced.
THEOREM AdmissionIsNeverLost == ASSUME RunsAssumption PROVE Spec => []AdmissionIsHeld
<1>1. IInv => AdmissionIsHeld
  BY DEF IInv
<1> QED  BY <1>1, IInvHolds, PTL

\* The wrapper shows a run as long as the SDK streams one, and no longer.
THEOREM ShownRunsAreRunning == ASSUME RunsAssumption PROVE Spec => []RunIsShown
<1>1. IInv => RunIsShown
  BY DEF IInv
<1> QED  BY <1>1, IInvHolds, PTL

\* A stop asked for while a resume holds the admission, or while it runs, is not
\* forgotten.
THEOREM StopsAreHonoured == ASSUME RunsAssumption PROVE Spec => []StopIsHonoured
<1>1. IInv => StopIsHonoured
  BY DEF IInv
<1> QED  BY <1>1, IInvHolds, PTL
==============================================================================
