--------------------------- MODULE ReviewProofs ----------------------------
(* Theorems about Review, for every set of workflows, files and requests    *)
(* and every number of reviewers.                                           *)
EXTENDS Review, SequenceTheorems, TLAPS

\* The placeholder request has the type of a request.
LEMMA IdleType == Idle \in Request /\ Idle.pc = "idle"
<1>1. (CHOOSE w \in Flow : TRUE) \in Flow /\ (CHOOSE f \in File : TRUE) \in File
  BY ReviewConstants
<1>. QED
  BY <1>1, ReviewConstants DEF Idle, Request, Control, Status

\* Appending a step leaves those before it.
LEMMA AppendStep ==
    ASSUME NEW s \in Seq(Decision)
    PROVE  LET t == Append(s, "pending") IN
           /\ t \in Seq(Decision)
           /\ Len(s) \in Nat /\ Len(t) = Len(s) + 1
           /\ DOMAIN s \subseteq DOMAIN t
           /\ \A i \in DOMAIN t : t[i] = IF i \in DOMAIN s THEN s[i] ELSE "pending"
           /\ \E i \in DOMAIN t : t[i] = "pending"
<1>1. "pending" \in Decision
  BY DEF Decision
<1>2. DOMAIN s = 1..Len(s) /\ Len(s) \in Nat
  BY LenProperties
<1> DEFINE t == Append(s, "pending")
<1>3. /\ t \in Seq(Decision) /\ Len(t) = Len(s) + 1
      /\ \A i \in 1..Len(s) : t[i] = s[i]
      /\ t[Len(s) + 1] = "pending"
  BY <1>1, AppendProperties
<1>4. DOMAIN t = 1..(Len(s) + 1)
  BY <1>3, LenProperties
<1> HIDE DEF t
<1>5. \A i \in DOMAIN s : i \in DOMAIN t
  BY <1>2, <1>4
<1>6. Len(s) + 1 \in DOMAIN t
  BY <1>2, <1>4
<1>7. \A i \in DOMAIN t : i \notin DOMAIN s => i = Len(s) + 1
  BY <1>2, <1>4
<1>8. \A i \in DOMAIN t : t[i] = IF i \in DOMAIN s THEN s[i] ELSE "pending"
  BY <1>2, <1>3, <1>7
<1>. QED
  BY <1>2, <1>3, <1>5, <1>6, <1>8 DEF t

\* Writing a decision leaves the number of steps and the other decisions.
LEMMA DecideStep ==
    ASSUME NEW s \in Seq(Decision), NEW i \in DOMAIN s, NEW d \in Verdict
    PROVE  LET t == [s EXCEPT ![i] = d] IN
           /\ t \in Seq(Decision) /\ Len(t) = Len(s) /\ DOMAIN t = DOMAIN s
           /\ t[i] = d /\ \A j \in DOMAIN s \ {i} : t[j] = s[j]
<1>1. d \in Decision
  BY DEF Decision
<1>2. DOMAIN s = 1..Len(s) /\ Len(s) \in Nat
  BY LenProperties
<1>. QED
  BY <1>1, <1>2, ExceptSeq

SomeRejected(w)  == \E i \in DOMAIN steps[w] : steps[w][i] = "rejected"
EveryApproved(w) == DOMAIN steps[w] # {} /\ AllApproved(w)

\* An UPDATE of one status keeps the table's type.
LEMMA StatusStep ==
    ASSUME TypeOK, NEW f \in File, NEW s \in Status,
           file' = file \/ file' = [file EXCEPT ![f].status = s]
    PROVE  file' \in [File -> FileRow]
<1> DEFINE r == [file[f] EXCEPT !.status = s]
<1>1. file[f] \in FileRow
  BY DEF TypeOK
<1>2. r \in FileRow
  BY <1>1 DEF FileRow
<1> HIDE DEF r
<1>3. CASE file' = [file EXCEPT ![f].status = s]
  <2>1. file' = [file EXCEPT ![f] = r]
    BY <1>3 DEF r
  <2>. QED
    BY <1>2, <2>1 DEF TypeOK
<1>. QED
  BY <1>3 DEF TypeOK

\* The first query's answer is kept for the second.
LEMMA RollRejectedReads ==
    ASSUME TypeOK, NEW p \in Proc, RollRejected(p)
    PROVE  \E r \in Request :
              /\ req' = [req EXCEPT ![p] = r]
              /\ r.pc = "roll.approved" /\ r.flow = req[p].flow
              /\ r.rejected <=> SomeRejected(req[p].flow)
<1> DEFINE b == \E i \in DOMAIN steps[req[p].flow] : steps[req[p].flow][i] = "rejected"
           r == [req[p] EXCEPT !.pc = "roll.approved", !.rejected = b]
<1>1. req[p] \in Request
  BY DEF TypeOK
<1>2. b \in BOOLEAN /\ (b <=> SomeRejected(req[p].flow))
  BY DEF SomeRejected
<1>3. req' = [req EXCEPT ![p] = r]
  BY DEF RollRejected
<1> HIDE DEF b
<1>4. /\ r \in Request /\ r.pc = "roll.approved"
      /\ r.flow = req[p].flow /\ r.rejected = b
  BY <1>1, <1>2 DEF Request, Control
<1> HIDE DEF r
<1>. QED
  BY <1>2, <1>3, <1>4

\* The second query leads to an outcome, or to none.
LEMMA RollApprovedReads ==
    ASSUME TypeOK, NEW p \in Proc, RollApproved(p)
    PROVE  LET w == req[p].flow IN \E r \in Request :
              /\ req' = [req EXCEPT ![p] = r]
              /\ \/ r = Idle /\ ~req[p].rejected /\ ~AllApproved(w)
                 \/ /\ r.pc = "roll.flow" /\ r.flow = w
                    /\ \/ r.state = "Rejected" /\ req[p].rejected
                       \/ r.state = "Approved" /\ ~req[p].rejected /\ AllApproved(w)
<1> DEFINE w == req[p].flow
<1>1. req[p] \in Request
  BY DEF TypeOK
<1>2. CASE req[p].rejected
  <2> DEFINE r == [req[p] EXCEPT !.pc = "roll.flow", !.state = "Rejected", !.rejected = FALSE]
  <2>1. req' = [req EXCEPT ![p] = r]
    BY <1>2 DEF RollApproved
  <2>2. r \in Request /\ r.pc = "roll.flow" /\ r.flow = w /\ r.state = "Rejected"
    BY <1>1 DEF Request, Control, Status, Outcome
  <2> HIDE DEF r
  <2>. QED
    BY <1>2, <2>1, <2>2
<1>3. CASE ~req[p].rejected /\ AllApproved(w)
  <2> DEFINE r == [req[p] EXCEPT !.pc = "roll.flow", !.state = "Approved"]
  <2>1. req' = [req EXCEPT ![p] = r]
    BY <1>3 DEF RollApproved
  <2>2. r \in Request /\ r.pc = "roll.flow" /\ r.flow = w /\ r.state = "Approved"
    BY <1>1 DEF Request, Control, Status, Outcome
  <2> HIDE DEF r
  <2>. QED
    BY <1>3, <2>1, <2>2
<1>4. CASE ~req[p].rejected /\ ~AllApproved(w)
  BY <1>4, IdleType DEF RollApproved, Finish
<1>. QED
  BY <1>2, <1>3, <1>4

-----------------------------------------------------------------------------
(* Type correctness.  That no workflow has more steps than its POST named   *)
(* reviewers rests on who still has steps to insert.                        *)

Starts == {"start.step", "start.status"}
Rolls  == {"roll.rejected", "roll.approved", "roll.flow", "roll.file"}

WorksOnMinted ==
    \A p \in Proc : req[p].pc \in Starts \cup Rolls => flow[req[p].flow].state # "none"

NoStepsYet == \A w \in Flow : flow[w].state = "none" => steps[w] = <<>>

StepsFit ==
    \A p \in Proc : At(p, "start.step") =>
        req[p].asked >= 1 /\ Len(steps[req[p].flow]) + req[p].asked <= MaxSteps

OneStarter ==
    \A p, q \in Proc : p # q /\ req[p].pc \in Starts /\ req[q].pc \in Starts =>
        req[p].flow # req[q].flow

\* A roll-up writes nothing but an outcome.
RollsOutcome ==
    \A p \in Proc : req[p].pc \in {"roll.flow", "roll.file"} => req[p].state \in Outcome

TypeInv ==
    TypeOK /\ WorksOnMinted /\ NoStepsYet /\ StepsFit /\ OneStarter /\ RollsOutcome

\* Every step keeps the types, and the number of steps within its bound.
LEMMA TypeStep == TypeInv /\ [Next]_vars => TypeInv'
<1> SUFFICES ASSUME TypeInv, [Next]_vars
             PROVE  TypeInv'
  OBVIOUS
<1> USE ReviewConstants, IdleType DEF TypeInv, At
<1>1. ASSUME NEW p \in Proc, NEW w \in Flow, NEW f \in File, NEW n \in 1..MaxSteps,
             StartFlow(p, w, f, n)
      PROVE  TypeInv'
  <2>1. /\ (file \in [File -> FileRow])' /\ (flow \in [Flow -> FlowRow])'
        /\ (steps \in [Flow -> Seq(Decision)] /\ \A v \in Flow : Len(steps[v]) <= MaxSteps)'
        /\ (disturbed \subseteq Flow /\ patched \subseteq File)'
        /\ WorksOnMinted' /\ NoStepsYet' /\ StepsFit' /\ OneStarter'
        /\ RollsOutcome'
    BY <1>1
       DEF StartFlow, Start, TypeOK, Status, FlowRow, RollsOutcome,
           WorksOnMinted, NoStepsYet, StepsFit, OneStarter
  <2>2. (req \in [Proc -> Request])'
    <3> DEFINE r == [Idle EXCEPT !.pc = "start.step", !.flow = w, !.file = f, !.asked = n]
    <3>1. r \in Request
      <4>1. n \in 0..MaxSteps /\ "start.step" \in Control
        BY DEF Control
      <4>. QED
        BY <4>1 DEF Request
    <3>2. req' = [req EXCEPT ![p] = r]
      BY <1>1 DEF StartFlow, Start
    <3> HIDE DEF r
    <3>. QED
      BY <3>1, <3>2 DEF TypeOK
  <2>. QED
    BY <2>1, <2>2 DEF TypeOK
<1>2. ASSUME NEW p \in Proc, StartStep(p)
      PROVE  TypeInv'
  <2> DEFINE w == req[p].flow
  <2>a. /\ w \in Flow /\ steps[w] \in Seq(Decision)
        /\ req[p] \in Request /\ req[p].asked \in 1..MaxSteps
        /\ Len(steps[w]) + req[p].asked <= MaxSteps
    BY <1>2 DEF StartStep, StepsFit, TypeOK, Request
  <2>b. /\ Append(steps[w], "pending") \in Seq(Decision)
        /\ Len(steps[w]) \in Nat
        /\ Len(Append(steps[w], "pending")) = Len(steps[w]) + 1
    BY <2>a, AppendStep
  <2>c. /\ steps' = [steps EXCEPT ![w] = Append(steps[w], "pending")]
        /\ UNCHANGED <<file, flow, disturbed, patched>>
        /\ At(p, "start.step") /\ HasFlow(w)
    BY <1>2 DEF StartStep
  <2> DEFINE r == [req[p] EXCEPT !.asked = req[p].asked - 1,
                     !.pc = IF req[p].asked = 1 THEN "start.status" ELSE "start.step"]
  <2>d. req' = [req EXCEPT ![p] = r]
    BY <1>2 DEF StartStep
  <2>e. /\ r \in Request /\ r.flow = w /\ r.asked = req[p].asked - 1
        /\ r.pc = IF req[p].asked = 1 THEN "start.status" ELSE "start.step"
    <3>1. req[p].asked - 1 \in 0..MaxSteps
      BY <2>a
    <3>2. (IF req[p].asked = 1 THEN "start.status" ELSE "start.step") \in Control
      BY DEF Control
    <3>. QED
      BY <2>a, <3>1, <3>2 DEF Request
  <2> HIDE DEF r
  <2>1. /\ (file \in [File -> FileRow])' /\ (flow \in [Flow -> FlowRow])'
        /\ (disturbed \subseteq Flow /\ patched \subseteq File)'
        /\ WorksOnMinted' /\ NoStepsYet' /\ OneStarter' /\ RollsOutcome'
    BY <1>2
       DEF StartStep, TypeOK, RollsOutcome, WorksOnMinted, Starts, NoStepsYet,
           OneStarter
  <2>2. /\ (steps \in [Flow -> Seq(Decision)] /\ \A v \in Flow : Len(steps[v]) <= MaxSteps)'
    <3>1. Len(Append(steps[w], "pending")) <= MaxSteps
      BY <2>a, <2>b
    <3>. QED
      BY <2>a, <2>b, <2>c, <3>1 DEF TypeOK
  <2>3. (req \in [Proc -> Request])'
    BY <1>2, <2>d, <2>e DEF TypeOK
  <2>4. StepsFit'
    <3> SUFFICES ASSUME NEW q \in Proc, req'[q].pc = "start.step"
                 PROVE  req'[q].asked >= 1 /\ Len(steps'[req'[q].flow]) + req'[q].asked <= MaxSteps
      BY DEF StepsFit
    <3>1. CASE q = p
      <4>1. req'[q] = r /\ steps'[w] = Append(steps[w], "pending")
        BY <2>a, <2>c, <2>d, <3>1 DEF TypeOK
      <4>2. req[p].asked # 1
        BY <2>e, <4>1
      <4>3. req[p].asked \in Nat /\ r.asked = req[p].asked - 1 /\ r.flow = w
        BY <2>a, <2>e
      <4>4. Len(steps[w]) \in Nat /\ Len(steps'[w]) = Len(steps[w]) + 1
        BY <2>b, <4>1
      <4>5. req'[q].flow = w /\ req'[q].asked = req[p].asked - 1
        BY <4>1, <4>3
      <4>6. req[p].asked - 1 >= 1 /\ Len(steps'[w]) + (req[p].asked - 1) <= MaxSteps
        BY <2>a, <4>2, <4>3, <4>4
      <4>. QED
        BY <4>5, <4>6
    <3>2. CASE q # p
      <4>1. req'[q] = req[q]
        BY <2>d, <3>2 DEF TypeOK
      <4>2. req[q].flow # w
        BY <2>c, <3>2, <4>1 DEF OneStarter, Starts
      <4>. QED
        BY <2>c, <4>1, <4>2 DEF StepsFit, TypeOK, Request
    <3>. QED
      BY <3>1, <3>2
  <2>. QED
    BY <2>1, <2>2, <2>3, <2>4 DEF TypeOK
<1>3. ASSUME NEW p \in Proc, StartStatus(p)
      PROVE  TypeInv'
  <2>1. (file \in [File -> FileRow])'
    <3>1. /\ req[p].file \in File /\ "Review" \in Status
          /\ \/ file' = file
             \/ file' = [file EXCEPT ![req[p].file].status = "Review"]
      BY <1>3 DEF StartStatus, TypeOK, Request, Status, Outcome
    <3>. QED
      BY <3>1, StatusStep
  <2>2. /\ (flow \in [Flow -> FlowRow])'
        /\ (steps \in [Flow -> Seq(Decision)] /\ \A v \in Flow : Len(steps[v]) <= MaxSteps)'
        /\ (req \in [Proc -> Request])'
        /\ (disturbed \subseteq Flow /\ patched \subseteq File)'
    BY <1>3 DEF StartStatus, Finish, TypeOK
  <2>3. WorksOnMinted' /\ NoStepsYet' /\ StepsFit' /\ OneStarter' /\ RollsOutcome'
    BY <1>3
       DEF StartStatus, Finish, WorksOnMinted, Starts, Rolls, HasFlow,
           NoStepsYet, StepsFit, OneStarter, RollsOutcome
  <2>. QED
    BY <2>1, <2>2, <2>3 DEF TypeOK
<1>4. ASSUME NEW p \in Proc, NEW w \in Flow, NEW i \in 1..MaxSteps, NEW d \in Verdict,
             Decide(p, w, i, d)
      PROVE  TypeInv'
  <2>1. /\ (file \in [File -> FileRow])' /\ (flow \in [Flow -> FlowRow])'
        /\ (req \in [Proc -> Request])'
        /\ (disturbed \subseteq Flow /\ patched \subseteq File)'
        /\ WorksOnMinted'
    <3> DEFINE r == [Idle EXCEPT !.pc = "roll.rejected", !.flow = w]
    <3>1. r \in Request /\ r.pc = "roll.rejected" /\ r.flow = w
      BY DEF Request, Control
    <3>2. /\ req' = [req EXCEPT ![p] = r] /\ HasFlow(w)
          /\ UNCHANGED <<file, flow, patched>> /\ disturbed' \subseteq disturbed \cup {w}
      BY <1>4 DEF Decide, Start
    <3> HIDE DEF r
    <3>. QED
      BY <3>1, <3>2 DEF TypeOK, WorksOnMinted, HasFlow
  <2>2. NoStepsYet' /\ StepsFit' /\ OneStarter' /\ RollsOutcome'
    BY <1>4
       DEF Decide, Start, NoStepsYet, StepsFit, Starts, OneStarter, RollsOutcome
  <2>3. /\ (steps \in [Flow -> Seq(Decision)] /\ \A v \in Flow : Len(steps[v]) <= MaxSteps)'
    <3>1. steps[w] \in Seq(Decision) /\ i \in DOMAIN steps[w]
      BY <1>4 DEF Decide, TypeOK
    <3> DEFINE t == [steps[w] EXCEPT ![i] = d]
    <3>2. t \in Seq(Decision) /\ Len(t) = Len(steps[w])
      BY <3>1, DecideStep
    <3>3. steps' = [steps EXCEPT ![w] = t]
      BY <1>4 DEF Decide
    <3> HIDE DEF t
    <3>. QED
      BY <3>2, <3>3 DEF TypeOK
  <2>. QED
    BY <2>1, <2>2, <2>3 DEF TypeOK
<1>5. ASSUME NEW p \in Proc, RollRejected(p)
      PROVE  TypeInv'
  <2>a. PICK r \in Request :
           /\ req' = [req EXCEPT ![p] = r]
           /\ r.pc = "roll.approved" /\ r.flow = req[p].flow
           /\ r.rejected <=> SomeRejected(req[p].flow)
    BY <1>5, RollRejectedReads DEF TypeInv
  <2>b. UNCHANGED <<file, flow, steps, disturbed, patched>> /\ At(p, "roll.rejected")
    BY <1>5 DEF RollRejected
  <2>1. (file \in [File -> FileRow])'
    BY <1>5, <2>a, <2>b DEF TypeOK
  <2>2. (flow \in [Flow -> FlowRow])'
    BY <1>5, <2>a, <2>b DEF TypeOK
  <2>3. /\ (steps \in [Flow -> Seq(Decision)] /\ \A v \in Flow : Len(steps[v]) <= MaxSteps)'
    BY <1>5, <2>a, <2>b DEF TypeOK
  <2>4. (req \in [Proc -> Request])'
    BY <1>5, <2>a, <2>b DEF TypeOK
  <2>5. (disturbed \subseteq Flow /\ patched \subseteq File)'
    BY <1>5, <2>a, <2>b DEF TypeOK, Request
  <2>6. WorksOnMinted'
    BY <1>5, <2>a, <2>b DEF WorksOnMinted, Rolls
  <2>7. NoStepsYet'
    BY <1>5, <2>a, <2>b DEF NoStepsYet, HasFlow
  <2>8. StepsFit'
    BY <1>5, <2>a, <2>b DEF StepsFit
  <2>9. OneStarter'
    BY <1>5, <2>a, <2>b DEF OneStarter, Starts
  <2>10. RollsOutcome'
    BY <1>5, <2>a, <2>b DEF RollsOutcome
  <2>. QED
    BY <2>1, <2>2, <2>3, <2>4, <2>5, <2>6, <2>7, <2>8, <2>9, <2>10 DEF TypeOK
<1>6. ASSUME NEW p \in Proc, RollApproved(p)
      PROVE  TypeInv'
  <2>a. PICK r \in Request :
           /\ req' = [req EXCEPT ![p] = r]
           /\ \/ r = Idle /\ ~req[p].rejected /\ ~AllApproved(req[p].flow)
              \/ /\ r.pc = "roll.flow" /\ r.flow = req[p].flow
                 /\ \/ r.state = "Rejected" /\ req[p].rejected
                    \/ /\ r.state = "Approved" /\ ~req[p].rejected
                       /\ AllApproved(req[p].flow)
    BY <1>6, RollApprovedReads DEF TypeInv
  <2>b. /\ UNCHANGED <<file, flow, steps, disturbed, patched>>
        /\ At(p, "roll.approved") /\ HasFlow(req[p].flow)
    BY <1>6 DEF RollApproved
  <2>1. (file \in [File -> FileRow])'
    BY <1>6, <2>a, <2>b DEF TypeOK
  <2>2. (flow \in [Flow -> FlowRow])'
    BY <1>6, <2>a, <2>b DEF TypeOK
  <2>3. /\ (steps \in [Flow -> Seq(Decision)] /\ \A v \in Flow : Len(steps[v]) <= MaxSteps)'
    BY <1>6, <2>a, <2>b DEF TypeOK
  <2>4. (req \in [Proc -> Request])'
    BY <1>6, <2>a, <2>b DEF TypeOK
  <2>5. (disturbed \subseteq Flow /\ patched \subseteq File)'
    BY <1>6, <2>a, <2>b DEF TypeOK, Request
  <2>6. WorksOnMinted'
    BY <1>6, <2>a, <2>b DEF WorksOnMinted, Starts, Rolls
  <2>7. NoStepsYet'
    BY <1>6, <2>a, <2>b DEF NoStepsYet
  <2>8. StepsFit'
    BY <1>6, <2>a, <2>b DEF StepsFit
  <2>9. OneStarter'
    BY <1>6, <2>a, <2>b DEF OneStarter, Starts
  <2>10. RollsOutcome'
    BY <1>6, <2>a, <2>b DEF RollsOutcome, Outcome
  <2>. QED
    BY <2>1, <2>2, <2>3, <2>4, <2>5, <2>6, <2>7, <2>8, <2>9, <2>10 DEF TypeOK
<1>7. ASSUME NEW p \in Proc, RollFlow(p)
      PROVE  TypeInv'
  <2>1. /\ (file \in [File -> FileRow])' /\ (flow \in [Flow -> FlowRow])'
        /\ (steps \in [Flow -> Seq(Decision)] /\ \A v \in Flow : Len(steps[v]) <= MaxSteps)'
    <3> DEFINE w == req[p].flow
               r == [flow[w] EXCEPT !.state = req[p].state]
    <3>1. w \in Flow /\ flow[w] \in FlowRow /\ req[p].state \in Outcome
      BY <1>7 DEF RollFlow, TypeOK, Request, RollsOutcome
    <3>2. r \in FlowRow
      BY <3>1 DEF FlowRow, Outcome
    <3>3. flow' = flow \/ flow' = [flow EXCEPT ![w] = r]
      BY <1>7 DEF RollFlow
    <3>4. UNCHANGED <<file, steps>>
      BY <1>7 DEF RollFlow
    <3> HIDE DEF w, r
    <3>. QED
      BY <3>1, <3>2, <3>3, <3>4 DEF TypeOK
  <2>2. /\ (req \in [Proc -> Request])'
        /\ (disturbed \subseteq Flow /\ patched \subseteq File)'
    BY <1>7 DEF RollFlow, Goto, TypeOK, Request, Control, Status, Outcome
  <2>3. NoStepsYet' /\ StepsFit' /\ OneStarter' /\ RollsOutcome'
    BY <1>7
       DEF RollFlow, Goto, NoStepsYet, Outcome, StepsFit, Starts, OneStarter,
           RollsOutcome
  <2>4. WorksOnMinted'
    <3>1. \A v \in Flow : flow'[v].state = "none" => flow[v].state = "none"
      BY <1>7 DEF RollFlow, RollsOutcome, Outcome
    <3>. QED
      BY <1>7, <3>1 DEF RollFlow, Goto, WorksOnMinted, Rolls, TypeOK
  <2>. QED
    BY <2>1, <2>2, <2>3, <2>4 DEF TypeOK
<1>8. ASSUME NEW p \in Proc, RollFile(p)
      PROVE  TypeInv'
  <2>1. (file \in [File -> FileRow])'
    <3> DEFINE f == flow[req[p].flow].file
    <3>1. req[p] \in Request /\ flow \in [Flow -> FlowRow]
      BY DEF TypeOK
    <3>2. f \in File /\ req[p].state \in Status
      BY <3>1 DEF Request, FlowRow
    <3>3. file' = file \/ file' = [file EXCEPT ![f].status = req[p].state]
      BY <1>8 DEF RollFile
    <3> HIDE DEF f
    <3>. QED
      BY <3>2, <3>3, StatusStep
  <2>2. /\ (flow \in [Flow -> FlowRow])'
        /\ (steps \in [Flow -> Seq(Decision)] /\ \A v \in Flow : Len(steps[v]) <= MaxSteps)'
        /\ (req \in [Proc -> Request])'
        /\ (disturbed \subseteq Flow /\ patched \subseteq File)'
    BY <1>8 DEF RollFile, Finish, TypeOK
  <2>3. WorksOnMinted' /\ NoStepsYet' /\ StepsFit' /\ OneStarter' /\ RollsOutcome'
    BY <1>8
       DEF RollFile, Finish, WorksOnMinted, Starts, Rolls, NoStepsYet, StepsFit,
           OneStarter, RollsOutcome
  <2>. QED
    BY <2>1, <2>2, <2>3 DEF TypeOK
<1>9. ASSUME NEW p \in Proc, NEW f \in File, NEW s \in Status, PatchBegin(p, f, s)
      PROVE  TypeInv'
  <2>1. /\ (file \in [File -> FileRow])' /\ (flow \in [Flow -> FlowRow])'
        /\ (steps \in [Flow -> Seq(Decision)] /\ \A v \in Flow : Len(steps[v]) <= MaxSteps)'
        /\ (req \in [Proc -> Request])'
        /\ (disturbed \subseteq Flow /\ patched \subseteq File)'
    BY <1>9
       DEF PatchBegin, Start, TypeOK, FileRow, Status, Outcome, Request,
           FlowRow, RollsOutcome, Control
  <2>2. WorksOnMinted' /\ NoStepsYet' /\ StepsFit' /\ OneStarter' /\ RollsOutcome'
    BY <1>9
       DEF PatchBegin, Start, WorksOnMinted, Starts, Rolls, HasFlow, NoStepsYet,
           StepsFit, OneStarter, RollsOutcome
  <2>. QED
    BY <2>1, <2>2 DEF TypeOK
<1>10. ASSUME NEW p \in Proc, PatchCommit(p)
      PROVE  TypeInv'
  <2>1. (file \in [File -> FileRow])'
    <3>1. req[p] \in Request
      BY DEF TypeOK
    <3>2. req[p].file \in File /\ req[p].state \in Status
      BY <3>1 DEF Request
    <3>3. \/ file' = file
          \/ file' = [file EXCEPT ![req[p].file].status = req[p].state]
      BY <1>10 DEF PatchCommit
    <3>. QED
      BY <3>2, <3>3, StatusStep
  <2>2. /\ (flow \in [Flow -> FlowRow])'
        /\ (steps \in [Flow -> Seq(Decision)] /\ \A v \in Flow : Len(steps[v]) <= MaxSteps)'
        /\ (req \in [Proc -> Request])'
        /\ (disturbed \subseteq Flow /\ patched \subseteq File)'
    BY <1>10 DEF PatchCommit, Finish, TypeOK, Request
  <2>3. WorksOnMinted' /\ NoStepsYet' /\ StepsFit' /\ OneStarter' /\ RollsOutcome'
    BY <1>10
       DEF PatchCommit, Finish, WorksOnMinted, Starts, Rolls, HasFlow,
           NoStepsYet, StepsFit, OneStarter, RollsOutcome
  <2>. QED
    BY <2>1, <2>2, <2>3 DEF TypeOK
<1>11. ASSUME NEW p \in Proc, Fail(p)
      PROVE  TypeInv'
  BY <1>11
     DEF Fail, Finish, TypeOK, Request, RollsOutcome, WorksOnMinted, Starts,
         Rolls, NoStepsYet, StepsFit, OneStarter
<1>12. ASSUME NEW f \in File, Trash(f)
      PROVE  TypeInv'
  <2>1. (file \in [File -> FileRow])'
    BY <1>12 DEF Trash, TypeOK, FileRow, Status, Outcome
  <2>2. /\ (flow \in [Flow -> FlowRow])'
        /\ (steps \in [Flow -> Seq(Decision)] /\ \A v \in Flow : Len(steps[v]) <= MaxSteps)'
        /\ (req \in [Proc -> Request])'
        /\ (disturbed \subseteq Flow /\ patched \subseteq File)'
    BY <1>12 DEF Trash, TypeOK
  <2>3. WorksOnMinted' /\ NoStepsYet' /\ StepsFit' /\ OneStarter' /\ RollsOutcome'
    BY <1>12
       DEF Trash, WorksOnMinted, NoStepsYet, StepsFit, OneStarter, RollsOutcome
  <2>. QED
    BY <2>1, <2>2, <2>3 DEF TypeOK
<1>13. ASSUME NEW f \in File, Restore(f)
      PROVE  TypeInv'
  <2>1. (file \in [File -> FileRow])'
    BY <1>13 DEF Restore, TypeOK, FileRow, Status, Outcome
  <2>2. /\ (flow \in [Flow -> FlowRow])'
        /\ (steps \in [Flow -> Seq(Decision)] /\ \A v \in Flow : Len(steps[v]) <= MaxSteps)'
        /\ (req \in [Proc -> Request])'
        /\ (disturbed \subseteq Flow /\ patched \subseteq File)'
    BY <1>13 DEF Restore, TypeOK
  <2>3. WorksOnMinted' /\ NoStepsYet' /\ StepsFit' /\ OneStarter' /\ RollsOutcome'
    BY <1>13
       DEF Restore, WorksOnMinted, NoStepsYet, StepsFit, OneStarter,
           RollsOutcome
  <2>. QED
    BY <2>1, <2>2, <2>3 DEF TypeOK
<1>14. ASSUME NEW f \in File, Purge(f)
      PROVE  TypeInv'
  <2>1. (file \in [File -> FileRow])'
    BY <1>14 DEF Purge, TypeOK, FileRow, Status, Outcome, Request
  <2>2. /\ (steps \in [Flow -> Seq(Decision)] /\ \A v \in Flow : Len(steps[v]) <= MaxSteps)'
    BY <1>14 DEF Purge, TypeOK
  <2>3. (req \in [Proc -> Request])'
    BY <1>14 DEF Purge, TypeOK
  <2>4. (disturbed \subseteq Flow /\ patched \subseteq File)' /\ WorksOnMinted'
    BY <1>14 DEF Purge, TypeOK, Request, WorksOnMinted
  <2>5. NoStepsYet' /\ StepsFit' /\ OneStarter' /\ RollsOutcome'
    BY <1>14
       DEF Purge, NoStepsYet, TypeOK, Request, StepsFit, OneStarter,
           RollsOutcome
  <2>6. (flow \in [Flow -> FlowRow])'
    <3>1. \A w \in Flow : [flow[w] EXCEPT !.state = "gone"] \in FlowRow
      BY DEF TypeOK, FlowRow
    <3>. QED
      BY <1>14, <3>1 DEF Purge, TypeOK
  <2>. QED
    BY <2>1, <2>2, <2>3, <2>4, <2>5, <2>6 DEF TypeOK
<1>15. CASE UNCHANGED vars
  BY <1>15
     DEF vars, TypeOK, WorksOnMinted, NoStepsYet, StepsFit, OneStarter,
         RollsOutcome
<1>. QED
  BY <1>1, <1>2, <1>3, <1>4, <1>5, <1>6, <1>7, <1>8, <1>9, <1>10, <1>11,
     <1>12, <1>13, <1>14, <1>15
     DEF Next, Handler

-----------------------------------------------------------------------------
(* The roll-up.  In an undisturbed workflow a decision, once made, stays;   *)
(* so does whatever a roll-up has read of the decisions.                    *)

\* The decisions of w add up to s.
Tells(w, s) == \/ s = "Rejected" /\ SomeRejected(w)
               \/ s = "Approved" /\ EveryApproved(w)

\* Nobody decides while the steps are still being inserted.
StartsBeforeRolls ==
    \A p \in Proc : LET w == req[p].flow IN req[p].pc \in Starts /\ w \notin disturbed =>
        /\ \A q \in Proc : req[q].pc \in Rolls => req[q].flow # w
        /\ HasFlow(w) => flow[w].state = "Review"

RollsHaveSteps ==
    \A p \in Proc : LET w == req[p].flow IN
        req[p].pc \in Rolls /\ HasFlow(w) => DOMAIN steps[w] # {}

\* What a roll-up has read, or is about to write, is still so.
RollsTellTrue ==
    \A p \in Proc : LET w == req[p].flow IN HasFlow(w) /\ w \notin disturbed =>
        /\ At(p, "roll.approved") /\ req[p].rejected => SomeRejected(w)
        /\ req[p].pc \in {"roll.flow", "roll.file"} => Tells(w, req[p].state)

StateIsTold ==
    \A w \in Flow \ disturbed :
        HasFlow(w) => flow[w].state = "Review" \/ Tells(w, flow[w].state)

Bears(p, w, s) ==
    /\ req[p].flow = w
    /\ \/ At(p, "roll.rejected")
       \/ At(p, "roll.approved") /\ (s = "Rejected" => req[p].rejected)
       \/ At(p, "roll.flow") /\ req[p].state = s

\* An outcome the workflow does not show yet is on its way in some request.
NewsTravels ==
    \A w \in Flow \ disturbed, s \in Outcome :
        HasFlow(w) /\ Tells(w, s) /\ flow[w].state # s => \E p \in Proc : Bears(p, w, s)

RollInv ==
    /\ StartsBeforeRolls
    /\ RollsHaveSteps
    /\ RollsTellTrue
    /\ StateIsTold
    /\ NewsTravels

\* The decisions of a workflow add up to one outcome at most.
LEMMA OneOutcome ==
    ASSUME NEW w, NEW s, NEW t, Tells(w, s), Tells(w, t)
    PROVE  s = t
BY DEF Tells, SomeRejected, EveryApproved, AllApproved

\* News still travels after a step that makes none and stops none.
LEMMA NewsFrame ==
    ASSUME NewsTravels, disturbed \subseteq disturbed',
           \A w \in Flow \ disturbed', s \in Outcome :
               HasFlow(w)' /\ Tells(w, s)' /\ flow'[w].state # s =>
                   /\ HasFlow(w) /\ Tells(w, s) /\ flow[w].state # s
                   /\ \A p \in Proc : Bears(p, w, s) => Bears(p, w, s)'
    PROVE  NewsTravels'
<1> SUFFICES ASSUME NEW w \in Flow \ disturbed', NEW s \in Outcome,
                    HasFlow(w)', Tells(w, s)', flow'[w].state # s
             PROVE  \E p \in Proc : Bears(p, w, s)'
  BY DEF NewsTravels
<1>1. w \notin disturbed /\ HasFlow(w) /\ Tells(w, s) /\ flow[w].state # s
  OBVIOUS
<1>2. PICK p \in Proc : Bears(p, w, s)
  BY <1>1 DEF NewsTravels
<1>. QED
  BY <1>2

\* With the decisions unchanged they add up to the same.
LEMMA TellsFrame ==
    ASSUME NEW w, steps'[w] = steps[w]
    PROVE  \A s : Tells(w, s)' <=> Tells(w, s)
BY DEF Tells, SomeRejected, EveryApproved, AllApproved

\* No step makes a roll-up, or the workflow's state, untrue of the decisions.
LEMMA RollStep == TypeInv /\ RollInv /\ [Next]_vars => RollInv'
<1> SUFFICES ASSUME TypeInv, RollInv, [Next]_vars
             PROVE  RollInv'
  OBVIOUS
<1> USE ReviewConstants, IdleType DEF RollInv, At
<1>1. ASSUME NEW p \in Proc, NEW w \in Flow, NEW f \in File, NEW n \in 1..MaxSteps,
             StartFlow(p, w, f, n)
      PROVE  RollInv'
  <2>1. StartsBeforeRolls' /\ RollsHaveSteps' /\ RollsTellTrue' /\ StateIsTold'
    BY <1>1
       DEF StartFlow, Start, StartsBeforeRolls, WorksOnMinted, Starts, Rolls,
           TypeInv, TypeOK, Request, HasFlow, RollsHaveSteps, RollsTellTrue,
           Tells, SomeRejected, EveryApproved, AllApproved, StateIsTold
  <2>2. NewsTravels'
    <3>1. /\ UNCHANGED <<steps, disturbed>> /\ flow[w].state = "none" /\ flow'[w].state = "Review"
          /\ \A v \in Flow \ {w} : flow'[v] = flow[v]
      BY <1>1 DEF StartFlow, TypeInv, TypeOK
    <3>2. \A v \in Flow, s \in Outcome : Tells(v, s)' <=> Tells(v, s)
      BY <3>1, TellsFrame
    <3>3. \A s \in Outcome : ~Tells(w, s)
      BY <3>1 DEF TypeInv, NoStepsYet, Tells, SomeRejected, EveryApproved
    <3>4. \A q \in Proc, v \in Flow, s \in Outcome : Bears(q, v, s) => Bears(q, v, s)'
      BY <1>1 DEF StartFlow, Start, Bears
    <3>. QED
      BY <3>1, <3>2, <3>3, <3>4, NewsFrame DEF HasFlow
  <2>. QED
    BY <2>1, <2>2
<1>2. ASSUME NEW p \in Proc, StartStep(p)
      PROVE  RollInv'
  <2> DEFINE w == req[p].flow
             t == Append(steps[w], "pending")
  <2>a. /\ UNCHANGED <<file, flow, disturbed, patched>>
        /\ At(p, "start.step") /\ HasFlow(w) /\ w \in Flow
        /\ steps' = [steps EXCEPT ![w] = t]
        /\ req'[p].pc \in Starts /\ req'[p].flow = w
        /\ \A q \in Proc \ {p} : req'[q] = req[q]
    BY <1>2 DEF StartStep, Starts, TypeInv, TypeOK, Request
  <2>b. /\ DOMAIN t # {} /\ \E k \in DOMAIN t : t[k] = "pending"
        /\ \A k \in DOMAIN t : t[k] # "pending" => k \in DOMAIN steps[w] /\ t[k] = steps[w][k]
    <3>1. steps[w] \in Seq(Decision)
      BY <2>a DEF TypeInv, TypeOK
    <3>. QED
      BY <3>1, AppendStep
  <2> HIDE DEF t
  <2>c. /\ steps'[w] = t /\ \A v \in Flow \ {w} : steps'[v] = steps[v]
    BY <2>a DEF TypeInv, TypeOK
  <2>d. /\ w \notin disturbed => flow[w].state = "Review"
        /\ \A q \in Proc : w \notin disturbed /\ req[q].pc \in Rolls => req[q].flow # w
    BY <2>a DEF StartsBeforeRolls, Starts
  <2>e. ~Tells(w, "Approved")' /\ (w \notin disturbed => ~Tells(w, "Rejected")')
    <3>1. w \notin disturbed => ~Tells(w, "Rejected")
      BY <2>a, <2>d DEF NewsTravels, Outcome, Bears, Rolls
    <3>. QED
      BY <2>a, <2>b, <2>c, <3>1
         DEF Tells, EveryApproved, AllApproved, SomeRejected
  <2>f. \A v \in Flow \ {w}, s \in Outcome : Tells(v, s)' <=> Tells(v, s)
    BY <2>c DEF Tells, EveryApproved, AllApproved, SomeRejected
  <2>g. w' = w
    BY <2>a
  <2> HIDE DEF w
  <2>1. StartsBeforeRolls'
    BY <1>2, <2>a, <2>c, <2>d DEF StartsBeforeRolls, Starts, Rolls, HasFlow
  <2>2. RollsHaveSteps'
    <3> SUFFICES ASSUME NEW q \in Proc, (req[q].pc \in Rolls /\ HasFlow(req[q].flow))'
                 PROVE  (DOMAIN steps[req[q].flow] # {})'
      BY DEF RollsHaveSteps
    <3>1. q # p
      BY <2>a DEF Starts, Rolls
    <3>2. req'[q] = req[q] /\ req[q].flow \in Flow /\ HasFlow(req[q].flow)
      BY <2>a, <3>1 DEF HasFlow, TypeInv, TypeOK, Request
    <3>3. DOMAIN steps[req[q].flow] # {}
      BY <3>2 DEF RollsHaveSteps
    <3>. QED
      BY <2>b, <2>c, <3>2, <3>3
  <2>3. RollsTellTrue'
    <3> SUFFICES ASSUME NEW q \in Proc, (HasFlow(req[q].flow) /\ req[q].flow \notin disturbed)'
                 PROVE  (/\ At(q, "roll.approved") /\ req[q].rejected => SomeRejected(req[q].flow)
                         /\ req[q].pc \in {"roll.flow", "roll.file"} =>
                              Tells(req[q].flow, req[q].state))'
      BY DEF RollsTellTrue
    <3>1. CASE q = p
      BY <2>a, <3>1 DEF Starts
    <3>2. CASE q # p
      <4> DEFINE v == req[q].flow
      <4>1. req'[q] = req[q] /\ v \in Flow /\ HasFlow(v) /\ v \notin disturbed
        BY <2>a, <3>2 DEF HasFlow, TypeInv, TypeOK, Request
      <4>2. req[q].pc \in Rolls => v # w
        BY <2>d, <4>1
      <4>3. /\ At(q, "roll.approved") /\ req[q].rejected => SomeRejected(v)
            /\ req[q].pc \in {"roll.flow", "roll.file"} =>
                 Tells(v, req[q].state) /\ req[q].state \in Outcome
        BY <4>1 DEF RollsTellTrue, TypeInv, RollsOutcome
      <4>4. v # w => (SomeRejected(v)' <=> SomeRejected(v))
        BY <2>c, <4>1 DEF SomeRejected
      <4>. QED
        BY <2>f, <4>1, <4>2, <4>3, <4>4 DEF Rolls
    <3>. QED
      BY <3>1, <3>2
  <2>4. StateIsTold'
    <3> SUFFICES ASSUME NEW v \in Flow \ disturbed', HasFlow(v)', flow'[v].state # "Review"
                 PROVE  Tells(v, flow[v].state)'
      BY DEF StateIsTold
    <3>1. /\ flow'[v] = flow[v] /\ HasFlow(v) /\ v \notin disturbed
          /\ flow[v].state \in Outcome
      BY <2>a DEF HasFlow, TypeInv, TypeOK, FlowRow
    <3>2. Tells(v, flow[v].state)
      BY <3>1 DEF StateIsTold
    <3>. QED
      BY <2>a, <2>d, <2>f, <3>1, <3>2
  <2>5. NewsTravels'
    <3>1. ASSUME NEW v \in Flow \ disturbed', NEW s \in Outcome, HasFlow(v)', Tells(v, s)'
          PROVE  v # w /\ HasFlow(v) /\ Tells(v, s)
      <4>1. v # w
        BY <2>a, <2>e, <2>g, <3>1 DEF Tells
      <4>. QED
        BY <2>a, <2>f, <3>1, <4>1 DEF HasFlow
    <3>2. \A q \in Proc, v \in Flow, s \in Outcome : Bears(q, v, s) => Bears(q, v, s)'
      BY <2>a DEF Bears
    <3>. QED
      BY <2>a, <3>1, <3>2, NewsFrame
  <2>. QED
    BY <2>1, <2>2, <2>3, <2>4, <2>5
<1>3. ASSUME NEW p \in Proc, StartStatus(p)
      PROVE  RollInv'
  <2>1. StartsBeforeRolls' /\ RollsHaveSteps' /\ RollsTellTrue' /\ StateIsTold'
    BY <1>3
       DEF StartStatus, Finish, StartsBeforeRolls, Starts, Rolls, TypeInv,
           TypeOK, Request, HasFlow, RollsHaveSteps, RollsTellTrue, Tells,
           SomeRejected, EveryApproved, AllApproved, StateIsTold
  <2>2. NewsTravels'
    <3>1. /\ UNCHANGED <<flow, steps>> /\ disturbed \subseteq disturbed'
      BY <1>3 DEF StartStatus
    <3>2. \A v \in Flow, s \in Outcome : Tells(v, s)' <=> Tells(v, s)
      BY <3>1, TellsFrame
    <3>3. \A q \in Proc, v \in Flow, s \in Outcome : Bears(q, v, s) => Bears(q, v, s)'
      BY <1>3 DEF StartStatus, Finish, Bears
    <3>. QED
      BY <3>1, <3>2, <3>3, NewsFrame DEF HasFlow
  <2>. QED
    BY <2>1, <2>2
<1>4. ASSUME NEW p \in Proc, NEW w \in Flow, NEW i \in 1..MaxSteps, NEW d \in Verdict,
             Decide(p, w, i, d)
      PROVE  RollInv'
  <2> DEFINE t == [steps[w] EXCEPT ![i] = d]
  <2>a. /\ UNCHANGED <<file, flow, patched>> /\ HasFlow(w)
        /\ i \in DOMAIN steps[w] /\ steps' = [steps EXCEPT ![w] = t]
        /\ disturbed \subseteq disturbed'
        /\ w \notin disturbed' => ~Starting(w) /\ steps[w][i] \in {"pending", d}
    BY <1>4 DEF Decide
  <2>b. t[i] = d /\ DOMAIN t = DOMAIN steps[w] /\ \A j \in DOMAIN t \ {i} : t[j] = steps[w][j]
    <3>1. steps[w] \in Seq(Decision)
      BY DEF TypeInv, TypeOK
    <3>. QED
      BY <2>a, <3>1, DecideStep
  <2> HIDE DEF t
  <2>c. /\ req'[p].pc = "roll.rejected" /\ req'[p].flow = w /\ At(p, "idle")
        /\ \A q \in Proc \ {p} : req'[q] = req[q]
        /\ steps'[w] = t /\ \A v \in Flow \ {w} : steps'[v] = steps[v]
    BY <1>4, <2>a DEF Decide, Start, TypeInv, TypeOK
  <2>d. w \notin disturbed' => \A s \in Outcome : Tells(w, s) => Tells(w, s)'
    BY <2>a, <2>b, <2>c DEF Tells, SomeRejected, EveryApproved, AllApproved
  <2>e. \A v \in Flow \ {w}, s \in Outcome : Tells(v, s)' <=> Tells(v, s)
    BY <2>c DEF Tells, EveryApproved, AllApproved, SomeRejected
  <2>1. StartsBeforeRolls'
    BY <1>4, <2>a, <2>c DEF StartsBeforeRolls, Starting, Starts, HasFlow
  <2>2. RollsHaveSteps'
    <3> SUFFICES ASSUME NEW q \in Proc, (req[q].pc \in Rolls /\ HasFlow(req[q].flow))'
                 PROVE  (DOMAIN steps[req[q].flow] # {})'
      BY DEF RollsHaveSteps
    <3>1. CASE q = p
      BY <2>a, <2>b, <2>c, <3>1
    <3>2. CASE q # p
      <4>1. req'[q] = req[q] /\ req[q].flow \in Flow /\ HasFlow(req[q].flow)
        BY <2>a, <2>c, <3>2 DEF HasFlow, TypeInv, TypeOK, Request
      <4>2. DOMAIN steps[req[q].flow] # {}
        BY <4>1 DEF RollsHaveSteps
      <4>. QED
        BY <2>b, <2>c, <4>1, <4>2
    <3>. QED
      BY <3>1, <3>2
  <2>3. RollsTellTrue'
    <3> SUFFICES ASSUME NEW q \in Proc, (HasFlow(req[q].flow) /\ req[q].flow \notin disturbed)'
                 PROVE  (/\ At(q, "roll.approved") /\ req[q].rejected => SomeRejected(req[q].flow)
                         /\ req[q].pc \in {"roll.flow", "roll.file"} =>
                              Tells(req[q].flow, req[q].state))'
      BY DEF RollsTellTrue
    <3>1. CASE q = p
      BY <2>c, <3>1
    <3>2. CASE q # p
      <4> DEFINE v == req[q].flow
      <4>1. req'[q] = req[q] /\ v \in Flow /\ HasFlow(v) /\ v \notin disturbed
        BY <2>a, <2>c, <3>2 DEF HasFlow, TypeInv, TypeOK, Request
      <4>2. /\ At(q, "roll.approved") /\ req[q].rejected => Tells(v, "Rejected")
            /\ req[q].pc \in {"roll.flow", "roll.file"} =>
                 Tells(v, req[q].state) /\ req[q].state \in Outcome
        BY <4>1 DEF RollsTellTrue, TypeInv, RollsOutcome, Tells
      <4>3. \A s \in Outcome : Tells(v, s) => Tells(v, s)'
        BY <2>d, <2>e, <4>1
      <4>4. Tells(v, "Rejected")' <=> SomeRejected(v)'
        BY DEF Tells
      <4>. QED
        BY <4>1, <4>2, <4>3, <4>4 DEF Outcome
    <3>. QED
      BY <3>1, <3>2
  <2>4. StateIsTold'
    <3> SUFFICES ASSUME NEW v \in Flow \ disturbed', HasFlow(v)', flow'[v].state # "Review"
                 PROVE  Tells(v, flow[v].state)'
      BY DEF StateIsTold
    <3>1. /\ flow'[v] = flow[v] /\ HasFlow(v) /\ v \notin disturbed
          /\ flow[v].state \in Outcome
      BY <2>a DEF HasFlow, TypeInv, TypeOK, FlowRow
    <3>2. Tells(v, flow[v].state)
      BY <3>1 DEF StateIsTold
    <3>. QED
      BY <2>d, <2>e, <3>1, <3>2
  <2>5. NewsTravels'
    BY <1>4, <2>a, <2>c, <2>e DEF NewsTravels, Bears, HasFlow
  <2>. QED
    BY <2>1, <2>2, <2>3, <2>4, <2>5
<1>5. ASSUME NEW p \in Proc, RollRejected(p)
      PROVE  RollInv'
  <2>a. PICK r \in Request :
           /\ req' = [req EXCEPT ![p] = r]
           /\ r.pc = "roll.approved" /\ r.flow = req[p].flow
           /\ r.rejected <=> SomeRejected(req[p].flow)
    BY <1>5, RollRejectedReads DEF TypeInv
  <2>b. UNCHANGED <<file, flow, steps, disturbed, patched>> /\ At(p, "roll.rejected")
    BY <1>5 DEF RollRejected
  <2>1. StartsBeforeRolls'
    BY <1>5, <2>a, <2>b DEF StartsBeforeRolls, Starts, Rolls, HasFlow
  <2>2. RollsHaveSteps'
    BY <1>5, <2>a, <2>b DEF RollsHaveSteps, Rolls, HasFlow
  <2>3. RollsTellTrue'
    BY <1>5, <2>a, <2>b
       DEF RollsTellTrue, Tells, SomeRejected, EveryApproved, AllApproved,
           TypeInv, TypeOK, Request, HasFlow
  <2>4. StateIsTold'
    BY <1>5, <2>a, <2>b
       DEF StateIsTold, Tells, SomeRejected, EveryApproved, AllApproved, HasFlow
  <2>5. NewsTravels'
    <3>1. \A v \in Flow, s \in Outcome : Tells(v, s)' <=> Tells(v, s)
      BY <2>b, TellsFrame
    <3>2. \A q \in Proc, v \in Flow, s \in Outcome :
             Tells(v, s) /\ Bears(q, v, s) => Bears(q, v, s)'
      BY <2>a, <2>b DEF Bears, Tells
    <3>. QED
      BY <2>b, <3>1, <3>2, NewsFrame DEF HasFlow
  <2>. QED
    BY <2>1, <2>2, <2>3, <2>4, <2>5
<1>6. ASSUME NEW p \in Proc, RollApproved(p)
      PROVE  RollInv'
  <2>a. PICK r \in Request :
           /\ req' = [req EXCEPT ![p] = r]
           /\ \/ r = Idle /\ ~req[p].rejected /\ ~AllApproved(req[p].flow)
              \/ /\ r.pc = "roll.flow" /\ r.flow = req[p].flow
                 /\ \/ r.state = "Rejected" /\ req[p].rejected
                    \/ /\ r.state = "Approved" /\ ~req[p].rejected
                       /\ AllApproved(req[p].flow)
    BY <1>6, RollApprovedReads DEF TypeInv
  <2>b. /\ UNCHANGED <<file, flow, steps, disturbed, patched>>
        /\ At(p, "roll.approved") /\ HasFlow(req[p].flow)
    BY <1>6 DEF RollApproved
  <2>1. StartsBeforeRolls'
    BY <1>6, <2>a, <2>b DEF StartsBeforeRolls, Starts, Rolls, HasFlow
  <2>2. RollsHaveSteps'
    BY <1>6, <2>a, <2>b DEF RollsHaveSteps, Rolls, HasFlow
  <2>3. RollsTellTrue'
    BY <1>6, <2>a, <2>b
       DEF RollsTellTrue, RollsHaveSteps, Rolls, Tells, SomeRejected,
           EveryApproved, AllApproved, TypeInv, TypeOK, Request, HasFlow
  <2>4. StateIsTold'
    BY <1>6, <2>a, <2>b
       DEF StateIsTold, Tells, SomeRejected, EveryApproved, AllApproved, HasFlow
  <2>5. NewsTravels'
    <3>1. \A v \in Flow, s \in Outcome : Tells(v, s)' <=> Tells(v, s)
      BY <2>b, TellsFrame
    <3>2. \A v \in Flow \ disturbed, s \in Outcome :
             HasFlow(v) /\ Tells(v, s) /\ Bears(p, v, s) => Bears(p, v, s)'
      <4>1. req' = [req EXCEPT ![p] = r] /\ req \in [Proc -> Request]
        BY <2>a DEF TypeInv, TypeOK
      <4>2. ASSUME NEW v \in Flow \ disturbed, NEW s \in Outcome,
                   HasFlow(v), Tells(v, s), Bears(p, v, s)
            PROVE  r.pc = "roll.flow" /\ r.flow = v /\ r.state = s
        <5>1. req[p].flow = v /\ (req[p].rejected => SomeRejected(v))
          BY <2>b, <4>2 DEF Bears, RollsTellTrue
        <5>2. s = "Rejected" => req[p].rejected
          BY <2>b, <4>2 DEF Bears
        <5>3. s = "Approved" => AllApproved(v) /\ ~SomeRejected(v)
          BY <4>2 DEF Tells, EveryApproved, AllApproved, SomeRejected
        <5>. QED
          BY <2>a, <4>2, <5>1, <5>2, <5>3 DEF Outcome
      <4>. QED
        BY <4>1, <4>2 DEF Bears
    <3>3. \A q \in Proc \ {p}, v \in Flow, s \in Outcome : Bears(q, v, s) => Bears(q, v, s)'
      BY <2>a DEF Bears, TypeInv, TypeOK
    <3>. QED
      BY <2>b, <3>1, <3>2, <3>3, NewsFrame DEF HasFlow
  <2>. QED
    BY <2>1, <2>2, <2>3, <2>4, <2>5
<1>7. ASSUME NEW p \in Proc, RollFlow(p)
      PROVE  RollInv'
  <2>1. StartsBeforeRolls' /\ RollsHaveSteps' /\ RollsTellTrue' /\ StateIsTold'
    <3>1. StartsBeforeRolls' /\ RollsHaveSteps'
      BY <1>7
         DEF RollFlow, Goto, StartsBeforeRolls, Starts, Rolls, TypeInv, TypeOK,
             FlowRow, Request, HasFlow, RollsHaveSteps
    <3>2. RollsTellTrue'
      BY <1>7
         DEF RollFlow, Goto, Rolls, TypeInv, TypeOK, FlowRow, Request, HasFlow,
             RollsTellTrue, Tells, SomeRejected, EveryApproved, AllApproved
    <3>3. StateIsTold'
      BY <1>7
         DEF RollFlow, Goto, Rolls, TypeInv, TypeOK, FlowRow, Request, HasFlow,
             RollsTellTrue, Tells, SomeRejected, EveryApproved, AllApproved,
             StateIsTold
    <3>. QED
      BY <3>1, <3>2, <3>3
  <2>2. NewsTravels'
    <3> DEFINE w == req[p].flow
    <3>1. /\ UNCHANGED <<steps, disturbed>> /\ At(p, "roll.flow") /\ w \in Flow
          /\ flow' = IF HasFlow(w) THEN [flow EXCEPT ![w].state = req[p].state] ELSE flow
      BY <1>7 DEF RollFlow, TypeInv, TypeOK, Request
    <3>2. \A v \in Flow, s \in Outcome : Tells(v, s)' <=> Tells(v, s)
      BY <3>1, TellsFrame
    <3>3. ASSUME NEW v \in Flow \ disturbed', NEW s \in Outcome,
                 HasFlow(v)', Tells(v, s)', flow'[v].state # s
          PROVE  /\ HasFlow(v) /\ Tells(v, s) /\ flow[v].state # s
                 /\ v = w => req[p].state # s
      <4>1. HasFlow(v) /\ Tells(v, s) /\ v \notin disturbed
        BY <3>1, <3>2, <3>3 DEF HasFlow, TypeInv, TypeOK
      <4>2. CASE v = w
        <5>1. flow'[v].state = req[p].state
          BY <3>1, <4>1, <4>2 DEF TypeInv, TypeOK, FlowRow
        <5>2. Tells(v, req[p].state)
          BY <3>1, <4>1, <4>2 DEF RollsTellTrue
        <5>. QED
          BY <3>3, <4>1, <5>1, <5>2, OneOutcome
      <4>3. CASE v # w
        BY <3>1, <3>3, <4>1, <4>3 DEF TypeInv, TypeOK
      <4>. QED
        BY <4>2, <4>3
    <3>4. \A q \in Proc, v \in Flow, s \in Outcome :
             (v = w => req[p].state # s) /\ Bears(q, v, s) => Bears(q, v, s)'
      BY <1>7 DEF RollFlow, Goto, Bears
    <3>. QED
      BY <3>1, <3>3, <3>4, NewsFrame
  <2>. QED
    BY <2>1, <2>2
<1>8. ASSUME NEW p \in Proc, RollFile(p)
      PROVE  RollInv'
  <2>1. StartsBeforeRolls' /\ RollsHaveSteps' /\ RollsTellTrue' /\ StateIsTold'
    BY <1>8
       DEF RollFile, Finish, StartsBeforeRolls, Starts, Rolls, TypeInv, TypeOK,
           Request, HasFlow, RollsHaveSteps, RollsTellTrue, Tells, SomeRejected,
           EveryApproved, AllApproved, StateIsTold
  <2>2. NewsTravels'
    <3>1. /\ UNCHANGED <<flow, steps>> /\ disturbed \subseteq disturbed'
      BY <1>8 DEF RollFile
    <3>2. \A v \in Flow, s \in Outcome : Tells(v, s)' <=> Tells(v, s)
      BY <3>1, TellsFrame
    <3>3. \A q \in Proc, v \in Flow, s \in Outcome : Bears(q, v, s) => Bears(q, v, s)'
      BY <1>8 DEF RollFile, Finish, Bears
    <3>. QED
      BY <3>1, <3>2, <3>3, NewsFrame DEF HasFlow
  <2>. QED
    BY <2>1, <2>2
<1>9. ASSUME NEW p \in Proc, NEW f \in File, NEW s \in Status, PatchBegin(p, f, s)
      PROVE  RollInv'
  <2>1. StartsBeforeRolls' /\ RollsHaveSteps' /\ RollsTellTrue' /\ StateIsTold'
    BY <1>9
       DEF PatchBegin, Start, StartsBeforeRolls, Starts, Rolls, TypeInv, TypeOK,
           Request, HasFlow, RollsHaveSteps, RollsTellTrue, Tells, SomeRejected,
           EveryApproved, AllApproved, StateIsTold
  <2>2. NewsTravels'
    <3>1. /\ UNCHANGED <<flow, steps>> /\ disturbed \subseteq disturbed'
      BY <1>9 DEF PatchBegin
    <3>2. \A v \in Flow, o \in Outcome : Tells(v, o)' <=> Tells(v, o)
      BY <3>1, TellsFrame
    <3>3. \A q \in Proc, v \in Flow, o \in Outcome : Bears(q, v, o) => Bears(q, v, o)'
      BY <1>9 DEF PatchBegin, Start, Bears
    <3>. QED
      BY <3>1, <3>2, <3>3, NewsFrame DEF HasFlow
  <2>. QED
    BY <2>1, <2>2
<1>10. ASSUME NEW p \in Proc, PatchCommit(p)
      PROVE  RollInv'
  <2>1. StartsBeforeRolls' /\ RollsHaveSteps' /\ RollsTellTrue' /\ StateIsTold'
    BY <1>10
       DEF PatchCommit, Finish, StartsBeforeRolls, Starts, Rolls, TypeInv,
           TypeOK, Request, HasFlow, RollsHaveSteps, RollsTellTrue, Tells,
           SomeRejected, EveryApproved, AllApproved, StateIsTold
  <2>2. NewsTravels'
    <3>1. /\ UNCHANGED <<flow, steps>> /\ disturbed \subseteq disturbed'
      BY <1>10 DEF PatchCommit
    <3>2. \A v \in Flow, s \in Outcome : Tells(v, s)' <=> Tells(v, s)
      BY <3>1, TellsFrame
    <3>3. \A q \in Proc, v \in Flow, s \in Outcome : Bears(q, v, s) => Bears(q, v, s)'
      BY <1>10 DEF PatchCommit, Finish, Bears
    <3>. QED
      BY <3>1, <3>2, <3>3, NewsFrame DEF HasFlow
  <2>. QED
    BY <2>1, <2>2
<1>11. ASSUME NEW p \in Proc, Fail(p)
      PROVE  RollInv'
  <2>1. StartsBeforeRolls' /\ RollsHaveSteps' /\ RollsTellTrue' /\ StateIsTold'
    BY <1>11
       DEF Fail, Finish, StartsBeforeRolls, Starts, Rolls, TypeInv, TypeOK,
           FileRow, Request, HasFlow, RollsHaveSteps, RollsTellTrue, Tells,
           SomeRejected, EveryApproved, AllApproved, StateIsTold
  <2>2. NewsTravels'
    <3>1. /\ UNCHANGED <<flow, steps>> /\ disturbed \subseteq disturbed'
      BY <1>11 DEF Fail
    <3>2. \A v \in Flow, s \in Outcome : Tells(v, s)' <=> Tells(v, s)
      BY <3>1, TellsFrame
    <3>3. \A q \in Proc, v \in Flow \ disturbed', s \in Outcome :
             Bears(q, v, s) => Bears(q, v, s)'
      BY <1>11 DEF Fail, Finish, Bears
    <3>. QED
      BY <3>1, <3>2, <3>3, NewsFrame DEF HasFlow
  <2>. QED
    BY <2>1, <2>2
<1>12. ASSUME NEW f \in File, Trash(f)
      PROVE  RollInv'
  <2>1. StartsBeforeRolls' /\ RollsHaveSteps' /\ RollsTellTrue' /\ StateIsTold'
    BY <1>12
       DEF Trash, StartsBeforeRolls, TypeInv, TypeOK, HasFlow, RollsHaveSteps,
           RollsTellTrue, Tells, SomeRejected, EveryApproved, AllApproved,
           StateIsTold
  <2>2. NewsTravels'
    <3>1. /\ UNCHANGED <<flow, steps>> /\ disturbed \subseteq disturbed'
      BY <1>12 DEF Trash
    <3>2. \A v \in Flow, s \in Outcome : Tells(v, s)' <=> Tells(v, s)
      BY <3>1, TellsFrame
    <3>3. \A q \in Proc, v \in Flow, s \in Outcome : Bears(q, v, s) => Bears(q, v, s)'
      BY <1>12 DEF Trash, Bears
    <3>. QED
      BY <3>1, <3>2, <3>3, NewsFrame DEF HasFlow
  <2>. QED
    BY <2>1, <2>2
<1>13. ASSUME NEW f \in File, Restore(f)
      PROVE  RollInv'
  <2>1. StartsBeforeRolls' /\ RollsHaveSteps' /\ RollsTellTrue' /\ StateIsTold'
    BY <1>13
       DEF Restore, StartsBeforeRolls, TypeInv, HasFlow, RollsHaveSteps,
           RollsTellTrue, Tells, SomeRejected, EveryApproved, AllApproved,
           StateIsTold
  <2>2. NewsTravels'
    <3>1. /\ UNCHANGED <<flow, steps>> /\ disturbed \subseteq disturbed'
      BY <1>13 DEF Restore
    <3>2. \A v \in Flow, s \in Outcome : Tells(v, s)' <=> Tells(v, s)
      BY <3>1, TellsFrame
    <3>3. \A q \in Proc, v \in Flow, s \in Outcome : Bears(q, v, s) => Bears(q, v, s)'
      BY <1>13 DEF Restore, Bears
    <3>. QED
      BY <3>1, <3>2, <3>3, NewsFrame DEF HasFlow
  <2>. QED
    BY <2>1, <2>2
<1>14. ASSUME NEW f \in File, Purge(f)
      PROVE  RollInv'
  <2>1. StartsBeforeRolls' /\ RollsHaveSteps' /\ RollsTellTrue' /\ StateIsTold'
    <3>1. StartsBeforeRolls' /\ RollsHaveSteps'
      BY <1>14
         DEF Purge, StartsBeforeRolls, TypeInv, TypeOK, FileRow, FlowRow,
             Request, HasFlow, RollsHaveSteps
    <3>2. RollsTellTrue'
      <4>1. \A w \in Flow : HasFlow(w)' => HasFlow(w) /\ steps'[w] = steps[w]
        BY <1>14 DEF Purge, TypeInv, TypeOK, FlowRow, HasFlow
      <4>2. UNCHANGED <<req, disturbed>> /\ \A p \in Proc : req[p].flow \in Flow
        BY <1>14 DEF Purge, TypeInv, TypeOK, Request
      <4>. QED
        BY <4>1, <4>2
           DEF RollsTellTrue, Tells, SomeRejected, EveryApproved, AllApproved
    <3>3. StateIsTold'
      BY <1>14
         DEF Purge, TypeInv, TypeOK, FlowRow, HasFlow, Tells, SomeRejected,
             EveryApproved, AllApproved, StateIsTold
    <3>. QED
      BY <3>1, <3>2, <3>3
  <2>2. NewsTravels'
    <3>1. /\ UNCHANGED <<req, disturbed>>
          /\ \A v \in Flow : HasFlow(v)' =>
               HasFlow(v) /\ flow'[v] = flow[v] /\ steps'[v] = steps[v]
      BY <1>14 DEF Purge, HasFlow
    <3>2. \A v \in Flow, s \in Outcome : HasFlow(v)' => (Tells(v, s)' <=> Tells(v, s))
      BY <3>1, TellsFrame
    <3>3. \A q \in Proc, v \in Flow, s \in Outcome : Bears(q, v, s) => Bears(q, v, s)'
      BY <3>1 DEF Bears
    <3>. QED
      BY <3>1, <3>2, <3>3, NewsFrame
  <2>. QED
    BY <2>1, <2>2
<1>15. CASE UNCHANGED vars
  BY <1>15
     DEF vars, HasFlow, StartsBeforeRolls, RollsHaveSteps, RollsTellTrue,
         StateIsTold, NewsTravels, Bears, Tells, SomeRejected, EveryApproved,
         AllApproved
<1>. QED
  BY <1>1, <1>2, <1>3, <1>4, <1>5, <1>6, <1>7, <1>8, <1>9, <1>10, <1>11,
     <1>12, <1>13, <1>14, <1>15
     DEF Next, Handler

-----------------------------------------------------------------------------
(* The mirror in files.status.                                             *)

StartsOwnFile ==
    \A p \in Proc : req[p].pc \in Starts => req[p].file = flow[req[p].flow].file

\* A workflow goes with its file, and only then.
GoneWithFile ==
    \A w \in Flow : /\ flow[w].state = "gone" => ~HasFile(flow[w].file)
                    /\ HasFlow(w) => HasFile(flow[w].file)

RollsMirror ==
    \A p \in Proc : LET w == req[p].flow IN
        At(p, "roll.file") /\ HasFlow(w) /\ w \notin disturbed =>
            flow[w].state = req[p].state

Alone(w) == \A v \in Flow \ {w} : HasFlow(v) => flow[v].file # flow[w].file

\* The file's status should be this workflow's state, or about to be.
Follows(w) == HasFlow(w) /\ flow[w].file \notin patched /\ Alone(w)

Writes(p, w) == req[p].flow = w /\ req[p].pc \in Starts \cup {"roll.file"}

Mirrors(w) == \/ file[flow[w].file].status = flow[w].state
              \/ \E p \in Proc : Writes(p, w)

StatusFollows == \A w \in Flow \ disturbed : Follows(w) => Mirrors(w)

MirrorInv ==
    /\ StartsOwnFile
    /\ GoneWithFile
    /\ RollsMirror
    /\ StatusFollows

\* The mirror still holds after a step that changes nothing a follower sees.
LEMMA MirrorFrame ==
    ASSUME StatusFollows, disturbed \subseteq disturbed',
           \A w \in Flow \ disturbed' : Follows(w)' /\ ~Mirrors(w)' =>
               /\ Follows(w)
               /\ file[flow[w].file].status # flow[w].state
               /\ \A p \in Proc : Writes(p, w) => Writes(p, w)'
    PROVE  StatusFollows'
<1> SUFFICES ASSUME NEW w \in Flow \ disturbed', Follows(w)', ~Mirrors(w)'
             PROVE  FALSE
  BY DEF StatusFollows
<1>1. PICK p \in Proc : Writes(p, w)
  BY DEF StatusFollows, Mirrors
<1>2. Writes(p, w)'
  BY <1>1
<1>. QED
  BY <1>2 DEF Mirrors

\* A step that leaves the workflows alone makes no new followers.
LEMMA StatusFrame ==
    ASSUME StatusFollows, UNCHANGED flow,
           disturbed \subseteq disturbed', patched \subseteq patched',
           \A w \in Flow \ disturbed' : Follows(w) /\ flow[w].file \notin patched' =>
               \/ file'[flow[w].file].status = flow[w].state
               \/ /\ file'[flow[w].file].status = file[flow[w].file].status
                  /\ \A p \in Proc : Writes(p, w) => Writes(p, w)'
    PROVE  StatusFollows'
<1>1. ASSUME NEW w \in Flow \ disturbed', Follows(w)', ~Mirrors(w)'
      PROVE  /\ Follows(w)
             /\ file[flow[w].file].status # flow[w].state
             /\ \A p \in Proc : Writes(p, w) => Writes(p, w)'
  <2>1. Follows(w) /\ flow[w].file \notin patched'
    BY <1>1 DEF Follows, Alone, HasFlow
  <2>2. file'[flow[w].file].status # flow[w].state
    BY <1>1 DEF Mirrors
  <2>. QED
    BY <2>1, <2>2
<1>. QED
  BY <1>1, MirrorFrame

\* No step lets the status column drift from the workflow it mirrors.
LEMMA MirrorStep == TypeInv /\ RollInv /\ MirrorInv /\ [Next]_vars => MirrorInv'
<1> SUFFICES ASSUME TypeInv, RollInv, MirrorInv, [Next]_vars
             PROVE  MirrorInv'
  OBVIOUS
<1> USE ReviewConstants, IdleType DEF MirrorInv, At
<1>1. ASSUME NEW p \in Proc, NEW w \in Flow, NEW f \in File, NEW n \in 1..MaxSteps,
             StartFlow(p, w, f, n)
      PROVE  MirrorInv'
  <2>1. StartsOwnFile' /\ GoneWithFile' /\ RollsMirror'
    BY <1>1
       DEF StartFlow, Start, StartsOwnFile, WorksOnMinted, Rolls, TypeInv,
           TypeOK, HasFlow, HasFile, GoneWithFile, RollsMirror
  <2>2. StatusFollows'
    <3>1. /\ UNCHANGED <<file, disturbed, patched>> /\ ~HasFlow(w) /\ At(p, "idle")
          /\ \A v \in Flow \ {w} : flow'[v] = flow[v]
          /\ Writes(p, w)' /\ \A q \in Proc \ {p} : req'[q] = req[q]
      BY <1>1 DEF StartFlow, Start, Writes, Starts, HasFlow, TypeInv, TypeOK
    <3>2. ASSUME NEW v \in Flow \ disturbed', Follows(v)', ~Mirrors(v)'
          PROVE  /\ Follows(v)
                 /\ file[flow[v].file].status # flow[v].state
                 /\ \A q \in Proc : Writes(q, v) => Writes(q, v)'
      <4>1. v # w
        <5> SUFFICES ASSUME v = w PROVE FALSE
          OBVIOUS
        <5>. QED
          BY <3>1, <3>2 DEF Mirrors, Writes
      <4>2. flow'[v] = flow[v]
        BY <3>1, <4>1
      <4>3. Follows(v)
        BY <3>1, <3>2, <4>1, <4>2 DEF Follows, Alone, HasFlow
      <4>4. \A q \in Proc : Writes(q, v) => Writes(q, v)'
        BY <3>1 DEF Writes, Starts
      <4>. QED
        BY <3>1, <3>2, <4>2, <4>3, <4>4 DEF Mirrors
    <3>. QED
      BY <3>1, <3>2, MirrorFrame
  <2>. QED
    BY <2>1, <2>2
<1>2. ASSUME NEW p \in Proc, StartStep(p)
      PROVE  MirrorInv'
  <2>1. StartsOwnFile' /\ GoneWithFile' /\ RollsMirror'
    BY <1>2
       DEF StartStep, StartsOwnFile, WorksOnMinted, Starts, Rolls, TypeInv,
           TypeOK, HasFlow, HasFile, GoneWithFile, RollsMirror
  <2>2. StatusFollows'
    <3>1. /\ UNCHANGED <<file, flow, patched>> /\ disturbed \subseteq disturbed'
          /\ \A q \in Proc, v \in Flow \ disturbed' : Writes(q, v) => Writes(q, v)'
      BY <1>2 DEF StartStep, Writes, TypeInv, TypeOK, Request
    <3>. QED
      BY <3>1, StatusFrame
  <2>. QED
    BY <2>1, <2>2
<1>3. ASSUME NEW p \in Proc, StartStatus(p)
      PROVE  MirrorInv'
  <2>1. StartsOwnFile' /\ GoneWithFile' /\ RollsMirror'
    BY <1>3
       DEF StartStatus, Finish, StartsOwnFile, Starts, HasFlow, HasFile,
           GoneWithFile, RollsMirror
  <2>2. StatusFollows'
    <3> DEFINE w == req[p].flow
               f == req[p].file
    <3>1. /\ UNCHANGED <<flow, disturbed, patched>> /\ At(p, "start.status")
          /\ w \in Flow /\ f = flow[w].file /\ f \in File
          /\ file' = IF HasFile(f) THEN [file EXCEPT ![f].status = "Review"] ELSE file
          /\ \A q \in Proc \ {p} : req'[q] = req[q]
      BY <1>3
         DEF StartStatus, Finish, StartsOwnFile, Starts, TypeInv, TypeOK,
             Request
    <3>2. ASSUME NEW v \in Flow \ disturbed, Follows(v)
          PROVE  \/ file'[flow[v].file].status = flow[v].state
                 \/ /\ file'[flow[v].file].status = file[flow[v].file].status
                    /\ \A q \in Proc : Writes(q, v) => Writes(q, v)'
      <4>1. CASE v = w
        <5>1. HasFile(f) /\ flow[w].state = "Review"
          BY <3>1, <3>2, <4>1
             DEF Follows, GoneWithFile, RollInv, StartsBeforeRolls, Starts
        <5>. QED
          BY <3>1, <4>1, <5>1 DEF TypeInv, TypeOK, FileRow
      <4>2. CASE v # w
        <5>1. flow[v].file # f \/ ~HasFile(f)
          BY <3>1, <3>2, <4>2
             DEF Follows, Alone, GoneWithFile, WorksOnMinted, Starts, HasFlow,
                 TypeInv
        <5>2. \A q \in Proc : Writes(q, v) => Writes(q, v)'
          BY <3>1, <4>2 DEF Writes
        <5>3. file'[flow[v].file] = file[flow[v].file]
          BY <3>1, <5>1 DEF TypeInv, TypeOK
        <5>. QED
          BY <5>2, <5>3
      <4>. QED
        BY <4>1, <4>2
    <3>. QED
      BY <3>1, <3>2, StatusFrame
  <2>. QED
    BY <2>1, <2>2
<1>4. ASSUME NEW p \in Proc, NEW w \in Flow, NEW i \in 1..MaxSteps, NEW d \in Verdict,
             Decide(p, w, i, d)
      PROVE  MirrorInv'
  <2>1. StartsOwnFile' /\ GoneWithFile' /\ RollsMirror'
    BY <1>4
       DEF Decide, Start, StartsOwnFile, Starts, HasFlow, HasFile, GoneWithFile,
           RollsMirror
  <2>2. StatusFollows'
    <3>1. /\ UNCHANGED <<file, flow, patched>> /\ disturbed \subseteq disturbed'
          /\ \A q \in Proc, v \in Flow \ disturbed' : Writes(q, v) => Writes(q, v)'
      BY <1>4 DEF Decide, Start, Writes, Starts
    <3>. QED
      BY <3>1, StatusFrame
  <2>. QED
    BY <2>1, <2>2
<1>5. ASSUME NEW p \in Proc, RollRejected(p)
      PROVE  MirrorInv'
  <2>a. PICK r \in Request :
           /\ req' = [req EXCEPT ![p] = r]
           /\ r.pc = "roll.approved" /\ r.flow = req[p].flow
           /\ r.rejected <=> SomeRejected(req[p].flow)
    BY <1>5, RollRejectedReads DEF TypeInv
  <2>b. UNCHANGED <<file, flow, steps, disturbed, patched>> /\ At(p, "roll.rejected")
    BY <1>5 DEF RollRejected
  <2>1. StartsOwnFile'
    BY <1>5, <2>a, <2>b DEF StartsOwnFile, Starts
  <2>2. GoneWithFile'
    BY <1>5, <2>a, <2>b DEF GoneWithFile, HasFlow, HasFile
  <2>3. RollsMirror'
    BY <1>5, <2>a, <2>b DEF RollsMirror, HasFlow
  <2>4. StatusFollows'
    <3>1. /\ UNCHANGED <<file, flow, patched>> /\ disturbed \subseteq disturbed'
          /\ \A q \in Proc, v \in Flow \ disturbed' : Writes(q, v) => Writes(q, v)'
      BY <2>a, <2>b DEF Writes, Starts
    <3>. QED
      BY <3>1, StatusFrame
  <2>. QED
    BY <2>1, <2>2, <2>3, <2>4
<1>6. ASSUME NEW p \in Proc, RollApproved(p)
      PROVE  MirrorInv'
  <2>a. PICK r \in Request :
           /\ req' = [req EXCEPT ![p] = r]
           /\ \/ r = Idle /\ ~req[p].rejected /\ ~AllApproved(req[p].flow)
              \/ /\ r.pc = "roll.flow" /\ r.flow = req[p].flow
                 /\ \/ r.state = "Rejected" /\ req[p].rejected
                    \/ /\ r.state = "Approved" /\ ~req[p].rejected
                       /\ AllApproved(req[p].flow)
    BY <1>6, RollApprovedReads DEF TypeInv
  <2>b. /\ UNCHANGED <<file, flow, steps, disturbed, patched>>
        /\ At(p, "roll.approved") /\ HasFlow(req[p].flow)
    BY <1>6 DEF RollApproved
  <2>1. StartsOwnFile'
    BY <1>6, <2>a, <2>b DEF StartsOwnFile, Starts
  <2>2. GoneWithFile'
    BY <1>6, <2>a, <2>b DEF GoneWithFile, HasFlow, HasFile
  <2>3. RollsMirror'
    BY <1>6, <2>a, <2>b DEF RollsMirror, HasFlow
  <2>4. StatusFollows'
    <3>1. /\ UNCHANGED <<file, flow, patched>> /\ disturbed \subseteq disturbed'
          /\ \A q \in Proc, v \in Flow \ disturbed' : Writes(q, v) => Writes(q, v)'
      BY <2>a, <2>b DEF Writes, Starts
    <3>. QED
      BY <3>1, StatusFrame
  <2>. QED
    BY <2>1, <2>2, <2>3, <2>4
<1>7. ASSUME NEW p \in Proc, RollFlow(p)
      PROVE  MirrorInv'
  <2>1. StartsOwnFile'
    BY <1>7 DEF RollFlow, Goto, StartsOwnFile, Starts
  <2>2. RollsMirror'
    BY <1>7
       DEF RollFlow, Goto, RollsMirror, RollInv, RollsTellTrue, Tells,
           SomeRejected, EveryApproved, AllApproved, TypeInv, TypeOK, FileRow,
           Request, HasFlow
  <2>3. GoneWithFile'
    <3> DEFINE w == req[p].flow
    <3>1. /\ UNCHANGED file /\ w \in Flow /\ req[p].state \in Outcome
          /\ flow' = IF HasFlow(w) THEN [flow EXCEPT ![w].state = req[p].state] ELSE flow
      BY <1>7 DEF RollFlow, RollsOutcome, TypeInv, TypeOK, Request
    <3>2. \A v \in Flow : /\ flow'[v].file = flow[v].file
                          /\ HasFlow(v)' <=> HasFlow(v)
                          /\ flow'[v].state = "gone" => flow[v].state = "gone"
      BY <3>1 DEF HasFlow, Outcome
    <3>. QED
      BY <3>1, <3>2 DEF GoneWithFile, HasFile
  <2>4. StatusFollows'
    <3> DEFINE w == req[p].flow
    <3>1. /\ UNCHANGED <<file, disturbed, patched>> /\ w \in Flow
          /\ At(p, "roll.flow") /\ req[p].state \in Outcome
          /\ req'[p].flow = w /\ req'[p].pc = "roll.file"
          /\ \A q \in Proc \ {p} : req'[q] = req[q]
          /\ flow' = IF HasFlow(w) THEN [flow EXCEPT ![w].state = req[p].state] ELSE flow
      BY <1>7 DEF RollFlow, Goto, Writes, RollsOutcome, TypeInv, TypeOK, Request
    <3>2. \A u \in Flow : /\ flow'[u].file = flow[u].file
                          /\ HasFlow(u)' <=> HasFlow(u)
                          /\ u # w => flow'[u] = flow[u]
      BY <3>1 DEF HasFlow, Outcome
    <3>3. ASSUME NEW v \in Flow \ disturbed', Follows(v)', ~Mirrors(v)'
          PROVE  /\ Follows(v)
                 /\ file[flow[v].file].status # flow[v].state
                 /\ \A q \in Proc : Writes(q, v) => Writes(q, v)'
      <4>1. v # w
        BY <3>1, <3>3 DEF Mirrors, Writes
      <4>2. Follows(v)
        BY <3>1, <3>2, <3>3 DEF Follows, Alone
      <4>3. \A q \in Proc : Writes(q, v) => Writes(q, v)'
        BY <3>1 DEF Writes, Starts
      <4>. QED
        BY <3>1, <3>2, <3>3, <4>1, <4>2, <4>3 DEF Mirrors
    <3>. QED
      BY <3>1, <3>3, MirrorFrame
  <2>. QED
    BY <2>1, <2>2, <2>3, <2>4
<1>8. ASSUME NEW p \in Proc, RollFile(p)
      PROVE  MirrorInv'
  <2>1. StartsOwnFile' /\ GoneWithFile' /\ RollsMirror'
    <3>1. StartsOwnFile'
      BY <1>8 DEF RollFile, Finish, StartsOwnFile, Starts, HasFlow
    <3>2. GoneWithFile'
      BY <1>8 DEF RollFile, HasFlow, HasFile, GoneWithFile
    <3>3. RollsMirror'
      BY <1>8 DEF RollFile, Finish, HasFlow, RollsMirror
    <3>. QED
      BY <3>1, <3>2, <3>3
  <2>2. StatusFollows'
    <3> DEFINE w == req[p].flow
               f == flow[w].file
    <3>1. /\ UNCHANGED <<flow, disturbed, patched>> /\ At(p, "roll.file")
          /\ w \in Flow /\ f \in File
          /\ file' = IF HasFlow(w) THEN [file EXCEPT ![f].status = req[p].state] ELSE file
          /\ \A q \in Proc \ {p} : req'[q] = req[q]
      BY <1>8 DEF RollFile, Finish, TypeInv, TypeOK, Request, FlowRow
    <3>2. ASSUME NEW v \in Flow \ disturbed, Follows(v)
          PROVE  \/ file'[flow[v].file].status = flow[v].state
                 \/ /\ file'[flow[v].file].status = file[flow[v].file].status
                    /\ \A q \in Proc : Writes(q, v) => Writes(q, v)'
      <4>1. CASE v = w
        BY <3>1, <3>2, <4>1 DEF Follows, RollsMirror, TypeInv, TypeOK
      <4>2. CASE v # w
        <5>1. flow[v].file # f \/ ~HasFlow(w)
          BY <3>1, <3>2, <4>2 DEF Follows, Alone
        <5>2. \A q \in Proc : Writes(q, v) => Writes(q, v)'
          BY <3>1, <4>2 DEF Writes
        <5>3. file'[flow[v].file] = file[flow[v].file]
          BY <3>1, <5>1 DEF TypeInv, TypeOK
        <5>. QED
          BY <5>2, <5>3
      <4>. QED
        BY <4>1, <4>2
    <3>. QED
      BY <3>1, <3>2, StatusFrame
  <2>. QED
    BY <2>1, <2>2
<1>9. ASSUME NEW p \in Proc, NEW f \in File, NEW s \in Status, PatchBegin(p, f, s)
      PROVE  MirrorInv'
  <2>1. StartsOwnFile' /\ GoneWithFile' /\ RollsMirror'
    BY <1>9
       DEF PatchBegin, Start, StartsOwnFile, Starts, HasFlow, HasFile,
           GoneWithFile, RollsMirror
  <2>2. StatusFollows'
    <3>1. /\ UNCHANGED <<file, flow, patched>> /\ disturbed \subseteq disturbed'
          /\ \A q \in Proc, v \in Flow \ disturbed' : Writes(q, v) => Writes(q, v)'
      BY <1>9 DEF PatchBegin, Start, Writes, Starts
    <3>. QED
      BY <3>1, StatusFrame
  <2>. QED
    BY <2>1, <2>2
<1>10. ASSUME NEW p \in Proc, PatchCommit(p)
      PROVE  MirrorInv'
  <2>1. StartsOwnFile' /\ GoneWithFile' /\ RollsMirror'
    BY <1>10
       DEF PatchCommit, Finish, StartsOwnFile, Starts, HasFlow, HasFile,
           GoneWithFile, RollsMirror
  <2>2. StatusFollows'
    <3>1. /\ UNCHANGED <<flow, disturbed>> /\ patched \subseteq patched'
          /\ \A g \in File \ patched' : file'[g] = file[g]
      BY <1>10 DEF PatchCommit, TypeInv, TypeOK
    <3>2. \A q \in Proc, v \in Flow : Writes(q, v) => Writes(q, v)'
      BY <1>10 DEF PatchCommit, Finish, Writes, Starts
    <3>3. \A v \in Flow : flow[v].file \in File
      BY DEF TypeInv, TypeOK, FlowRow
    <3>. QED
      BY <3>1, <3>2, <3>3, StatusFrame
  <2>. QED
    BY <2>1, <2>2
<1>11. ASSUME NEW p \in Proc, Fail(p)
      PROVE  MirrorInv'
  <2>1. StartsOwnFile' /\ GoneWithFile' /\ RollsMirror'
    BY <1>11
       DEF Fail, Finish, StartsOwnFile, Starts, HasFlow, HasFile, GoneWithFile,
           RollsMirror
  <2>2. StatusFollows'
    <3>1. /\ UNCHANGED <<file, flow, patched>> /\ disturbed \subseteq disturbed'
          /\ \A q \in Proc, v \in Flow \ disturbed' : Writes(q, v) => Writes(q, v)'
      BY <1>11 DEF Fail, Finish, Writes, Starts
    <3>. QED
      BY <3>1, StatusFrame
  <2>. QED
    BY <2>1, <2>2
<1>12. ASSUME NEW f \in File, Trash(f)
      PROVE  MirrorInv'
  <2>1. StartsOwnFile' /\ GoneWithFile' /\ RollsMirror'
    BY <1>12
       DEF Trash, StartsOwnFile, HasFlow, HasFile, GoneWithFile, RollsMirror
  <2>2. StatusFollows'
    <3>1. /\ UNCHANGED <<flow, req, disturbed, patched>>
          /\ \A g \in File : file'[g].status = file[g].status
      BY <1>12 DEF Trash
    <3>2. \A v \in Flow : flow[v].file \in File
      BY DEF TypeInv, TypeOK, FlowRow
    <3>3. \A q, v : Writes(q, v) => Writes(q, v)'
      BY <3>1 DEF Writes
    <3>. QED
      BY <3>1, <3>2, <3>3, StatusFrame
  <2>. QED
    BY <2>1, <2>2
<1>13. ASSUME NEW f \in File, Restore(f)
      PROVE  MirrorInv'
  <2>1. StartsOwnFile' /\ GoneWithFile' /\ RollsMirror'
    BY <1>13
       DEF Restore, StartsOwnFile, HasFlow, HasFile, GoneWithFile, RollsMirror
  <2>2. StatusFollows'
    <3>1. /\ UNCHANGED <<flow, req, disturbed, patched>>
          /\ \A g \in File : file'[g].status = file[g].status
      BY <1>13 DEF Restore
    <3>2. \A v \in Flow : flow[v].file \in File
      BY DEF TypeInv, TypeOK, FlowRow
    <3>3. \A q, v : Writes(q, v) => Writes(q, v)'
      BY <3>1 DEF Writes
    <3>. QED
      BY <3>1, <3>2, <3>3, StatusFrame
  <2>. QED
    BY <2>1, <2>2
<1>14. ASSUME NEW f \in File, Purge(f)
      PROVE  MirrorInv'
  <2>1. StartsOwnFile' /\ GoneWithFile' /\ RollsMirror'
    BY <1>14
       DEF Purge, StartsOwnFile, TypeInv, TypeOK, Request, HasFlow, HasFile,
           GoneWithFile, RollsMirror
  <2>2. StatusFollows'
    <3>1. /\ UNCHANGED <<req, disturbed, patched>>
          /\ \A g \in File \ {f} : file'[g] = file[g]
      BY <1>14 DEF Purge, TypeInv, TypeOK
    <3>2. \A u \in Flow : /\ flow'[u].file = flow[u].file
                          /\ HasFlow(u)' <=> HasFlow(u) /\ flow[u].file # f
                          /\ HasFlow(u)' => flow'[u] = flow[u]
                          /\ flow[u].file \in File
      BY <1>14 DEF Purge, HasFlow, TypeInv, TypeOK, FlowRow
    <3>3. ASSUME NEW v \in Flow \ disturbed', Follows(v)', ~Mirrors(v)'
          PROVE  /\ Follows(v)
                 /\ file[flow[v].file].status # flow[v].state
                 /\ \A q \in Proc : Writes(q, v) => Writes(q, v)'
      <4>1. HasFlow(v) /\ flow[v].file # f /\ flow'[v] = flow[v]
        BY <3>2, <3>3 DEF Follows
      <4>2. Follows(v)
        BY <3>1, <3>2, <3>3, <4>1 DEF Follows, Alone
      <4>3. \A q \in Proc : Writes(q, v) => Writes(q, v)'
        BY <3>1 DEF Writes
      <4>. QED
        BY <3>1, <3>2, <3>3, <4>1, <4>2, <4>3 DEF Mirrors
    <3>. QED
      BY <3>1, <3>3, MirrorFrame
  <2>. QED
    BY <2>1, <2>2
<1>15. CASE UNCHANGED vars
  BY <1>15
     DEF vars, HasFlow, HasFile, StartsOwnFile, GoneWithFile, RollsMirror,
         StatusFollows, Alone, Follows, Mirrors, Writes
<1>. QED
  BY <1>1, <1>2, <1>3, <1>4, <1>5, <1>6, <1>7, <1>8, <1>9, <1>10, <1>11,
     <1>12, <1>13, <1>14, <1>15
     DEF Next, Handler

-----------------------------------------------------------------------------
(* The theorems.                                                           *)

\* Init establishes all three invariants.
LEMMA InitialState == Init => TypeInv /\ RollInv /\ MirrorInv
<1> SUFFICES ASSUME Init PROVE TypeInv /\ RollInv /\ MirrorInv
  OBVIOUS
<1> USE IdleType DEF Init, At, Starts, Rolls, HasFlow
<1>1. TypeOK
  <2>1. \A w \in Flow : steps[w] = <<>> /\ Len(steps[w]) = 0
    OBVIOUS
  <2>2. 0 <= MaxSteps
    BY ReviewConstants
  <2>3. steps \in [Flow -> Seq(Decision)] /\ \A w \in Flow : Len(steps[w]) <= MaxSteps
    BY <2>1, <2>2
  <2>4. \A f \in File : file[f] \in FileRow
    BY DEF FileRow, Status
  <2>5. Idle.file \in File
    BY DEF Request
  <2>6. \A w \in Flow : flow[w] \in FlowRow
    BY <2>5 DEF FlowRow
  <2>. QED
    BY <2>3, <2>4, <2>6 DEF TypeOK
<1>2. TypeInv
  BY <1>1
     DEF TypeInv, WorksOnMinted, NoStepsYet, StepsFit, OneStarter, RollsOutcome
<1>3. RollInv
  BY DEF RollInv, StartsBeforeRolls, RollsHaveSteps, RollsTellTrue, StateIsTold,
         NewsTravels
<1>4. MirrorInv
  BY DEF MirrorInv, StartsOwnFile, GoneWithFile, RollsMirror, StatusFollows,
         Follows
<1>. QED
  BY <1>2, <1>3, <1>4

\* The three hold in every reachable state.
LEMMA Invariants == Spec => [](TypeInv /\ RollInv /\ MirrorInv)
BY InitialState, TypeStep, RollStep, MirrorStep, PTL DEF Spec

\* Every variable keeps its type; no workflow has more steps than the limit.
THEOREM TypeCorrect == Spec => []TypeOK
<1>1. TypeInv => TypeOK
  BY DEF TypeInv
<1>. QED
  BY <1>1, Invariants, PTL

\* Reviewers who each decide once leave the workflow, when the last request
\* that works on it has ended, in the state their decisions add up to, in
\* whatever order decide_step's queries and updates interleaved.
THEOREM RollUpsConverge == Spec => []RollUpConverges
<1>1. ASSUME TypeInv, RollInv, NEW w \in Flow \ disturbed, HasFlow(w), AtRest(w)
      PROVE  flow[w].state = RollUp(w)
  <2>1. \A p \in Proc, s \in Outcome : ~Bears(p, w, s)
    BY <1>1 DEF AtRest, Bears, At
  <2>2. \A s \in Outcome : Tells(w, s) => flow[w].state = s
    BY <1>1, <2>1 DEF RollInv, NewsTravels
  <2>3. CASE SomeRejected(w)
    <3>1. flow[w].state = "Rejected"
      BY <2>2, <2>3 DEF Tells, Outcome
    <3>. QED
      BY <2>3, <3>1 DEF RollUp, SomeRejected
  <2>4. CASE ~SomeRejected(w) /\ EveryApproved(w)
    <3>1. flow[w].state = "Approved"
      BY <2>2, <2>4 DEF Tells, Outcome
    <3>2. {steps[w][i] : i \in DOMAIN steps[w]} = {"approved"}
      BY <2>4 DEF EveryApproved, AllApproved
    <3>. QED
      BY <3>1, <3>2 DEF RollUp
  <2>5. CASE ~SomeRejected(w) /\ ~EveryApproved(w)
    <3>1. flow[w].state = "Review"
      BY <1>1, <2>5 DEF RollInv, StateIsTold, Tells
    <3>2. "rejected" \notin {steps[w][i] : i \in DOMAIN steps[w]}
      BY <2>5 DEF SomeRejected
    <3>3. {steps[w][i] : i \in DOMAIN steps[w]} # {"approved"}
      BY <2>5 DEF EveryApproved, AllApproved
    <3>. QED
      BY <3>1, <3>2, <3>3 DEF RollUp
  <2>. QED
    BY <2>3, <2>4, <2>5
<1>2. TypeInv /\ RollInv => RollUpConverges
  BY <1>1 DEF RollUpConverges
<1>. QED
  BY <1>2, Invariants, PTL

\* While every step is decided once, a roll-up that read the decisions before
\* a rejection cannot overwrite it later: a rejected workflow stays rejected,
\* or goes with its file.
THEOREM RejectionsStand == Spec => RejectionStands
<1> DEFINE Stands == \A w \in Flow \ disturbed' :
          flow[w].state = "Rejected" => flow'[w].state \in {"Rejected", "gone"}
<1>1. ASSUME TypeInv, RollInv, [Next]_vars
      PROVE  Stands
  <2> SUFFICES ASSUME NEW w \in Flow \ disturbed', flow[w].state = "Rejected"
               PROVE  flow'[w].state \in {"Rejected", "gone"}
    OBVIOUS
  <2> USE <1>1
  <2>1. ASSUME NEW p \in Proc, NEW v \in Flow, NEW f \in File, NEW n \in 1..MaxSteps,
               StartFlow(p, v, f, n)
        PROVE  flow'[w] = flow[w]
    BY <2>1 DEF StartFlow, TypeInv, TypeOK
  <2>2. ASSUME NEW p \in Proc, RollFlow(p)
        PROVE  flow'[w].state \in {"Rejected", "gone"}
    <3> DEFINE u == req[p].flow
    <3>1. /\ At(p, "roll.flow") /\ UNCHANGED disturbed /\ u \in Flow
          /\ flow' = IF HasFlow(u) THEN [flow EXCEPT ![u].state = req[p].state] ELSE flow
      BY <2>2 DEF RollFlow, TypeInv, TypeOK, Request
    <3>2. CASE u = w
      <4>1. HasFlow(w) /\ Tells(w, "Rejected")
        BY <3>1 DEF RollInv, StateIsTold, HasFlow
      <4>2. Tells(w, req[p].state)
        BY <3>1, <3>2, <4>1 DEF RollInv, RollsTellTrue, At
      <4>3. req[p].state = "Rejected"
        BY <4>1, <4>2, OneOutcome
      <4>. QED
        BY <3>1, <3>2, <4>1, <4>3 DEF TypeInv, TypeOK, FlowRow
    <3>3. CASE u # w
      BY <3>1, <3>3 DEF TypeInv, TypeOK
    <3>. QED
      BY <3>2, <3>3
  <2>3. ASSUME NEW f \in File, Purge(f)
        PROVE  flow'[w].state \in {"Rejected", "gone"}
    BY <2>3 DEF Purge
  <2>4. CASE UNCHANGED flow
    BY <2>4
  <2>5. \/ UNCHANGED flow
        \/ \E p \in Proc, v \in Flow, f \in File, n \in 1..MaxSteps :
              StartFlow(p, v, f, n)
        \/ \E p \in Proc : RollFlow(p)
        \/ \E f \in File : Purge(f)
    BY DEF Next, Handler, StartStep, StartStatus, Decide, RollRejected,
           RollApproved, RollFile, PatchBegin, PatchCommit, Fail, Trash,
           Restore, vars
  <2>. QED
    BY <2>1, <2>2, <2>3, <2>4, <2>5
<1>2. TypeInv /\ RollInv /\ [Next]_vars => [Stands]_vars
  BY <1>1
<1>. QED
  BY <1>2, Invariants, PTL DEF Spec, RejectionStands

\* A file with one workflow whose status no PATCH has set shows that
\* workflow's state whenever no request is at work on it, be the file live or
\* in the trash.
THEOREM StatusesMirror == Spec => []StatusMirrors
<1>1. ASSUME MirrorInv, NEW w \in Flow \ disturbed, HasFlow(w), AtRest(w),
             flow[w].file \notin patched, Alone(w)
      PROVE  file[flow[w].file].status = flow[w].state
  <2>1. \A p \in Proc : ~Writes(p, w)
    BY <1>1 DEF AtRest, Writes, Starts
  <2>2. Mirrors(w)
    BY <1>1 DEF MirrorInv, StatusFollows, Follows
  <2>. QED
    BY <2>1, <2>2 DEF Mirrors
<1>2. MirrorInv => StatusMirrors
  BY <1>1 DEF StatusMirrors, Alone
<1>. QED
  BY <1>2, Invariants, PTL

-----------------------------------------------------------------------------
(* Review implements AtomicReview.                                         *)

\* A step that changes neither workflow nor decision is invisible.
LEMMA QuietStep ==
    ASSUME UNCHANGED <<flow, steps, disturbed>>
    PROVE  [Promise!Next]_<<StateOf, steps, disturbed>>
<1>1. StateOf' = StateOf
  BY DEF StateOf
<1>. QED
  BY <1>1

\* Nothing is promised of a workflow that is, or is now, disturbed.
LEMMA SpoilStep ==
    ASSUME NEW w \in Flow, disturbed' = disturbed \cup {w},
           \A v \in Flow \ {w} : flow'[v] = flow[v] /\ steps'[v] = steps[v]
    PROVE  [Promise!Next]_<<StateOf, steps, disturbed>>
<1>1. \A v \in Flow \ {w} : StateOf'[v] = StateOf[v]
  BY DEF StateOf
<1>2. Promise!Spoil(w)
  BY <1>1 DEF Promise!Spoil
<1>. QED
  BY <1>2 DEF Promise!Next

\* A roll-up writes what the decisions add up to at that moment.
LEMMA RollSettles ==
    ASSUME TypeInv, RollInv, NEW p \in Proc, RollFlow(p)
    PROVE  [Promise!Next]_<<StateOf, steps, disturbed>>
<1> DEFINE w == req[p].flow
           s == req[p].state
<1>1. /\ At(p, "roll.flow") /\ UNCHANGED <<steps, disturbed>> /\ w \in Flow
      /\ flow' = IF HasFlow(w) THEN [flow EXCEPT ![w].state = s] ELSE flow
  BY DEF RollFlow, TypeInv, TypeOK, Request
<1>2. CASE ~HasFlow(w)
  BY <1>1, <1>2, QuietStep
<1>3. CASE HasFlow(w) /\ w \in disturbed
  <2>1. \A v \in Flow \ {w} : flow'[v] = flow[v]
    BY <1>1, <1>3 DEF TypeInv, TypeOK
  <2>. QED
    BY <1>1, <1>3, <2>1, SpoilStep
<1>4. CASE HasFlow(w) /\ w \notin disturbed
  <2>1. s \in Outcome /\ Tells(w, s)
    BY <1>1, <1>4 DEF TypeInv, RollsOutcome, RollInv, RollsTellTrue, At
  <2>2. Promise!AddUp(steps[w], s)
    BY <2>1 DEF Tells, SomeRejected, EveryApproved, AllApproved, Promise!AddUp
  <2>3. StateOf' = [StateOf EXCEPT ![w] = s]
    BY <1>1, <1>4 DEF TypeInv, TypeOK, FlowRow, StateOf
  <2>4. StateOf[w] \notin {"none", "gone"}
    BY <1>1, <1>4 DEF StateOf, HasFlow
  <2>5. Promise!Settle(w, s)
    BY <1>1, <2>2, <2>3, <2>4 DEF Promise!Settle
  <2>. QED
    BY <1>1, <2>1, <2>5 DEF Promise!Next, Outcome
<1>. QED
  BY <1>2, <1>3, <1>4

LEMMA StepRefines ==
    ASSUME TypeInv, RollInv, [Next]_vars
    PROVE  [Promise!Next]_<<StateOf, steps, disturbed>>
<1> DEFINE Refined == [Promise!Next]_<<StateOf, steps, disturbed>>
<1>a. TypeOK /\ \A q \in Proc : req[q].flow \in Flow
  BY DEF TypeInv, TypeOK, Request
<1>b. ASSUME UNCHANGED <<flow, steps, disturbed>> PROVE Refined
  BY <1>b, QuietStep
<1>1. ASSUME NEW p \in Proc, NEW w \in Flow, NEW f \in File, NEW n \in 1..MaxSteps,
             StartFlow(p, w, f, n)
      PROVE  Refined
  <2>1. StateOf[w] = "none" /\ StateOf' = [StateOf EXCEPT ![w] = "Review"]
    BY <1>a, <1>1 DEF StartFlow, StateOf, TypeOK
  <2>2. Promise!Begin(w)
    BY <1>1, <2>1 DEF StartFlow, Promise!Begin
  <2>. QED
    BY <2>2 DEF Promise!Next
<1>2. ASSUME NEW p \in Proc, StartStep(p)
      PROVE  Refined
  <2> DEFINE w == req[p].flow
  <2>1. /\ At(p, "start.step") /\ HasFlow(w) /\ w \in Flow /\ UNCHANGED <<flow, disturbed>>
        /\ steps' = [steps EXCEPT ![w] = Append(@, "pending")]
    BY <1>a, <1>2 DEF StartStep
  <2>2. CASE w \in disturbed
    <3>1. \A v \in Flow \ {w} : steps'[v] = steps[v]
      BY <1>a, <2>1 DEF TypeOK
    <3>. QED
      BY <2>1, <2>2, <3>1, SpoilStep
  <2>3. CASE w \notin disturbed
    <3>1. flow[w].state = "Review"
      BY <2>1, <2>3 DEF RollInv, StartsBeforeRolls, Starts, At
    <3>2. StateOf' = StateOf /\ StateOf[w] = "Review"
      BY <2>1, <3>1 DEF StateOf
    <3>3. Promise!Ask(w)
      BY <2>1, <3>2 DEF Promise!Ask
    <3>. QED
      BY <2>1, <3>3 DEF Promise!Next
  <2>. QED
    BY <2>2, <2>3
<1>3. ASSUME NEW p \in Proc, NEW w \in Flow, NEW i \in 1..MaxSteps, NEW d \in Verdict,
             Decide(p, w, i, d)
      PROVE  Refined
  <2>1. /\ HasFlow(w) /\ i \in DOMAIN steps[w] /\ UNCHANGED flow
        /\ steps' = [steps EXCEPT ![w][i] = d]
        /\ \/ disturbed' = disturbed \cup {w}
           \/ UNCHANGED disturbed /\ steps[w][i] \in {"pending", d}
    BY <1>3 DEF Decide
  <2>2. CASE disturbed' = disturbed \cup {w}
    <3>1. \A v \in Flow \ {w} : steps'[v] = steps[v]
      BY <1>a, <2>1 DEF TypeOK
    <3>. QED
      BY <2>1, <2>2, <3>1, SpoilStep
  <2>3. CASE UNCHANGED disturbed /\ steps[w][i] \in {"pending", d}
    <3>1. StateOf' = StateOf /\ StateOf[w] \notin {"none", "gone"}
      BY <2>1 DEF StateOf, HasFlow
    <3>2. Promise!Decide(w, i, d)
      BY <2>1, <2>3, <3>1 DEF Promise!Decide
    <3>. QED
      BY <2>1, <3>2 DEF Promise!Next, Verdict
  <2>. QED
    BY <2>1, <2>2, <2>3
<1>4. ASSUME NEW p \in Proc, RollFlow(p)
      PROVE  Refined
  BY <1>4, RollSettles
<1>5. ASSUME NEW p \in Proc, Fail(p)
      PROVE  Refined
  <2>1. /\ UNCHANGED <<flow, steps>> /\ req[p].flow \in Flow
        /\ UNCHANGED disturbed \/ disturbed' = disturbed \cup {req[p].flow}
    BY <1>a, <1>5 DEF Fail
  <2>2. CASE UNCHANGED disturbed
    BY <1>b, <2>1, <2>2
  <2>3. CASE disturbed' = disturbed \cup {req[p].flow}
    BY <2>1, <2>3, SpoilStep
  <2>. QED
    BY <2>1, <2>2, <2>3
<1>6. ASSUME NEW f \in File, Purge(f)
      PROVE  Refined
  <2> DEFINE W == {w \in Flow : HasFlow(w) /\ flow[w].file = f}
  <2>1. /\ UNCHANGED disturbed
        /\ steps' = [w \in Flow |-> IF w \in W THEN <<>> ELSE steps[w]]
        /\ \A w \in Flow : flow'[w] = IF w \in W THEN [flow[w] EXCEPT !.state = "gone"]
                                      ELSE flow[w]
    BY <1>6 DEF Purge
  <2>2. W \in SUBSET Flow /\ \A w \in W : StateOf[w] \notin {"none", "gone"}
    BY DEF StateOf, HasFlow
  <2> HIDE DEF W
  <2>3. \A w \in Flow : flow'[w].state = IF w \in W THEN "gone" ELSE flow[w].state
    BY <1>a, <2>1 DEF TypeOK, FlowRow
  <2>4. StateOf' = [w \in Flow |-> IF w \in W THEN "gone" ELSE StateOf[w]]
    BY <2>3 DEF StateOf
  <2>5. Promise!Close(W)
    BY <2>1, <2>2, <2>4 DEF Promise!Close
  <2>. QED
    BY <2>2, <2>5 DEF Promise!Next
<1>7. \/ UNCHANGED <<flow, steps, disturbed>>
      \/ \E p \in Proc, w \in Flow, f \in File, n \in 1..MaxSteps : StartFlow(p, w, f, n)
      \/ \E p \in Proc : StartStep(p) \/ RollFlow(p) \/ Fail(p)
      \/ \E p \in Proc, w \in Flow, i \in 1..MaxSteps, d \in Verdict : Decide(p, w, i, d)
      \/ \E f \in File : Purge(f)
  BY DEF Next, Handler, StartStatus, RollRejected, RollApproved, RollFile,
         PatchBegin, PatchCommit, Trash, Restore, vars
<1> HIDE DEF Refined
<1>. QED
  BY <1>b, <1>1, <1>2, <1>3, <1>4, <1>5, <1>6, <1>7 DEF Refined

\* Review implements AtomicReview: although decide_step writes a decision, asks two
\* queries and updates the workflow with no transaction around them (p1.rs:374-419),
\* and any number of its requests overlap, a workflow that was not spoiled only ever
\* gets the outcome its decisions add up to when it is written.
THEOREM ReviewsLookAtomic == Spec => ImplementsReview
<1>1. ASSUME Init PROVE Promise!Init
  <2>1. StateOf = [w \in Flow |-> "none"]
    BY <1>1 DEF Init, StateOf
  <2>. QED
    BY <1>1, <2>1 DEF Init, Promise!Init
<1>2. ASSUME TypeInv, RollInv, [Next]_vars
      PROVE  [Promise!Next]_<<StateOf, steps, disturbed>>
  BY <1>2, StepRefines
<1>. QED
  BY <1>1, <1>2, Invariants, PTL DEF Spec, ImplementsReview, Promise!Spec

=============================================================================
