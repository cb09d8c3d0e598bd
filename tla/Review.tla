------------------------------- MODULE Review -------------------------------
(***************************************************************************)
(* Review workflows.  start_workflow inserts a workflow, one pending step  *)
(* per reviewer and moves the file to 'Review'; decide_step writes one      *)
(* step's decision, rolls the steps up into the workflow's state and       *)
(* mirrors it into files.status.  No handler holds a transaction, so       *)
(* reviewers who decide at the same time roll up each other's half-done    *)
(* work, and PATCH /files/:id writes the same status column.               *)
(*                                                                         *)
(* A step is named by its place in reviewer_ids; only its reviewer may     *)
(* decide it, again if need be.  Notifications are best effort and left    *)
(* out.                                                                    *)
(***************************************************************************)
EXTENDS Naturals, Sequences

CONSTANTS
    Flow,       \* workflow ids, never minted twice
    File,
    Proc,       \* concurrent requests
    MaxSteps    \* bound on the number of reviewers asked

ASSUME ReviewConstants ==
    /\ Flow # {} /\ File # {}
    /\ MaxSteps \in Nat \ {0}

VARIABLES
    file,       \* file[f]: the row's place and its status column
    flow,       \* flow[w]: the file_workflows row
    steps,      \* steps[w]: the decisions of its workflow_steps, by sequence
    req,        \* req[p]: the handler p is executing
    disturbed,  \* history: workflows cut short, re-decided or decided early
    patched     \* history: files whose status a PATCH changed

vars == <<file, flow, steps, req, disturbed, patched>>

-----------------------------------------------------------------------------
Verdict  == {"approved", "rejected"}
Decision == {"pending"} \cup Verdict
Outcome  == {"Approved", "Rejected"}
Status   == {"Draft", "Review"} \cup Outcome

FileRow == [place : {"live", "trash", "gone"}, status : Status]
FlowRow == [state : {"none", "gone", "Review"} \cup Outcome, file : File]

Control == {"idle", "start.step", "start.status", "roll.rejected",
            "roll.approved", "roll.flow", "roll.file", "patch.commit"}

\* asked: reviewers still to be given a step; rejected: the first roll-up
\* query's answer; state: the outcome, or the status a PATCH will write.
Request == [pc : Control, flow : Flow, file : File, asked : 0..MaxSteps,
            rejected : BOOLEAN, state : Status]

Idle == [pc |-> "idle", flow |-> CHOOSE w \in Flow : TRUE,
         file |-> CHOOSE f \in File : TRUE, asked |-> 0, rejected |-> FALSE,
         state |-> "Draft"]

TypeOK ==
    /\ file \in [File -> FileRow]
    /\ flow \in [Flow -> FlowRow]
    /\ steps \in [Flow -> Seq(Decision)]
    /\ \A w \in Flow : Len(steps[w]) <= MaxSteps
    /\ req \in [Proc -> Request]
    /\ disturbed \subseteq Flow
    /\ patched \subseteq File

Init ==
    /\ file = [f \in File |-> [place |-> "live", status |-> "Draft"]]
    /\ flow = [w \in Flow |-> [state |-> "none", file |-> Idle.file]]
    /\ steps = [w \in Flow |-> <<>>]
    /\ req = [p \in Proc |-> Idle]
    /\ disturbed = {}
    /\ patched = {}

HasFlow(w) == flow[w].state \notin {"none", "gone"}

HasFile(f) == file[f].place # "gone"

-----------------------------------------------------------------------------
At(p, pc) == req[p].pc = pc

Start(p, r) == At(p, "idle") /\ req' = [req EXCEPT ![p] = r]

Goto(p, pc) == req' = [req EXCEPT ![p].pc = pc]

Finish(p) == req' = [req EXCEPT ![p] = Idle]

\* A database error (an unknown reviewer id), a disconnect or a crash.
Fail(p) ==
    /\ ~At(p, "idle")
    /\ disturbed' = disturbed \cup {w \in {req[p].flow} : ~At(p, "patch.commit")}
    /\ Finish(p)
    /\ UNCHANGED <<file, flow, steps, patched>>

-----------------------------------------------------------------------------
(* POST /files/:id/workflow with n reviewers. *)

StartFlow(p, w, f, n) ==
    /\ file[f].place = "live"
    /\ flow[w].state = "none"
    /\ flow' = [flow EXCEPT ![w] = [state |-> "Review", file |-> f]]
    /\ Start(p, [Idle EXCEPT !.pc = "start.step", !.flow = w, !.file = f,
                   !.asked = n])
    /\ UNCHANGED <<file, steps, disturbed, patched>>

\* Mutant: the loop does not count the reviewers off.
StartStepTwice(p) ==
    LET w == req[p].flow IN
    /\ At(p, "start.step")
    /\ HasFlow(w)
    /\ Len(steps[w]) <= MaxSteps
    /\ steps' = [steps EXCEPT ![w] = Append(@, "pending")]
    /\ UNCHANGED <<file, flow, req, disturbed, patched>>

\* The foreign key refuses a step once the workflow went with its file.
StartStep(p) ==
    LET w == req[p].flow IN
    /\ At(p, "start.step")
    /\ HasFlow(w)
    /\ steps' = [steps EXCEPT ![w] = Append(@, "pending")]
    /\ req' = [req EXCEPT ![p].asked = @ - 1,
                 ![p].pc = IF req[p].asked = 1 THEN "start.status" ELSE "start.step"]
    /\ UNCHANGED <<file, flow, disturbed, patched>>

StartStatus(p) ==
    LET f == req[p].file IN
    /\ At(p, "start.status")
    /\ file' = IF HasFile(f) THEN [file EXCEPT ![f].status = "Review"] ELSE file
    /\ Finish(p)
    /\ UNCHANGED <<flow, steps, disturbed, patched>>

-----------------------------------------------------------------------------
(* POST /workflow-steps/:id/decision. *)

Starting(w) ==
    \E p \in Proc : req[p].flow = w /\ req[p].pc \in {"start.step", "start.status"}

\* Nothing asks whether the step, or the workflow, was decided before.
Decide(p, w, i, d) ==
    /\ HasFlow(w)
    /\ i \in DOMAIN steps[w]
    /\ disturbed' = IF Starting(w) \/ steps[w][i] \notin {"pending", d}
                    THEN disturbed \cup {w} ELSE disturbed
    /\ steps' = [steps EXCEPT ![w][i] = d]
    /\ Start(p, [Idle EXCEPT !.pc = "roll.rejected", !.flow = w])
    /\ UNCHANGED <<file, flow, patched>>

RollRejected(p) ==
    LET w == req[p].flow IN
    /\ At(p, "roll.rejected")
    /\ req' = [req EXCEPT ![p].pc = "roll.approved",
                 ![p].rejected = \E i \in DOMAIN steps[w] : steps[w][i] = "rejected"]
    /\ UNCHANGED <<file, flow, steps, disturbed, patched>>

\* Mutant: the second query asks only that no step is left pending.
NonePending(w) == \A i \in DOMAIN steps[w] : steps[w][i] # "pending"

AllApproved(w) == \A i \in DOMAIN steps[w] : steps[w][i] = "approved"

\* bool_and over no rows (the file was purged) is NULL: the handler fails.
RollApproved(p) ==
    LET w == req[p].flow IN
    /\ At(p, "roll.approved")
    /\ HasFlow(w)
    /\ \/ /\ req[p].rejected
          /\ req' = [req EXCEPT ![p].pc = "roll.flow", ![p].state = "Rejected",
                       ![p].rejected = FALSE]
       \/ /\ ~req[p].rejected /\ AllApproved(w)
          /\ req' = [req EXCEPT ![p].pc = "roll.flow", ![p].state = "Approved"]
       \/ /\ ~req[p].rejected /\ ~AllApproved(w)
          /\ Finish(p)
    /\ UNCHANGED <<file, flow, steps, disturbed, patched>>

RollFlow(p) ==
    LET w == req[p].flow IN
    /\ At(p, "roll.flow")
    /\ flow' = IF HasFlow(w) THEN [flow EXCEPT ![w].state = req[p].state] ELSE flow
    /\ Goto(p, "roll.file")
    /\ UNCHANGED <<file, steps, disturbed, patched>>

\* Mutant: the mirror skips files that a reviewer has moved to the trash.
RollFileLive(p) ==
    LET f == flow[req[p].flow].file IN
    /\ At(p, "roll.file")
    /\ file' = IF HasFlow(req[p].flow) /\ file[f].place = "live"
               THEN [file EXCEPT ![f].status = req[p].state] ELSE file
    /\ Finish(p)
    /\ UNCHANGED <<flow, steps, disturbed, patched>>

\* What follows reads created_by, a TEXT column, as a UUID: the request ends
\* in an error with everything above committed and no creator notified.
RollFile(p) ==
    LET f == flow[req[p].flow].file IN
    /\ At(p, "roll.file")
    /\ file' = IF HasFlow(req[p].flow)
               THEN [file EXCEPT ![f].status = req[p].state] ELSE file
    /\ Finish(p)
    /\ UNCHANGED <<flow, steps, disturbed, patched>>

-----------------------------------------------------------------------------
(* PATCH /files/:id: status is s, or the one its SELECT returned.  Bytes,  *)
(* names and the purge itself are in FileStore.                            *)

PatchBegin(p, f, s) ==
    /\ file[f].place = "live"
    /\ Start(p, [Idle EXCEPT !.pc = "patch.commit", !.file = f, !.state = s])
    /\ UNCHANGED <<file, flow, steps, disturbed, patched>>

PatchCommit(p) ==
    LET f == req[p].file
        changes == HasFile(f) /\ file[f].status # req[p].state
    IN /\ At(p, "patch.commit")
       /\ file' = IF changes THEN [file EXCEPT ![f].status = req[p].state] ELSE file
       /\ patched' = IF changes THEN patched \cup {f} ELSE patched
       /\ Finish(p)
       /\ UNCHANGED <<flow, steps, disturbed>>

Trash(f) ==
    /\ file[f].place = "live"
    /\ file' = [file EXCEPT ![f].place = "trash"]
    /\ UNCHANGED <<flow, steps, req, disturbed, patched>>

Restore(f) ==
    /\ file[f].place = "trash"
    /\ file' = [file EXCEPT ![f].place = "live"]
    /\ UNCHANGED <<flow, steps, req, disturbed, patched>>

\* ON DELETE CASCADE takes the workflows and their steps.
Purge(f) ==
    LET its == {w \in Flow : HasFlow(w) /\ flow[w].file = f} IN
    /\ HasFile(f)
    /\ file' = [file EXCEPT ![f].place = "gone"]
    /\ flow' = [w \in Flow |-> IF w \in its THEN [flow[w] EXCEPT !.state = "gone"]
                               ELSE flow[w]]
    /\ steps' = [w \in Flow |-> IF w \in its THEN <<>> ELSE steps[w]]
    /\ UNCHANGED <<req, disturbed, patched>>

-----------------------------------------------------------------------------
Handler(p) ==
    \/ \E w \in Flow, f \in File, n \in 1..MaxSteps : StartFlow(p, w, f, n)
    \/ StartStep(p)
    \/ StartStatus(p)
    \/ \E w \in Flow, i \in 1..MaxSteps, d \in Verdict : Decide(p, w, i, d)
    \/ RollRejected(p)
    \/ RollApproved(p)
    \/ RollFlow(p)
    \/ RollFile(p)
    \/ \E f \in File, s \in Status : PatchBegin(p, f, s)
    \/ PatchCommit(p)
    \/ Fail(p)

Next ==
    \/ \E p \in Proc : Handler(p)
    \/ \E f \in File : Trash(f) \/ Restore(f) \/ Purge(f)

Spec == Init /\ [][Next]_vars

-----------------------------------------------------------------------------
(* Properties. *)

RollUp(w) ==
    CASE "rejected" \in {steps[w][i] : i \in DOMAIN steps[w]}   -> "Rejected"
      [] {steps[w][i] : i \in DOMAIN steps[w]} = {"approved"}   -> "Approved"
      [] OTHER                                                  -> "Review"

AtRest(w) ==
    \A p \in Proc : req[p].pc \in {"idle", "patch.commit"} \/ req[p].flow # w

\* Reviewers who each decide once, however their requests overlap, leave the
\* workflow in the state their decisions add up to: the last of the roll-ups
\* sees every decision, and no earlier one can undo it.
RollUpConverges ==
    \A w \in Flow \ disturbed :
        HasFlow(w) /\ AtRest(w) => flow[w].state = RollUp(w)

\* A rejection is overturned only by deciding again.
RejectionStands ==
    [][\A w \in Flow \ disturbed' :
          flow[w].state = "Rejected" => flow'[w].state \in {"Rejected", "gone"}]_vars

\* However the two roll-up queries and the UPDATE of decide_step overlap, in
\* whatever number of requests (p1.rs:374-419), the roll-up looks atomic: a workflow
\* gets no outcome but the one its decisions add up to when it is written, and keeps
\* it until its file is purged.
StateOf == [w \in Flow |-> flow[w].state]

Promise == INSTANCE AtomicReview WITH
    state <- StateOf, decisions <- steps, spoiled <- disturbed

ImplementsReview == Promise!Spec

\* The status column of a file with one workflow, that no PATCH has touched,
\* follows that workflow.
StatusMirrors ==
    \A w \in Flow \ disturbed :
        /\ HasFlow(w) /\ AtRest(w)
        /\ flow[w].file \notin patched
        /\ \A v \in Flow \ {w} : HasFlow(v) => flow[v].file # flow[w].file
        => file[flow[w].file].status = flow[w].state

=============================================================================
