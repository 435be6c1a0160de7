--------------------------------- MODULE Tasks ---------------------------------
(***************************************************************************)
(* `cargo xtask`: a task is a plan of steps, each of which runs a program,  *)
(* and the steps that keep files: the development certificate, which the    *)
(* server and the client's digest are built from, and the downloaded code   *)
(* map viewer.  Both are made again when they are older than a week, by the *)
(* time of one file; what a step leaves behind when it fails stays.         *)
(***************************************************************************)
EXTENDS Naturals, Sequences

CONSTANTS
  FreshDays,    \* 7: the age up to which a file is not made again
  MaxDays,      \* bound of the model: ages are not told apart beyond it
  Missing       \* programs that may be missing

ASSUME TasksAssumption == FreshDays \in Nat /\ MaxDays \in Nat /\ FreshDays < MaxDays

Programs ==
  {"cargo", "trunk", "docker", "mkdir", "curl", "python3", "ansible-galaxy",
   "ansible-playbook", "kubectl", "echo"}

ExecStep(program) == [program |-> program, makes |-> "nothing", ignoreFailure |-> FALSE]
Making(program, file) == [ExecStep(program) EXCEPT !.makes = file]
IgnoreFailure(s) == [s EXCEPT !.ignoreFailure = TRUE]

VARIABLES
  installed,    \* programs that can be started
  certificate,  \* server.pem: its age, and whether key.pem and digest.txt belong to it
  viewer,       \* index.html of the viewer: its age, and whether it is complete
  task, plan,   \* the task that runs and its steps to come
  success,      \* the exit code of the last one
  sinceCert     \* history: days since a cert task was successful

files == <<certificate, viewer>>
tasks == <<installed, files, task, plan, success, sinceCert>>

NoFile == MaxDays + 1
Ages == 0..NoFile

TasksInit ==
  /\ \E away \in SUBSET Missing : installed = Programs \ away
  /\ certificate = [age |-> NoFile, key |-> FALSE, digest |-> FALSE]
  /\ viewer = [age |-> NoFile, whole |-> FALSE]
  /\ task = "none" /\ plan = <<>> /\ success = TRUE /\ sinceCert = NoFile

\* The file does not exist, or is older than a week.
Stale(file) == file.age = NoFile \/ file.age > FreshDays

CertPlan(force) ==
  IF force \/ Stale(certificate) THEN <<Making("cargo", "certificate")>>
  ELSE <<ExecStep("echo")>>

MapPlan(checkOnly) ==
  (IF Stale(viewer) THEN <<ExecStep("mkdir"), Making("curl", "viewer")>> ELSE <<>>)
    \o (IF checkOnly THEN <<>> ELSE <<ExecStep("python3")>>)

InfraApplyPlan ==
  <<ExecStep("mkdir"), ExecStep("ansible-galaxy"), ExecStep("ansible-playbook")>>
InfraCheckPlan == Append(InfraApplyPlan, IgnoreFailure(ExecStep("kubectl")))

CheckPlan == [i \in 1..3 |-> ExecStep("cargo")]
DockerBuildPlans == {<<ExecStep("docker")>>, <<ExecStep("docker"), ExecStep("docker")>>}

\* build, test, web, server, client and tools run one program; what is not implemented
\* yet - entropy, status, the smoke tests and the validations - only says so.
OneStepPlans == {<<ExecStep(p)>> : p \in {"cargo", "trunk", "echo"}}

OtherPlans ==
  {MapPlan(TRUE), MapPlan(FALSE), InfraApplyPlan, InfraCheckPlan, CheckPlan}
    \cup DockerBuildPlans \cup OneStepPlans

\* An empty plan is a success.
Start(t, steps) ==
  /\ task = "none"
  /\ task' = IF steps = <<>> THEN "none" ELSE t
  /\ plan' = steps /\ success' = TRUE
  /\ UNCHANGED <<installed, files, sinceCert>>

Ends(ok) ==
  /\ task' = "none" /\ plan' = <<>> /\ success' = ok
  /\ sinceCert' = IF ok /\ task = "cert" THEN 0 ELSE sinceCert

Continue ==
  IF Len(plan) = 1 THEN Ends(TRUE)
  ELSE plan' = Tail(plan) /\ UNCHANGED <<task, success, sinceCert>>

Running == task # "none"
CanRun == Running /\ Head(plan).program \in installed

StepSucceeds ==
  /\ CanRun
  /\ certificate' = IF Head(plan).makes = "certificate"
                    THEN [age |-> 0, key |-> TRUE, digest |-> TRUE] ELSE certificate
  /\ viewer' = IF Head(plan).makes = "viewer" THEN [age |-> 0, whole |-> TRUE] ELSE viewer
  /\ Continue
  /\ UNCHANGED installed

\* What a failing step may have done: generate_cert writes the certificate, the key
\* and the digest in this order; a download may be cut short.
HalfMade(file) ==
  \/ UNCHANGED files
  \/ /\ file = "certificate"
     /\ \E key \in BOOLEAN : certificate' = [age |-> 0, key |-> key, digest |-> FALSE]
     /\ UNCHANGED viewer
  \/ /\ file = "viewer"
     /\ viewer' = [age |-> 0, whole |-> FALSE]
     /\ UNCHANGED certificate

\* The first failure ends the task, unless the step ignores it.
StepFails ==
  /\ CanRun
  /\ HalfMade(Head(plan).makes)
  /\ IF Head(plan).ignoreFailure THEN Continue ELSE Ends(FALSE)
  /\ UNCHANGED installed

\* A program that cannot be started fails the task, whatever the step ignores.
CannotStart ==
  /\ Running /\ ~CanRun
  /\ Ends(FALSE)
  /\ UNCHANGED <<installed, files>>

Older(age) == IF age >= MaxDays THEN age ELSE age + 1
DayPasses ==
  /\ ~Running
  /\ certificate' = [certificate EXCEPT !.age = Older(@)]
  /\ viewer' = [viewer EXCEPT !.age = Older(@)]
  /\ sinceCert' = Older(sinceCert)
  /\ UNCHANGED <<installed, task, plan, success>>

TasksNext ==
  \/ \E force \in BOOLEAN : Start("cert", CertPlan(force))
  \/ \E steps \in OtherPlans : Start("other", steps)
  \/ StepSucceeds \/ StepFails \/ CannotStart \/ DayPasses

TasksSpec == TasksInit /\ [][TasksNext]_tasks

-----------------------------------------------------------------------------
TasksTypeOK ==
  /\ installed \subseteq Programs
  /\ certificate \in [age : Ages, key : BOOLEAN, digest : BOOLEAN]
  /\ viewer \in [age : Ages, whole : BOOLEAN]
  /\ task \in {"none", "cert", "other"} /\ success \in BOOLEAN
  /\ sinceCert \in Ages

\* "The script regenerates after 7" of the 13 days of validity: as long as a cert task
\* was successful within the last six days the certificate has not expired, however many
\* generations failed half-way before or after it.
CertificateLasts ==
  sinceCert < MaxDays - FreshDays => certificate.age <= FreshDays + sinceCert
=============================================================================
