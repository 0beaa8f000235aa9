------------------------------ MODULE BuildPlans ------------------------------
(***************************************************************************)
(* What one worker makes of a project and what the controller makes of     *)
(* that: detect_plan of services/build_controller chooses how to build,    *)
(* the worker reports, and the controller checks the report.  The two ends *)
(* are separate programs that must agree: what is sent and not accepted is *)
(* sent again, then given up, and takes the build with it.                 *)
(***************************************************************************)
EXTENDS Naturals, FiniteSets

CONSTANTS
  LineLimit,  \* characters redact leaves of a line, and bytes the controller
              \* takes of one with its timestamp (4096, for both)
  Prefix,     \* characters, and bytes, of the timestamp of a line (25)
  Stamp,      \* of the one Kubernetes puts before it (31)
  Lengths,    \* characters of a line a tool prints
  Widths,     \* bytes of each of them in UTF-8 (1..4)
  Counts,     \* how many lines are written to the log
  KeptLines,  \* how many the log keeps (1000)
  MaxLines,   \* values of BUILD_MAX_LOG_LINES (1..2000, 1000 by default)
  TailLines,  \* lines of the log an event carries (50)
  Evidence    \* bytes of them the control plane takes (of 32 kB)

PlansAssumption ==
  /\ LineLimit \in Nat /\ Prefix \in Nat \ {0} /\ Stamp \in Nat /\ Stamp + Prefix <= LineLimit
  /\ Lengths \subseteq Nat /\ Widths \subseteq Nat \ {0} /\ Counts \subseteq Nat \ {0}
  /\ KeptLines \in Nat \ {0} /\ MaxLines \subseteq Nat \ {0}
  /\ TailLines \in Nat /\ Evidence \in Nat

Managers == {"npm", "pnpm", "yarn"}

VARIABLES
  project,  \* the checked out source root, and the workload of its service
  pc,       \* of the build: "detect", "build", "submit", "fail", "observe",
            \* "event", "done"
  plan,     \* the plan: its type, artifact kind and package manager
  result,   \* what is sent: its lines are alike, each with text of the tools
            \* behind a head of timestamps
  answer,   \* the status of the controller's answer
  event     \* the status of the control plane's answer to the controller's event

planVars == <<project, pc, plan, result, answer, event>>

Projects ==
  [workload : {"web", "static"}, dockerfile : BOOLEAN, index : BOOLEAN,
   package : {"none", "invalid", "object"}, scripts : SUBSET {"start", "build"},
   declared : Managers \cup {"", "other"}, locks : SUBSET Managers,
   output : BOOLEAN,       \* whether the tools succeed and leave what is asked for
   chars : Lengths, width : Widths, printed : Counts,
   allowed : MaxLines]     \* what the controller it meets is set to

NoPlan == [type |-> "none", kind |-> "none", manager |-> "none"]
NoResult == [status |-> "none", plan |-> NoPlan, head |-> 0, text |-> 0, lines |-> 0]

PlansInit ==
  /\ project \in {p \in Projects : p.package # "object" => p.scripts = {} /\ p.declared = ""}
  /\ pc = "detect" /\ plan = NoPlan /\ result = NoResult /\ answer = 0 /\ event = 0

---------------------------------------------------------------------------

Plan(t, k, m) == [type |-> t, kind |-> k, manager |-> m]

\* Mutant: the declared manager is taken for granted.
AsDeclared(p) == IF p.declared # "" THEN {p.declared} ELSE IF Cardinality(p.locks) = 1 THEN p.locks ELSE {}

\* Mutant: without a declared manager the first lockfile, or npm, will do.
AnyManager(p) ==
  IF p.declared # "" THEN IF p.declared \in p.locks THEN {p.declared} ELSE {}
  ELSE {IF "pnpm" \in p.locks THEN "pnpm" ELSE IF "yarn" \in p.locks THEN "yarn" ELSE "npm"}

\* _package_manager: the manager, if there is one.
PackageManager(p) ==
  IF p.declared # "" THEN p.locks \cap {p.declared}
  ELSE IF Cardinality(p.locks) = 1 THEN p.locks ELSE {}

\* detect_plan: the plan, or none for an unsupported project.  A package.json
\* that is there has to be valid and to have one manager, also when a static
\* project does without its build.
DetectPlan(p) ==
  IF p.dockerfile
  THEN IF p.workload = "web" THEN {Plan("dockerfile_web", "oci", "none")} ELSE {}
  ELSE IF p.package = "invalid" \/ (p.package = "object" /\ PackageManager(p) = {}) THEN {}
  ELSE IF p.workload = "web"
  THEN {Plan("node_web", "oci", m) :
          m \in IF p.package = "object" /\ "start" \in p.scripts THEN PackageManager(p) ELSE {}}
  ELSE IF p.package = "object" /\ "build" \in p.scripts
  THEN {Plan("node_static", "static", m) : m \in PackageManager(p)}
  ELSE IF p.index THEN {Plan("plain_static", "static", "none")} ELSE {}

AtMost(n, limit) == IF n > limit THEN limit ELSE n

\* Mutant: what is cut is the line with its timestamp.
CutWhole(chars) == AtMost(chars, LineLimit - Prefix)

\* redact, as BuildLog.write calls it: the text is cut, in characters, before
\* the timestamp is put in front of it.
Cut(chars) == AtMost(chars, LineLimit)

\* Mutant: characters are taken for bytes.
CharsOf(r) == r.head + r.text

\* The bytes of a line, as the controller and the control plane count them.
Written(r) == r.head + project.width * r.text

Report(s, p, head, text, lines) ==
  [status |-> s, plan |-> p, head |-> head, text |-> text, lines |-> lines]

\* An unsupported project has a log of the worker's own lines, which are short.
Detect ==
  /\ pc = "detect"
  /\ \/ \E q \in DetectPlan(project) : plan' = q /\ pc' = "build" /\ UNCHANGED result
     \/ DetectPlan(project) = {} /\ pc' = "submit" /\ UNCHANGED plan
        /\ result' = Report("failed", NoPlan, Prefix, 0, AtMost(project.printed, KeptLines))
  /\ UNCHANGED <<project, answer, event>>

\* _build: the tools' output becomes lines of the log, also when they fail.
BuildProject ==
  /\ pc = "build" /\ pc' = "submit"
  /\ result' = Report(IF project.output THEN "completed" ELSE "failed",
                      IF project.output THEN plan ELSE NoPlan,
                      Prefix, Cut(project.chars), AtMost(project.printed, KeptLines))
  /\ UNCHANGED <<project, plan, answer, event>>

\* WorkerResult.parse: the kind a plan makes, and the lines.
KindOf == [dockerfile_web |-> "oci", node_web |-> "oci",
           plain_static |-> "static", node_static |-> "static"]
Parses(r) ==
  /\ r.lines <= project.allowed /\ Written(r) \in 1..LineLimit
  /\ r.status = "completed" => r.plan.type \in DOMAIN KindOf /\ KindOf[r.plan.type] = r.plan.kind

\* Mutant: the generated site is forgotten.
ExpectedPlain(workload) ==
  IF workload = "web" THEN {"dockerfile_web", "node_web"} ELSE {"plain_static"}

\* accept_result: the plans of a workload.
Expected(workload) ==
  IF workload = "web" THEN {"dockerfile_web", "node_web"} ELSE {"plain_static", "node_static"}

\* The worker sends, the handler parses and then compares.  A report that is
\* refused is sent again as it is, and given up.
SubmitReport ==
  /\ pc = "submit"
  /\ answer' = IF ~Parses(result) THEN 422
               ELSE IF result.status = "completed"
                       /\ result.plan.type \notin Expected(project.workload) THEN 409
               ELSE 202
  /\ pc' = IF answer' = 202 THEN "event" ELSE IF result.status = "completed" THEN "fail" ELSE "observe"
  /\ UNCHANGED <<project, plan, result, event>>

\* run: a completed report nobody took becomes a failed one, of the same log and
\* a line more.  A failed one that nobody took ends the pod.
ReportFailure ==
  /\ pc = "fail" /\ pc' = "submit"
  /\ result' = Report("failed", NoPlan, result.head, result.text, AtMost(result.lines + 1, KeptLines))
  /\ UNCHANGED <<project, plan, answer, event>>

\* Mutant: the whole log goes with the event.
TailWhole(lines) == lines

\* The end of the log, in every event.
LogTail(lines) == AtMost(lines, TailLines)

\* _observe_job and _fail_without_result: of a failed job, whose pods end alike,
\* the end of the pod's log stands in for the report, each line cut again with
\* both timestamps.  Some of the last lines are a traceback's, which are short;
\* all of them are gone with the pod, or when the job has been removed.
ObserveJob ==
  /\ pc = "observe" /\ pc' = "event"
  /\ \E k \in 0..LogTail(result.lines) :
       result' = Report("failed", NoPlan, Stamp + Prefix,
                        AtMost(result.text, LineLimit - (Stamp + Prefix)), k)
  /\ UNCHANGED <<project, plan, answer, event>>

\* validate_completed! and validate_failed!.  An event that is refused is made
\* again, from the job if there was no report; of a report it stays the same.
SendEvent ==
  /\ pc = "event"
  /\ event' = IF Written(result) * LogTail(result.lines) > Evidence THEN 422 ELSE 200
  /\ pc' = IF event' = 422 /\ answer # 202 THEN "observe" ELSE "done"
  /\ UNCHANGED <<project, plan, result, answer>>

PlansNext ==
  Detect \/ BuildProject \/ SubmitReport \/ ReportFailure \/ ObserveJob \/ SendEvent

PlansSpec == PlansInit /\ [][PlansNext]_planVars

---------------------------------------------------------------------------
(* Properties                                                              *)

\* The variables have their types.
PlansTypeOK ==
  /\ project \in Projects
  /\ pc \in {"detect", "build", "submit", "fail", "observe", "event", "done"}
  /\ plan.kind \in {"none", "oci", "static"} /\ plan.manager \in Managers \cup {"none"}
  /\ result.status \in {"none", "completed", "failed"} /\ answer \in {0, 202, 409, 422}
  /\ event \in {0, 200, 422}

\* What is installed is what the project locked: a plan that installs packages
\* has the lockfile of its manager, and the only one unless the project says
\* which; and a plan makes what the service is to serve.
PlanIsUnambiguous ==
  plan # NoPlan =>
    /\ plan.manager # "none" =>
         /\ plan.manager \in project.locks
         /\ project.locks = {plan.manager} \/ project.declared = plan.manager
    /\ plan.kind = "static" <=> project.workload = "static"

\* Whether there is an artifact to report.
Builds(p) == p.output /\ DetectPlan(p) # {}

\* A line as long as it was printed, timestamp and all, has no more bytes than
\* the controller takes: the cut saves none that is longer.
LineFits(p) == Prefix + p.width * p.chars <= LineLimit

\* There are no more lines than it takes.
LogFits(p) == AtMost(p.printed, KeptLines) <= p.allowed

\* The most an event of the project's own report carries.
EndFits(p) == AtMost(p.printed, TailLines) * (Prefix + p.width * p.chars) <= Evidence

\* The two ends agree on the plans, and a build is told to have succeeded just
\* when there is an artifact and the log fits, to the byte and to the line: what
\* is built of a project that prints more is reported as a failure.
OutcomeIsOfBuild ==
  /\ answer # 409
  /\ pc = "done" => (result.status = "completed" <=>
                       Builds(project) /\ LineFits(project) /\ LogFits(project))

\* The control plane takes the event the controller makes of a report whose last
\* lines fit; one that is refused is refused for ever, and the build does not end.
EventIsAccepted == pc = "done" /\ event # 200 => answer = 202 /\ ~EndFits(project)

\* All of it.
ReportsAccepted == PlansTypeOK /\ PlanIsUnambiguous /\ OutcomeIsOfBuild /\ EventIsAccepted

\* A report the contract allows is accepted: lines of at most LineLimit
\* characters, and no more of them than the log keeps
\* (contracts/provider/v1/build-controller.schema.json, log_lines).  It is not, when
\* these are wider than a byte.
ContractReportIsAccepted ==
  pc = "fail" /\ result.head + result.text <= LineLimit /\ result.lines <= KeptLines => answer # 422

---------------------------------------------------------------------------
(* What the properties rest on                                             *)

\* A build that is told to have succeeded.
Outcome(p) == Builds(p) /\ LineFits(p) /\ LogFits(p)

\* The log of a first report is of the project: the tools' lines or, of an
\* unsupported project, the worker's.
LogOf(r) ==
  /\ r.head = Prefix /\ r.lines = AtMost(project.printed, KeptLines)
  /\ \/ r.text = Cut(project.chars)
     \/ r.text = 0 /\ DetectPlan(project) = {}

\* A log the controller refuses, which a line more does not make smaller.
TooLarge(r) ==
  /\ r.head = Prefix /\ r.text \in Nat /\ r.lines \in Nat /\ r.lines <= KeptLines
  /\ Written(r) > LineLimit \/ r.lines > project.allowed

\* What is reported first is what was built.
FirstReport ==
  pc = "submit" /\ answer = 0 =>
    /\ LogOf(result) /\ result.status \in {"completed", "failed"}
    /\ result.status = "completed" <=> Builds(project)
    /\ result.status = "completed" => result.plan \in DetectPlan(project)

\* What is refused is refused for its size, and stays so.
GivenUp ==
  pc = "fail" \/ (pc = "submit" /\ answer # 0) =>
    /\ answer = 422 /\ TooLarge(result) /\ ~Outcome(project)
    /\ pc = "submit" => result.status = "failed"

\* What is seen from outside is a failure.
FromOutside ==
  pc = "observe" \/ (pc = "event" /\ answer # 202) =>
    answer = 422 /\ result.status = "failed" /\ ~Outcome(project)

\* What is accepted is the first report.
Accepted ==
  pc = "event" /\ answer = 202 =>
    LogOf(result) /\ (result.status = "completed" <=> Outcome(project))

PlansInv ==
  /\ PlansTypeOK
  /\ plan = NoPlan \/ plan \in DetectPlan(project)
  /\ pc = "detect" => plan = NoPlan /\ answer = 0
  /\ pc = "build" => plan \in DetectPlan(project) /\ answer = 0
  /\ FirstReport /\ GivenUp /\ FromOutside /\ Accepted
  /\ OutcomeIsOfBuild /\ EventIsAccepted
================================================================================
