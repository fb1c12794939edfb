--------------------------- MODULE AgentCampaign ---------------------------
(* The scripts that run a campaign of phases with two coding agents:         *)
(* scripts/agent_campaign.py walks the steps of a manifest, for each of them  *)
(* starts scripts/agent_pipeline.py, which implements, verifies, reviews and  *)
(* commits in a worktree that scripts/agent_worktree.py creates and removes.  *)
(* What survives a killed process is git and the report directories: the      *)
(* campaign branch, the branch and worktree of each phase, its report.        *)
EXTENDS Integers, Sequences

CONSTANTS
    Steps,        \* the manifest: the phases in order, each with its max_repairs
    Tasks,        \* the task file of each phase
    Files,        \* the paths of the files a phase may touch
    HandRepairs,  \* what the operator gives as --max-repairs
    MaxStarts,    \* bound: what the operator does in one behaviour
    None          \* no branch, no worktree, no declared phase, no answer

Phases == {Steps[i].phase : i \in DOMAIN Steps}

(* A path is a sequence of names; a pattern is a path or, when it ends in /**,
   a directory with all it holds. *)
Patterns == [path : Seq(STRING), deep : BOOLEAN]

(* What the sections of a task file hold: bullets and commands. *)
TaskFiles == [declared : Phases \union {None},
              allowed : SUBSET Patterns, forbidden : SUBSET Patterns,
              targeted : Nat, full : Nat]

ASSUME StepsAssumption ==
    Steps \in Seq([phase : Phases, repairs : Nat]) /\ Steps # << >>
ASSUME TasksAssumption == Tasks \in [Phases -> TaskFiles]
ASSUME BoundsAssumption == HandRepairs \subseteq 0 .. 10 /\ MaxStarts \in Nat

VARIABLES
    trunk,    \* the commits of phases on the campaign branch, oldest first
    branch,   \* agent/<phase>: None, or where it forked and what it holds
    tree,     \* .agent-worktrees/<phase>: None, or the files it has changed
    report,   \* .agent/reports/<phase>: absent, no final result, or its status
    campaign, \* the campaign process and the step it is at
    pipe,     \* the pipeline process
    clean,    \* git status in the repository prints nothing
    starts    \* how many things the operator has done

campaignVars == <<trunk, branch, tree, report, campaign, pipe, clean, starts>>

git == <<trunk, branch, tree, report>>
hand == <<clean, starts>>

Commits == [phase : Phases, files : SUBSET Files]
Branches == [base : Nat, commit : {None} \union Commits]
Idle == [at |-> "idle", step |-> 1]
NoRun == [at |-> "idle", phase |-> Steps[1].phase, repairs |-> 0, limit |-> 0, keep |-> FALSE]

CampaignInit ==
    /\ trunk = << >>
    /\ branch = [p \in Phases |-> None]
    /\ tree = [p \in Phases |-> None]
    /\ report = [p \in Phases |-> "absent"]
    /\ campaign = Idle
    /\ pipe = NoRun
    /\ clean = TRUE
    /\ starts = 0

-----------------------------------------------------------------------------
(* Git                                                                       *)

Merged(c) == \E i \in DOMAIN trunk : trunk[i] = c

(* git merge-base --is-ancestor agent/<phase> HEAD: a branch without a commit
   of its own points at a commit of the campaign branch. *)
AncestorOfHead(b) == b.commit = None \/ Merged(b.commit)

(* phase_already_applied *)
Applied(p) == branch[p] # None /\ AncestorOfHead(branch[p])

(* git merge --ff-only: HEAD has not moved since the branch was forked. *)
FastForward(b) == b.base = Len(trunk)

(* Mutant: a report of any finished run is archived. *)
ArchivableWhenFinished(r) == r \in {"absent", "FAIL", "PASS"}

(* A failed report is archived and the phase tried again; an absent one is
   no obstacle; any other stops the campaign. *)
Archivable(r) == r \in {"absent", "FAIL"}

-----------------------------------------------------------------------------
(* agent_campaign.py                                                         *)

Goto(at) == pipe' = [pipe EXCEPT !.at = at]

(* The process prints why and exits; the operator may start it again. *)
CampaignFails == campaign' = [campaign EXCEPT !.at = "failed"]

(* main: the working tree must be clean, before and after git switch. *)
StartCampaign ==
    /\ campaign.at # "running" /\ pipe.at = "idle"
    /\ starts < MaxStarts
    /\ starts' = starts + 1
    /\ \/ clean /\ campaign' = [at |-> "running", step |-> 1]
       \/ ~clean /\ CampaignFails
    /\ UNCHANGED <<git, pipe, clean>>

CurrentPhase == Steps[campaign.step].phase

AtStep == campaign.at = "running" /\ pipe.at = "idle" /\ campaign.step <= Len(Steps)

(* run_step: a phase contained in the campaign branch is skipped. *)
SkipStep ==
    /\ AtStep /\ Applied(CurrentPhase)
    /\ campaign' = [campaign EXCEPT !.step = @ + 1]
    /\ UNCHANGED <<git, pipe, hand>>

(* run_step: an unmerged branch or a report that is not a failure stops it. *)
RefuseStep ==
    /\ AtStep /\ ~Applied(CurrentPhase)
    /\ branch[CurrentPhase] # None \/ ~Archivable(report[CurrentPhase])
    /\ CampaignFails
    /\ UNCHANGED <<git, pipe, hand>>

(* run_step: the failed report goes to .failed/ and the pipeline starts. *)
LaunchStep ==
    /\ AtStep /\ branch[CurrentPhase] = None /\ Archivable(report[CurrentPhase])
    /\ report' = [report EXCEPT ![CurrentPhase] = "absent"]
    /\ pipe' = [NoRun EXCEPT !.at = "verify", !.phase = CurrentPhase,
                            !.limit = Steps[campaign.step].repairs]
    /\ UNCHANGED <<trunk, branch, tree, campaign, hand>>

(* run_step after the pipeline: return code, branch, merge --ff-only, clean. *)
MergeStep ==
    /\ campaign.at = "running" /\ pipe.at = "done"
    /\ pipe' = NoRun
    /\ LET b == branch[pipe.phase]
       IN  IF b # None /\ FastForward(b)
             THEN /\ trunk' = IF b.commit = None THEN trunk ELSE Append(trunk, b.commit)
                  /\ \/ clean /\ campaign' = [campaign EXCEPT !.step = @ + 1]
                     \/ CampaignFails
             ELSE trunk' = trunk /\ CampaignFails
    /\ UNCHANGED <<branch, tree, report, hand>>

PhaseFailed ==
    /\ campaign.at = "running" /\ pipe.at = "failed"
    /\ CampaignFails /\ pipe' = NoRun
    /\ UNCHANGED <<git, hand>>

FinishCampaign ==
    /\ campaign.at = "running" /\ pipe.at = "idle" /\ campaign.step > Len(Steps)
    /\ campaign' = [campaign EXCEPT !.at = "passed"]
    /\ UNCHANGED <<git, pipe, hand>>

-----------------------------------------------------------------------------
(* agent_pipeline.py. A command that fails or times out raises; before the
   context exists nothing is cleaned up, afterwards Fail and Cleanup run.    *)

NoContext == Goto("failed") /\ UNCHANGED <<git, campaign, hand>>

CommandRaises == Goto("fail") /\ UNCHANGED <<git, campaign, hand>>

(* run_process: a command ends with code 0 or another, or it raises, because
   it is late or not on the PATH. *)
Outcomes == {"passed", "failed", "raised"}

(* parse_task: the phase it declares, some pattern, some full verification. *)
TaskParses(p) ==
    /\ Tasks[p].declared \in {None, p}
    /\ Tasks[p].allowed # {}
    /\ Tasks[p].full > 0

(* run_pipeline before build_context: the required files, commands and Python
   are there, the base is clean, the task is committed and parses. *)
Verify ==
    /\ pipe.at = "verify"
    /\ \/ NoContext
       \/ /\ clean /\ TaskParses(pipe.phase)
          /\ Goto("create")
          /\ UNCHANGED <<git, campaign, hand>>

(* build_plan: the branch forks from the head of the campaign branch. *)
Plan == [base |-> Len(trunk), commit |-> None]

(* agent_worktree.py --create: the base is clean, and neither the branch nor
   the worktree is there. *)
Available(p) == clean /\ branch[p] = None /\ tree[p] = None

(* create_worktree. A git that is late is an error although the branch may be
   there. *)
CreateWorktree ==
    /\ pipe.at = "create"
    /\ \/ NoContext
       \/ /\ report[pipe.phase] = "absent" /\ Available(pipe.phase)
          /\ branch' = [branch EXCEPT ![pipe.phase] = Plan]
          /\ tree' = [tree EXCEPT ![pipe.phase] = [files |-> {}]]
          /\ Goto("link") \/ Goto("failed")
          /\ UNCHANGED <<trunk, report, campaign, hand>>

(* ensure_worktree_python and the report directory: failing here leaves the
   new branch and worktree behind. *)
LinkPython ==
    /\ pipe.at = "link"
    /\ \/ NoContext
       \/ /\ report' = [report EXCEPT ![pipe.phase] = "open"]
          /\ Goto("codex")
          /\ UNCHANGED <<trunk, branch, tree, campaign, hand>>

BuildContext == CreateWorktree \/ LinkPython

Worktree == tree[pipe.phase]

Rewrite(files) == tree' = [tree EXCEPT ![pipe.phase] = [files |-> files]]

(* run_codex: the implementer, or the repairer, leaves any files changed. *)
RunCodex ==
    /\ pipe.at = "codex"
    /\ \E files \in SUBSET Files, outcome \in Outcomes :
         /\ Rewrite(files)
         /\ Goto(IF outcome = "passed" THEN "gate" ELSE "fail")
    /\ UNCHANGED <<trunk, branch, report, campaign, hand>>

(* matches_pattern *)
Matches(file, pattern) ==
    \/ file = pattern.path
    \/ /\ pattern.deep /\ Len(pattern.path) < Len(file)
       /\ SubSeq(file, 1, Len(pattern.path)) = pattern.path

(* The files a task allows and does not forbid. *)
Allowed(p) ==
    {file \in Files : /\ \E pattern \in Tasks[p].allowed : Matches(file, pattern)
                      /\ ~\E pattern \in Tasks[p].forbidden : Matches(file, pattern)}

(* enforce_file_scope *)
InScope(files) == files \subseteq Allowed(pipe.phase)

MayRepair == pipe.repairs < pipe.limit

(* Mutant: the repairs are not counted. *)
RepairUncounted == IF MayRepair THEN Goto("codex") ELSE Goto("fail")

(* A FAIL verdict, the reviewer's or the synthetic one: repair or give up. *)
RepairOrGiveUp ==
    IF MayRepair THEN pipe' = [pipe EXCEPT !.at = "codex", !.repairs = @ + 1] ELSE Goto("fail")

(* run_quality_gate: the commands may write files; their scope is enforced
   after the last of them, whether it passed or not. One that is late ends the
   run although repairs may be left. *)
QualityGate ==
    /\ pipe.at = "gate"
    /\ \E files \in SUBSET Files, outcome \in Outcomes :
         /\ Rewrite(files)
         /\ \/ outcome = "raised" /\ Goto("fail")
            \/ outcome = "passed" /\ InScope(files) /\ Goto("review")
            \/ /\ outcome = "failed" \/ (outcome = "passed" /\ ~InScope(files))
               /\ RepairOrGiveUp
    /\ UNCHANGED <<trunk, branch, report, campaign, hand>>

(* Mutant: the reviewer's changes to the worktree are not looked for. *)
ReviewAcceptedBlindly(before, after) == TRUE

(* The names of the changed files after the review, and before it. *)
ReviewAccepted(before, after) == before = after

(* extract_json_object: the reviewer's answer; None when it holds no object
   with the fields of a review. Grave findings are blockers and high ones. *)
Answers == {None} \union [verdict : {"PASS", "FAIL", "other"}, grave : BOOLEAN, actions : BOOLEAN]

(* validate_review *)
ReviewValid(answer) ==
    /\ answer # None
    /\ \/ answer.verdict = "PASS" /\ ~answer.grave
       \/ answer.verdict = "FAIL" /\ answer.actions

(* run_claude_review: git status must print the same names before and after. *)
Review ==
    /\ pipe.at = "review"
    /\ \E files \in SUBSET Files, outcome \in Outcomes, answer \in Answers :
         /\ Rewrite(files)
         /\ IF outcome = "passed" /\ ReviewAccepted(Worktree.files, files) /\ ReviewValid(answer)
              THEN IF answer.verdict = "PASS" THEN Goto("commit") ELSE RepairOrGiveUp
              ELSE Goto("fail")
    /\ UNCHANGED <<trunk, branch, report, campaign, hand>>

(* commit_success: git add -A and git commit, which refuses an empty change;
   reading the hash back may fail after the commit was made. *)
Commit ==
    /\ pipe.at = "commit"
    /\ \/ CommandRaises
       \/ /\ Worktree.files # {}
          /\ branch' = [branch EXCEPT ![pipe.phase].commit =
                           [phase |-> pipe.phase, files |-> Worktree.files]]
          /\ tree' = [tree EXCEPT ![pipe.phase] = [files |-> {}]]
          /\ Goto("remove") \/ Goto("fail")
          /\ UNCHANGED <<trunk, report, campaign, hand>>

(* remove_success_worktree: the prune may fail after the removal. *)
RemoveWorktree ==
    /\ pipe.at = "remove"
    /\ \/ CommandRaises
       \/ /\ tree' = [tree EXCEPT ![pipe.phase] = None]
          /\ Goto("result") \/ Goto("fail")
          /\ UNCHANGED <<trunk, branch, report, campaign, hand>>

WriteResult ==
    /\ pipe.at = "result"
    /\ \/ CommandRaises
       \/ /\ report' = [report EXCEPT ![pipe.phase] = "PASS"]
          /\ Goto("done")
          /\ UNCHANGED <<trunk, branch, tree, campaign, hand>>

(* except Exception: the final result says FAIL, then the cleanup. *)
Fail ==
    /\ pipe.at = "fail"
    /\ report' = [report EXCEPT ![pipe.phase] = "FAIL"]
    /\ Goto(IF pipe.keep THEN "failed" ELSE "cleanup")
    /\ UNCHANGED <<trunk, branch, tree, campaign, hand>>

(* cleanup_worktree: it refuses at the Python link, stops after the worktree, or
   removes both; unforced, git branch -d keeps a branch that is not merged. *)
CleanUp(p, force) ==
    \/ UNCHANGED <<branch, tree>>
    \/ /\ tree' = [tree EXCEPT ![p] = None]
       /\ \/ UNCHANGED branch
          \/ (force \/ Applied(p)) /\ branch' = [branch EXCEPT ![p] = None]

(* cleanup_failure: the return code is only recorded. *)
Cleanup ==
    /\ pipe.at = "cleanup"
    /\ Goto("failed")
    /\ CleanUp(pipe.phase, TRUE)
    /\ UNCHANGED <<trunk, report, campaign, hand>>

(* A pipeline started by hand prints its result and ends. *)
EndByHand ==
    /\ campaign.at # "running" /\ pipe.at \in {"done", "failed"}
    /\ pipe' = NoRun
    /\ UNCHANGED <<git, campaign, hand>>

-----------------------------------------------------------------------------
(* The operator, and what stops the processes                                *)

(* agent_pipeline.py --run by hand, perhaps with --keep-failed-worktree. *)
RunByHand(p) ==
    /\ campaign.at # "running" /\ pipe.at = "idle"
    /\ starts < MaxStarts
    /\ starts' = starts + 1
    /\ \E keep \in BOOLEAN, limit \in HandRepairs :
         pipe' = [at |-> "verify", phase |-> p, repairs |-> 0, limit |-> limit, keep |-> keep]
    /\ UNCHANGED <<git, campaign, clean>>

(* agent_worktree.py --cleanup by hand: the worktree goes even unforced. *)
CleanupByHand(p) ==
    /\ campaign.at # "running" /\ pipe.at = "idle"
    /\ starts < MaxStarts
    /\ starts' = starts + 1
    /\ \E force \in BOOLEAN : CleanUp(p, force)
    /\ UNCHANGED <<trunk, report, campaign, pipe, clean>>

(* The operator changes a file of the repository, or puts it back, whatever is
   running there. *)
Edit ==
    /\ starts < MaxStarts
    /\ starts' = starts + 1
    /\ clean' = ~clean
    /\ UNCHANGED <<git, campaign, pipe>>

(* The terminal is closed or interrupted: no handler catches it. *)
Killed ==
    /\ campaign.at = "running" \/ pipe.at # "idle"
    /\ campaign' = [campaign EXCEPT !.at = IF @ = "running" THEN "idle" ELSE @]
    /\ pipe' = NoRun
    /\ UNCHANGED <<git, hand>>

-----------------------------------------------------------------------------
PipelineStep ==
    \/ Verify \/ BuildContext \/ RunCodex \/ QualityGate \/ Review
    \/ Commit \/ RemoveWorktree \/ WriteResult \/ Fail \/ Cleanup \/ EndByHand

CampaignStep ==
    \/ SkipStep \/ RefuseStep \/ LaunchStep \/ MergeStep \/ PhaseFailed \/ FinishCampaign

CampaignNext ==
    \/ PipelineStep \/ CampaignStep
    \/ StartCampaign \/ Edit \/ Killed
    \/ \E p \in Phases : RunByHand(p) \/ CleanupByHand(p)

(* Both processes go on: every command of the pipeline has a timeout, so that *)
(* it ends and the campaign, which waits for it, goes on.  The campaign's own *)
(* git commands have none and are taken to end. *)
CampaignSpec == CampaignInit /\ [][CampaignNext]_campaignVars /\ WF_campaignVars(PipelineStep \/ CampaignStep)

-----------------------------------------------------------------------------
Places == {"idle", "verify", "create", "link", "codex", "gate", "review", "commit", "remove",
           "result", "fail", "cleanup", "done", "failed"}

(* Every variable keeps its type. *)
TypeOK ==
    /\ trunk \in Seq(Commits)
    /\ branch \in [Phases -> {None} \union Branches]
    /\ tree \in [Phases -> {None} \union [files : SUBSET Files]]
    /\ report \in [Phases -> {"absent", "open", "FAIL", "PASS"}]
    /\ campaign \in [at : {"idle", "running", "failed", "passed"}, step : Nat \ {0}]
    /\ pipe \in [at : Places, phase : Phases, repairs : Nat, limit : Nat, keep : BOOLEAN]
    /\ clean \in BOOLEAN
    /\ starts \in 0 .. MaxStarts

(* Every commit on the campaign branch changes only files its task allows:
   the implementer, the gate's commands, the reviewer and every repair can
   touch any file, and the scope is enforced in the gate alone, before the
   review and before git add -A. *)
TrunkInScope == \A i \in DOMAIN trunk : trunk[i].files \subseteq Allowed(trunk[i].phase)

(* No phase is committed twice to the campaign branch, however often campaign
   and pipeline are killed and started again and whatever branches the operator
   cleans up: a cleaned branch no longer tells that its phase was merged. *)
OncePerPhase == \A i, j \in DOMAIN trunk : trunk[i].phase = trunk[j].phase => i = j

(* A campaign that runs comes to its end: it passes, fails or is killed. *)
CampaignEnds == campaign.at = "running" ~> campaign.at # "running"

=============================================================================
