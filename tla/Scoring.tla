------------------------------- MODULE Scoring -------------------------------
(***************************************************************************)
(* Deterministic scoring of one pull request: the analyzers over the files *)
(* and the check runs of its head, their weighted means under a policy,    *)
(* and the runs a synchronization creates, or finds made of the same       *)
(* inputs (app/analysis).  The delivery holds the lock of the pull         *)
(* request, so a synchronization is one step (Ingestion has the lock).     *)
(*                                                                         *)
(* Scores are hundredths of a point and confidences ten-thousandths, as    *)
(* the columns are; weights are hundredths.  A head is named by its files, *)
(* and a check run by its status: its id and the wording of evidence,      *)
(* which the hash of the inputs also covers, are left out.                 *)
(***************************************************************************)
EXTENDS Integers, FiniteSets, FiniteSetsExt

CONSTANTS
  Snapshots,        \* sets of file records, the heads that may be pushed
  OverLimit,        \* those over GitHub's limit of files
  CheckRuns,        \* names of check runs
  Recognized,       \* [CheckRuns -> the analyzers whose terms the name holds]
  Tools,            \* isolated tools that support every language
  ToolCategory,     \* [Tools -> category]
  ScoringPolicies,  \* payloads a maintainer may put
  PolicyOf,         \* [ScoringPolicies -> weights, analyzers, required, minimum]
  DefaultScoring,   \* default-v1
  MaxMoves,         \* bound: pushes, reports and changes of policy
  MaxRuns           \* bound: analysis runs

CheckAnalyzers == {"lint_results", "complexity_delta", "duplication_delta",
  "function_size_delta", "security_scanner_findings", "ci_check_status"}
FileAnalyzers == {"diff_size_concentration", "test_file_changes",
  "documentation_changes", "dependency_changes"}
Suite == CheckAnalyzers \cup FileAnalyzers \cup Tools

Categories == {"correctness", "tests", "maintainability", "security",
               "documentation", "architecture", "change_risk"}
CategoryOf(a) ==
  CASE a \in Tools -> ToolCategory[a]
    [] a \in {"lint_results", "ci_check_status"} -> "correctness"
    [] a = "security_scanner_findings" -> "security"
    [] a = "test_file_changes" -> "tests"
    [] a = "documentation_changes" -> "documentation"
    [] a = "dependency_changes" -> "architecture"
    [] a = "diff_size_concentration" -> "change_risk"
    [] OTHER -> "maintainability"

File == [name : STRING, traits : SUBSET {"code", "test", "docs", "manifest", "lock"},
         additions : Nat, deletions : Nat]
ASSUME FilesAssumption ==
  \A files \in Snapshots : files \subseteq File /\ IsFiniteSet(files)

CheckStatus == {"pending", "passed", "failed"}   \* pending, or not reported
ToolStatus == {"passed", "failed", "unusable"}

VARIABLES
  remote,           \* GitHub: the head, and the status of each check run on it
  prRow,            \* the pull request's head, and the key of its latest score
  scoringPolicy,    \* the repository's policy
  runs,             \* [run keys -> analysis run]
  moves

scoringVars == <<remote, prRow, scoringPolicy, runs, moves>>

Reports == [CheckRuns -> CheckStatus]
RunKey == [head : Snapshots, reports : Reports, policy : ScoringPolicies,
           checks : {"complete", "failed", "limit", "files over limit"}]
Full == 10000     \* 100 points, or a confidence of 1
ScoreRow == [score : 0..Full, confidence : 0..Full, authoritative : BOOLEAN]

NoReports == [c \in CheckRuns |-> "pending"]

-----------------------------------------------------------------------------
(* Analyzers                                                               *)

Lesser(a, b) == IF a <= b THEN a ELSE b
Greater(a, b) == IF a >= b THEN a ELSE b

Quantize(n, d) == (2 * n + d) \div (2 * d)   \* of n/d, half up

Available(score, confidence) ==
  [available |-> TRUE, score |-> score, confidence |-> confidence]
(* UNAVAILABLE, INCONCLUSIVE and ERROR alike: no score, no confidence.     *)
NoResult == [available |-> FALSE, score |-> 0, confidence |-> 0]

With(files, trait) == {f \in files : trait \in f.traits}
Added(files) == SumFunction([f \in files |-> f.additions])
Deleted(files) == SumFunction([f \in files |-> f.deletions])

DiffSize(files) ==
  LET total == Added(files) + Deleted(files)
      largest == Max({0} \cup {f.additions + f.deletions : f \in files})
      volume == CASE total <= 50 -> 9500 [] total <= 200 -> 8500
                  [] total <= 500 -> 7000 [] total <= 1000 -> 5000
                  [] total <= 2500 -> 3000 [] OTHER -> 1500
      concentration == CASE 5 * largest > 4 * total -> 3000
                         [] 2 * largest > total -> 1500 [] OTHER -> 0
      breadth == IF Cardinality(files) > 50 THEN 1000 ELSE 0
  IN Available(Greater(0, volume - concentration - breadth), 9800)

TestFileChanges(files) ==
  LET code == With(files, "code")  tests == With(files, "test")
      c == Greater(1, Added(code \ tests))
      t == Greater(1, Added(tests))
      ratio == Lesser(35 * c * t, 50 * Added(tests) * t)
      deleted == Lesser(20 * c * t, 20 * Deleted(tests) * c)
  IN CASE code = {} -> NoResult
       [] tests = {} -> Available(2000, 9000)
       [] OTHER -> Available(
            Lesser(9500, Quantize(100 * (55 * c * t + ratio - deleted), c * t)), 9000)

DocumentationChanges(files) ==
  Available(CASE With(files, "docs") # {} ->
                   IF With(files, "code") = {} THEN 9500 ELSE 8500
              [] With(files, "code") # {} -> 4500
              [] OTHER -> 7500, 8500)

DependencyChanges(files) ==
  LET manifests == With(files, "manifest")  all == manifests \cup With(files, "lock")
  IN Available(IF all = {} THEN 9200
               ELSE Greater(3500, 7800 - 1200 * Cardinality(manifests)
                                       - Lesser(2000, 10 * Added(all))), 9000)

Completed(named, reports) == {c \in named : reports[c] \in {"passed", "failed"}}
(* The mutant forgets the 20 points of a check that failed. *)
CheckScoreFromZero(passed, completed) == Quantize(7500 * passed, completed)
CheckScore(passed, completed) == Quantize(2000 * completed + 7500 * passed, completed)
ScoreChecks(named, reports) ==
  LET completed == Completed(named, reports)
      passed == {c \in completed : reports[c] = "passed"}
  IN IF completed = {} THEN NoResult
     ELSE Available(CheckScore(Cardinality(passed), Cardinality(completed)), 9500)

IsolatedTool(status) ==
  CASE status = "passed" -> Available(10000, 9000)
    [] status = "failed" -> Available(3500, 8500)
    [] OTHER -> NoResult

Matching(a) == IF a = "ci_check_status" THEN CheckRuns
               ELSE {c \in CheckRuns : a \in Recognized[c]}

Analyse(a, files, reports, tools) ==
  CASE a \in Tools -> IsolatedTool(tools[a])
    [] a \in CheckAnalyzers -> ScoreChecks(Matching(a), reports)
    [] a = "diff_size_concentration" -> DiffSize(files)
    [] a = "test_file_changes" -> TestFileChanges(files)
    [] a = "documentation_changes" -> DocumentationChanges(files)
    [] OTHER -> DependencyChanges(files)

-----------------------------------------------------------------------------
(* Aggregation                                                             *)

AnalyzerWeights(policy) ==
  [a \in Suite |-> IF a \in DOMAIN policy.analyzers THEN policy.analyzers[a] ELSE 1]
AnalyzersOf == [c \in Categories |-> {a \in Suite : CategoryOf(a) = c}]
AvailableIn(results, c) == {a \in AnalyzersOf[c] : results[a].available}
ScoredCategories(results) == {c \in Categories : AvailableIn(results, c) # {}}

Weighed(measure, weights) == SumFunction([x \in DOMAIN measure |-> measure[x] * weights[x]])
WeightOf(weights, all) == SumFunctionOnSet(weights, all)
Mean(measure, weights) ==
  Quantize(Weighed(measure, weights), WeightOf(weights, DOMAIN measure))
CategoryMeans(policy, results) ==
  [c \in ScoredCategories(results) |->
     [score |-> Mean([a \in AvailableIn(results, c) |-> results[a].score],
                     AnalyzerWeights(policy)),
      confidence |-> Mean([a \in AvailableIn(results, c) |-> results[a].confidence],
                          AnalyzerWeights(policy))]]

AvailableWeight(policy, means) == WeightOf(policy.weights, DOMAIN means)
WeighedConfidence(policy, means) ==
  Weighed([c \in DOMAIN means |-> means[c].confidence], policy.weights)
WeighedScore(policy, means) ==
  Weighed([c \in DOMAIN means |-> means[c].score], policy.weights)

(* The mutant counts an unavailable category as a zero. *)
FinalScoreOfAll(policy, means) == Quantize(WeighedScore(policy, means), 100)
FinalScore(policy, means) ==
  Quantize(WeighedScore(policy, means), AvailableWeight(policy, means))

(* The mutant averages over what is available. *)
ConfidenceOfAvailable(policy, means) ==
  Quantize(WeighedConfidence(policy, means), AvailableWeight(policy, means))
Confidence(policy, means) == Quantize(WeighedConfidence(policy, means), 100)

Authoritative(policy, results, means, complete) ==
  /\ complete
  /\ \A a \in policy.required : a \in Suite /\ results[a].available
  /\ WeighedConfidence(policy, means) >= 100 * policy.minimum

(* The weights of default-v1. *)
DefaultWeights == [correctness |-> 30, tests |-> 20, maintainability |-> 15,
  security |-> 15, documentation |-> 5, architecture |-> 10, change_risk |-> 5]

(* The mutant lets a weight be negative. *)
WeightsAddUp(policy) ==
  WeightOf(policy.weights, Categories) = 100
ValidWeights(policy) == WeightsAddUp(policy) /\ \A c \in Categories : policy.weights[c] >= 0
ValidPolicy(policy) ==
  /\ ValidWeights(policy)
  /\ \A a \in DOMAIN policy.analyzers : policy.analyzers[a] > 0
  /\ policy.minimum \in 0..Full

ASSUME ScoringAssumption ==
  /\ IsFiniteSet(CheckRuns) /\ IsFiniteSet(Tools) /\ MaxMoves \in Nat
  /\ \A p \in ScoringPolicies :
       /\ PolicyOf[p].weights \in [Categories -> Int]
       /\ \A a \in DOMAIN PolicyOf[p].analyzers : PolicyOf[p].analyzers[a] \in Int
  /\ DefaultScoring \in ScoringPolicies /\ ValidPolicy(PolicyOf[DefaultScoring])
  /\ PolicyOf[DefaultScoring].weights = DefaultWeights

(* The names of isolated tools have a prefix of their own.                 *)
ASSUME ToolsAssumption == Tools \cap (CheckAnalyzers \cup FileAnalyzers) = {}

(* The score of a run; none where no category with a weight is available.  *)
Aggregate(policy, results, complete) ==
  LET means == CategoryMeans(policy, results)
  IN IF AvailableWeight(policy, means) = 0 THEN {}
     ELSE {[score |-> FinalScore(policy, means),
            confidence |-> Confidence(policy, means),
            authoritative |-> Authoritative(policy, results, means, complete)]}

-----------------------------------------------------------------------------
ScoringInit ==
  /\ \E files \in Snapshots : remote = [head |-> files, reports |-> NoReports]
  /\ prRow = [head |-> {}, latest |-> {}]
  /\ scoringPolicy = DefaultScoring
  /\ runs = <<>> /\ moves = 0

Move == moves < MaxMoves /\ moves' = moves + 1

Push(files) ==
  /\ files # remote.head
  /\ remote' = [head |-> files, reports |-> NoReports]
  /\ Move /\ UNCHANGED <<prRow, scoringPolicy, runs>>

ReportChecks(reports) ==
  /\ reports # remote.reports
  /\ remote' = [remote EXCEPT !.reports = reports]
  /\ Move /\ UNCHANGED <<prRow, scoringPolicy, runs>>

UpdateScoringPolicy(p) ==
  /\ p # scoringPolicy /\ ValidPolicy(PolicyOf[p])
  /\ scoringPolicy' = p
  /\ Move /\ UNCHANGED <<remote, prRow, runs>>

(* record_incomplete_scoring_run: the run holds no result. *)
RecordIncomplete ==
  LET key == [head |-> remote.head, reports |-> NoReports,
              policy |-> scoringPolicy, checks |-> "files over limit"]
  IN /\ remote.head \in OverLimit
     /\ \/ key \in DOMAIN runs /\ UNCHANGED runs
        \/ /\ key \notin DOMAIN runs /\ Cardinality(DOMAIN runs) < MaxRuns
           /\ runs' = [k \in DOMAIN runs \cup {key} |->
                IF k = key THEN [results |-> <<>>, score |-> {}] ELSE runs[k]]
     /\ prRow' = [head |-> remote.head, latest |-> {}]
     /\ UNCHANGED <<remote, scoringPolicy, moves>>

(* A run that scored becomes the latest, one that did not leaves it as it  *)
(* was.  The mutant leaves it when a run is reused, as well.               *)
LatestIfNew(key) ==
  IF key \in DOMAIN runs \/ runs'[key].score = {} THEN prRow.latest ELSE {key}
LatestAfter(key) == IF runs'[key].score = {} THEN prRow.latest ELSE {key}

(* execute_scoring_run; the run key covers the inputs and the policy, and  *)
(* not what the tools answer.                                              *)
ExecuteRun(checks, tools) ==
  LET seen == IF checks = "failed" THEN NoReports ELSE remote.reports
      key == [head |-> remote.head, reports |-> seen,
              policy |-> scoringPolicy, checks |-> checks]
      results == [a \in Suite |-> Analyse(a, remote.head, seen, tools)]
  IN /\ remote.head \notin OverLimit
     /\ \/ key \in DOMAIN runs /\ UNCHANGED runs
        \/ /\ key \notin DOMAIN runs /\ Cardinality(DOMAIN runs) < MaxRuns
           /\ runs' = [k \in DOMAIN runs \cup {key} |->
                IF k = key
                THEN [results |-> results,
                      score |-> Aggregate(PolicyOf[scoringPolicy], results,
                                          checks # "limit")]
                ELSE runs[k]]
     /\ prRow' = [head |-> remote.head, latest |-> LatestAfter(key)]
     /\ UNCHANGED <<remote, scoringPolicy, moves>>

ScoringNext ==
  \/ \E files \in Snapshots : Push(files)
  \/ \E reports \in Reports : ReportChecks(reports)
  \/ \E p \in ScoringPolicies : UpdateScoringPolicy(p)
  \/ RecordIncomplete
  \/ \E checks \in {"complete", "failed", "limit"}, tools \in [Tools -> ToolStatus] :
       ExecuteRun(checks, tools)

ScoringSpec == ScoringInit /\ [][ScoringNext]_scoringVars

-----------------------------------------------------------------------------
(* Properties                                                              *)

ScoringTypeOK ==
  /\ remote \in [head : Snapshots, reports : Reports]
  /\ prRow.head \in Snapshots \cup {{}} /\ prRow.latest \subseteq DOMAIN runs
  /\ scoringPolicy \in ScoringPolicies
  /\ moves \in 0..MaxMoves
  /\ \A k \in DOMAIN runs : k \in RunKey /\ runs[k].score \subseteq ScoreRow

ScoredRuns == {k \in DOMAIN runs : runs[k].score # {}}
FinalOf(k) == (CHOOSE s \in runs[k].score : TRUE).score
ConfidenceIn(k) == (CHOOSE s \in runs[k].score : TRUE).confidence
Counted(k) == {a \in Suite : runs[k].results[a].available}

(* What is missing is never a zero: whatever is unavailable, and whatever  *)
(* the weights, a score lies between the lowest and the highest result of  *)
(* the analyzers that count ("It is never converted into a zero").         *)
WithinEvidence ==
  \A k \in ScoredRuns :
    LET counted == {runs[k].results[a].score : a \in
          {a \in Counted(k) : PolicyOf[k.policy].weights[CategoryOf(a)] # 0}}
    IN FinalOf(k) \in Min(counted)..Max(counted)

(* Of two runs of one policy, the one whose categories are among those of  *)
(* the other, with the same confidence in each, is no more confident       *)
(* ("Unavailable categories ... reduce confidence").                       *)
MissingLowersConfidence ==
  \A j, k \in ScoredRuns :
    j.policy = k.policy =>
      LET lower == CategoryMeans(PolicyOf[k.policy], runs[j].results)
          upper == CategoryMeans(PolicyOf[k.policy], runs[k].results)
      IN (\A c \in DOMAIN lower :
            c \in DOMAIN upper /\ lower[c].confidence = upper[c].confidence)
         => ConfidenceIn(j) <= ConfidenceIn(k)

(* Under the default policy, of two runs of one head the one whose checks  *)
(* all did as well or better does not score less, as long as no isolated   *)
(* tool gives its 100: a new check that passed is worth 95, as much as any *)
(* file analyzer can give; one that failed and is gone was worth 20, and   *)
(* documentation and dependencies, on every head worth 35 at least,        *)
(* outweigh the size of the diff, the only category that can be worth less.*)
AsGood(old, new) == old = new \/ new = "passed" \/ old = "failed"
ChecksMoveScore ==
  \A j, k \in ScoredRuns :
    (/\ j.head = k.head /\ j.policy = DefaultScoring /\ k.policy = DefaultScoring
     /\ \A c \in CheckRuns : AsGood(j.reports[c], k.reports[c])
     /\ \A t \in Tools : /\ runs[j].results[t] = runs[k].results[t]
                         /\ runs[k].results[t].score # 10000)
    => FinalOf(j) <= FinalOf(k)

(* The latest score is that of the pull request's head, also when pushes   *)
(* return to a head scored before; a score of an older head is left only   *)
(* by a run that had nothing to score.                                     *)
LatestOfHead ==
  \A k \in prRow.latest :
    \/ k.head = prRow.head
    \/ \E r \in DOMAIN runs \ ScoredRuns : r.head = prRow.head
=============================================================================
