----------------------------- MODULE MCDeliveries -----------------------------
(* Deliveries, the files they store and the scoring they end in, for TLC: in *)
(* every behaviour one of the three moves and the others stay as they began. *)
EXTENDS MCIngestion, Scoring, Files

FileOf(name, traits, additions, deletions) ==
  [name |-> name, traits |-> traits, additions |-> additions, deletions |-> deletions]
Tested == {FileOf("a.py", {"code"}, 30, 5), FileOf("test_a.py", {"code", "test"}, 7, 3)}
OneBig == {FileOf("big.py", {"code"}, 2600, 0), FileOf("package.json", {"manifest"}, 45, 0)}
Documented == {FileOf("docs/a.md", {"docs"}, 40, 0)}
TooMany == {FileOf("data", {}, 3000, 0)}
FourHeads == {Tested, OneBig, Documented, TooMany}
OneOversized == {TooMany}
LintAndSecurity == [lint |-> {"lint_results"}, codeql |-> {"security_scanner_findings"}]
SecurityTool == [semgrep |-> "security"]

(* The default policy; one that weighs nothing but the checks; and one that *)
(* adds up to 100 and yet is refused.                                       *)
ThreeScorings ==
  [balanced |-> [weights |-> DefaultWeights, analyzers |-> <<>>, minimum |-> 3000,
     required |-> {"diff_size_concentration", "documentation_changes", "dependency_changes"}],
   checks |-> [weights |-> [c \in Categories |-> IF c = "correctness" THEN 100 ELSE 0],
     analyzers |-> [lint_results |-> 3], minimum |-> 5000, required |-> {"semgrep"}],
   negative |-> [weights |-> [DefaultWeights EXCEPT !.correctness = 130, !.tests = -80],
     analyzers |-> <<>>, minimum |-> 0, required |-> {}]]

(* A file changed, renamed, renamed on, renamed with its old name taken by   *)
(* another, and two pages of files; four are the limit.                      *)
Entry(name, previous, additions) ==
  [name |-> name, previous |-> previous, additions |-> additions]
RenamesAndPages ==
  {{}, {Entry(1, 0, 1)}, {Entry(1, 0, 2), Entry(2, 0, 1)}, {Entry(2, 1, 1)},
   {Entry(3, 1, 1)}, {Entry(1, 3, 1)}, {Entry(1, 2, 1), Entry(3, 0, 1)},
   {Entry(1, 0, 1), Entry(2, 0, 1), Entry(3, 0, 2)}, {Entry(2, 0, 1), Entry(3, 1, 2)},
   {Entry(i, 0, 1) : i \in 1..4}}

VARIABLE part   \* the component that moves

deliveriesVars == <<vars, scoringVars, filesVars, part>>

DeliveriesInit == /\ part \in {"ingestion", "scoring", "files"}
                  /\ Init /\ ScoringInit /\ FilesInit
                  /\ part # "scoring" => remote.head = Tested
                  /\ part # "files" => diff = {}

DeliveriesNext == /\ \/ part = "ingestion" /\ Next /\ UNCHANGED <<scoringVars, filesVars>>
                     \/ part = "scoring" /\ ScoringNext /\ UNCHANGED <<vars, filesVars>>
                     \/ part = "files" /\ FilesNext /\ UNCHANGED <<vars, scoringVars>>
                  /\ UNCHANGED part

DeliveriesSpec == DeliveriesInit /\ [][DeliveriesNext]_deliveriesVars
=============================================================================
