----------------------------- MODULE RepoMetrics -----------------------------
(***************************************************************************)
(* What an L1 scan makes of a repository (internal/metrics): which files   *)
(* it fetches, the flags it derives from them, scores, levels and points,  *)
(* and what the assistant is told about a metric.                          *)
(*                                                                         *)
(* A file is known by a path that stands for all the paths the matchers    *)
(* treat alike, and its content by the words the evaluation looks for.     *)
(***************************************************************************)
EXTENDS Integers, FiniteSets, SequencesExt

CONSTANTS
  Says,   \* Says[p]: the words the file at p contains
  SizeOf, \* SizeOf[p]: its length in bytes
  NULL

MetricOrder == <<"readme", "tests", "ci", "structure", "linting", "deps", "docs", "ai_ready">>
Metric == Range(MetricOrder)

(* Paths in the byte order of a git tree.                                  *)
PathOrder ==
  <<".cursorignore", ".cursorrules", ".editorconfig", ".eslintrc.json",
    ".github/copilot-instructions.md", ".github/dependabot.yml", ".github/workflows/ci.yml",
    ".gitignore", ".pre-commit-config.yaml", "AGENTS.md", "CHANGELOG.md", "CLAUDE.md",
    "CODE_OF_CONDUCT.md", "CONTRIBUTING.md", "Jenkinsfile", "LICENSE", "README.de.md",
    "README.md", "docs/index.md", "go.mod", "go.sum", "package.json", "pkg/tests/run.sh",
    "pyproject.toml", "renovate.json", "src/main.go", "src/main_test.go", "tests/test_x.py",
    "wiki/home.md", "yarn.lock">>
Path == Range(PathOrder)
Place == [p \in Path |-> CHOOSE i \in DOMAIN PathOrder : PathOrder[i] = p]
Precedes(p, q) == Place[p] < Place[q]

Word == {"install", "usage", "badge", "fence", "lint", "test", "build",
         "pytest", "jest", "test script"}

ASSUME MetricsAssumption ==
  /\ Says \in [Path -> SUBSET Word]
  /\ SizeOf \in [Path -> Nat]

-----------------------------------------------------------------------------
(* FetchScanData: AllMatchers and classifyTree                             *)

ReadmeMatchers == {"README.de.md", "README.md"}
CIMatchers == {".github/workflows/ci.yml", "Jenkinsfile"}
TestsMatchers == {"pkg/tests/run.sh", "src/main_test.go", "tests/test_x.py"}
StructureMatchers == {"LICENSE"}
LintingMatchers == {".editorconfig", ".eslintrc.json"}
DepsMatchers == {"go.mod", "go.sum", "package.json", "pyproject.toml"}
DocsMatchers == {"docs/index.md", "wiki/home.md"}
AIReadyMatchers ==
  {".cursorignore", ".cursorrules", ".github/copilot-instructions.md", "AGENTS.md", "CLAUDE.md"}

Matched ==
  [readme |-> ReadmeMatchers, ci |-> CIMatchers, tests |-> TestsMatchers,
   license |-> StructureMatchers, linting |-> LintingMatchers,
   dependencies |-> DepsMatchers, docs |-> DocsMatchers, ai |-> AIReadyMatchers]
Category == DOMAIN Matched
Limit == [readme |-> 1, ci |-> 3, tests |-> 5, license |-> 1, linting |-> 3,
          dependencies |-> 2, docs |-> 3, ai |-> 3]

(* The files of a category, the first ones of the tree up to its limit.    *)
Fetched(tree, category) ==
  LET found == tree \cap Matched[category]
  IN  {p \in found : Cardinality({q \in found : Precedes(q, p)}) < Limit[category]}

AllFetched(tree) == UNION {Fetched(tree, c) : c \in Category}

-----------------------------------------------------------------------------
(* Evaluate                                                                *)

Flags ==
  [readme    |-> {"has_readme", "readme_substantial", "readme_has_install",
                  "readme_has_usage", "readme_has_banners", "readme_has_code_blocks"},
   tests     |-> {"has_test_dir", "has_test_files", "has_test_framework", "has_test_script"},
   ci        |-> {"has_ci", "has_lint_step", "has_test_step", "has_build_step"},
   structure |-> {"has_src_dir", "has_ignore_file", "has_license_file"},
   linting   |-> {"has_lint_config", "has_pre_commit_hooks"},
   deps      |-> {"has_lock_file", "has_dependabot", "has_renovate"},
   docs      |-> {"has_docs_dir", "has_changelog", "has_contributing", "has_code_of_conduct"},
   ai_ready  |-> {"has_cursor_rules", "has_claude_config", "has_copilot_config", "has_ai_ignore"}]

If(condition, flag) == IF condition THEN {flag} ELSE {}

Ordered(paths) ==
  [i \in 1..Cardinality(paths) |->
    CHOOSE p \in paths : Cardinality({q \in paths : Precedes(q, p)}) = i - 1]

(* files[c]: the fetched files of category c.                              *)
First(files, category) == IF files[category] = {} THEN NULL ELSE Ordered(files[category])[1]
SaysAny(p, words) == p # NULL /\ Says[p] \cap words # {}
Longer(p, bytes) == p # NULL /\ SizeOf[p] > bytes

(* What codeBlockRe captures cannot hold a line, so no block counts.       *)
CodeBlocks(p) == {}

EvalReadme(tree, files) ==
  LET p == First(files, "readme")
  IN  If(Longer(p, 0), "has_readme") \cup If(Longer(p, 500), "readme_substantial")
      \cup If(SaysAny(p, {"install"}), "readme_has_install")
      \cup If(SaysAny(p, {"usage"}), "readme_has_usage")
      \cup If(SaysAny(p, {"badge"}), "readme_has_banners")
      \cup If(p # NULL /\ CodeBlocks(p) # {}, "readme_has_code_blocks")

(* A manifest is read only if it was among the fetched dependency files.   *)
EvalTests(tree, files) ==
  LET Manifest(p, words) == p \in files["dependencies"] /\ SaysAny(p, words)
  IN  If("tests/test_x.py" \in tree, "has_test_dir")
      \cup If(tree \cap {"src/main_test.go", "tests/test_x.py"} # {}, "has_test_files")
      \cup If(\/ Manifest("pyproject.toml", {"pytest"})
              \/ Manifest("package.json", {"jest"}), "has_test_framework")
      \cup If(Manifest("package.json", {"test script"}), "has_test_script")

(* The first YAML file, or else the first file, is read for steps.         *)
CIFile(files) ==
  LET yaml == ".github/workflows/ci.yml"
  IN  IF yaml \in files["ci"] THEN yaml ELSE First(files, "ci")

EvalCI(tree, files) ==
  LET p == CIFile(files)
  IN  If(p # NULL, "has_ci") \cup If(SaysAny(p, {"lint"}), "has_lint_step")
      \cup If(SaysAny(p, {"test", "pytest"}), "has_test_step")
      \cup If(SaysAny(p, {"build"}), "has_build_step")

EvalStructure(tree, files) ==
  If(tree \cap {"src/main.go", "src/main_test.go", "pkg/tests/run.sh"} # {}, "has_src_dir")
  \cup If(".gitignore" \in tree, "has_ignore_file")
  \cup If(First(files, "license") # NULL, "has_license_file")

EvalLinting(tree, files) ==
  If(First(files, "linting") # NULL, "has_lint_config")
  \cup If(".pre-commit-config.yaml" \in tree, "has_pre_commit_hooks")

EvalDeps(tree, files) ==
  If(tree \cap {"go.sum", "yarn.lock"} # {}, "has_lock_file")
  \cup If(".github/dependabot.yml" \in tree, "has_dependabot")
  \cup If("renovate.json" \in tree, "has_renovate")

EvalDocs(tree, files) ==
  If(First(files, "docs") # NULL, "has_docs_dir")
  \cup If("CHANGELOG.md" \in tree, "has_changelog")
  \cup If("CONTRIBUTING.md" \in tree, "has_contributing")
  \cup If("CODE_OF_CONDUCT.md" \in tree, "has_code_of_conduct")

EvalAIReady(tree, files) ==
  If(".cursorrules" \in tree, "has_cursor_rules")
  \cup If("CLAUDE.md" \in tree, "has_claude_config")
  \cup If(".github/copilot-instructions.md" \in tree, "has_copilot_config")
  \cup If(".cursorignore" \in tree, "has_ai_ignore")

Evaluation(tree, files) ==
  [readme |-> EvalReadme(tree, files), tests |-> EvalTests(tree, files),
   ci |-> EvalCI(tree, files), structure |-> EvalStructure(tree, files),
   linting |-> EvalLinting(tree, files), deps |-> EvalDeps(tree, files),
   docs |-> EvalDocs(tree, files), ai_ready |-> EvalAIReady(tree, files)]

(* countBools: whole tenths of the metric's flags.                         *)
Score(metric, flags) == (10 * Cardinality(flags \cap Flags[metric])) \div Cardinality(Flags[metric])

(* Mutant: a level for every third of the score.                           *)
LevelByThirds(score) == (score + 2) \div 3

CalculateLevel(score) ==
  CASE score >= 9 -> 3 [] score >= 6 -> 2 [] score >= 1 -> 1 [] OTHER -> 0

(* One metric's share of RunScan's total.                                  *)
Points(score) == score * CalculateLevel(score) * 2

-----------------------------------------------------------------------------
(* Excerpts for the assistant                                              *)

Least(a, b) == IF a < b THEN a ELSE b

(* Lengths are added up one after another.                                 *)
SumTo(lengths, n) ==
  LET sum[i \in 0..n] == IF i = 0 THEN 0 ELSE sum[i - 1] + lengths[i]
  IN  sum[n]
TotalBytes(lengths) == SumTo(lengths, Len(lengths))

(* Up to n of the paths, in tree order.                                    *)
Specs(paths, n, bytes) ==
  [i \in 1..Least(n, Cardinality(paths)) |-> [path |-> Ordered(paths)[i], max |-> bytes]]

(* What each evaluation hands to promptSourcesForMetric: mostly files that *)
(* have a content; a licence's text is left out.                           *)
SourceSpecs(files) ==
  LET Written(category) == {p \in files[category] : SizeOf[p] > 0}
      ci == IF CIFile(files) \in Written("ci") THEN {CIFile(files)} ELSE Written("ci")
  IN  [readme |-> Specs(files["readme"], 1, 2200), tests |-> Specs(Written("tests"), 3, 1200),
       ci |-> Specs(ci, 1, 1800), structure |-> Specs(files["license"], 1, 0),
       linting |-> Specs(Written("linting"), 2, 1200),
       deps |-> Specs(Written("dependencies"), 2, 1500),
       docs |-> Specs(Written("docs"), 3, 1200), ai_ready |-> Specs(Written("ai"), 3, 1500)]

MaxPromptContext == 3000

(* Mutant: the room left is not looked at again after the first source.    *)
PromptSourcesUncapped(specs) ==
  [i \in DOMAIN specs |-> [path |-> specs[i].path, bytes |-> Least(SizeOf[specs[i].path], specs[i].max)]]

(* Each snippet takes what it wants of the room that is left, up to one    *)
(* that would be cut to less than 80 bytes.                                *)
PromptSources(specs) ==
  LET wanted == [i \in DOMAIN specs |-> Least(SizeOf[specs[i].path], specs[i].max)]
      Room(i) == MaxPromptContext - Least(SumTo(wanted, i - 1), MaxPromptContext)
      Fits(i) == wanted[i] <= Room(i) \/ Room(i) >= 80
  IN  [i \in {j \in DOMAIN specs : \A k \in 1..j : Fits(k)} |->
        [path |-> specs[i].path, bytes |-> Least(wanted[i], Room(i))]]

MaxEvidence == 2200

(* writePromptEvidence: the bytes of each snippet that reach the prompt;   *)
(* it stops when fewer than 80 are left.                                   *)
Evidence(sources) ==
  LET wanted == [i \in DOMAIN sources |-> Least(sources[i].bytes, 1000)]
      Room(i) == MaxEvidence - SumTo(wanted, i - 1)
  IN  [i \in DOMAIN sources |-> IF Room(i) < 80 THEN 0 ELSE Least(wanted[i], Room(i))]

=============================================================================
