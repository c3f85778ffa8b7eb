-------------------------- MODULE MCProjectAnalysis --------------------------
(* Instances of ProjectAnalysis for TLC.                                   *)
EXTENDS ProjectAnalysis, TLC

CONSTANTS r1, r2

\* A young repository, and a grown one whose manifests exceed their limit.
MCFiles ==
  [r \in Revisions |->
    IF r = r1 THEN {"README.md", "src/main.go", "pyproject.toml", ".gitignore", "LICENSE"}
    ELSE Path \ {"Jenkinsfile", ".github/copilot-instructions.md"}]

MCSays ==
  [p \in Path |->
    CASE p = "README.de.md" -> {"badge"}
      [] p = "README.md" -> {"install", "usage", "badge", "fence"}
      [] p = "pyproject.toml" -> {"pytest"}
      [] p = "package.json" -> {"jest", "test script"}
      [] p = ".github/workflows/ci.yml" -> {"lint", "test", "build"}
      [] OTHER -> {}]
MCSizes ==
  [p \in Path |-> CASE p \in {"README.md", "go.mod"} -> 9000
                    [] p \in {".cursorrules", ".cursorignore", "go.sum"} -> 1450
                    [] OTHER -> 600]

MCPostings ==
  {[metric |-> "readme", flags |-> Flags["readme"], sha |-> r1,
    sources |-> <<[path |-> "README.md", bytes |-> 9000]>>]}

=============================================================================
