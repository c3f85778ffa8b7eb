--------------------------- MODULE ProjectAnalysis ---------------------------
(***************************************************************************)
(* The analysis of one project: L1 scans started by pushes and by its      *)
(* owner's rescan button (internal/metrics/service.go, features/projects), *)
(* analyses a browser posts, the boards that take their verified points    *)
(* from a scan, and the pages and prompts that show the stored rows.       *)
(*                                                                         *)
(* A scan is a series of requests to GitHub and statements; scans of the   *)
(* same project overlap freely.  The eight upserts run in one transaction: *)
(* each waits for the row's lock and keeps it until the commit.            *)
(***************************************************************************)
EXTENDS RepoMetrics

CONSTANTS
  Revisions,  \* commits of the default branch
  FilesOf,    \* FilesOf[r]: the files of the tree at r
  Scanners,   \* scans that may be running at once
  Users,      \* those with a session
  Editors,    \* the users canEditProject lets in
  Services,   \* the forges the project may be hosted on
  Configured, \* whether GITHUB_TOKEN is set
  Games,
  Postings,   \* analyses a browser may post
  Faults      \* whether requests and statements may fail

System == "system"

(* A browser may post a type of its own; it gets a row but no tile.        *)
MetricType == Metric \cup {"other"}
AnyFlag == UNION Range(Flags)
Source == [path : Path, bytes : Nat]

ASSUME AnalysisAssumption ==
  /\ FilesOf \in [Revisions -> SUBSET Path]
  /\ Editors \subseteq Users /\ System \notin Users /\ "post" \notin Scanners
  /\ Services \subseteq {"github", "gitlab"}
  /\ Configured \in BOOLEAN /\ Faults \in BOOLEAN
  /\ Postings \subseteq [metric : MetricType, flags : SUBSET AnyFlag, sha : Revisions, sources : Seq(Source)]
  /\ NULL \notin Revisions \cup Scanners \cup Path \cup Metric

VARIABLES
  project, \* its row: service and is_private
  head,    \* the default branch on GitHub
  metrics, \* the analysis_metrics rows by metric_type, for those that have one
  lock,    \* lock[m]: the scan whose transaction holds the row of m
  boards,  \* verified_points of the project's board in a game, or NULL
  scan     \* scan[s]: a call of RunScan

vars == <<project, head, metrics, lock, boards, scan>>

-----------------------------------------------------------------------------

(* flags and sources are what data holds; by is updated_by, and writer     *)
(* remembers which call stored the row.                                    *)
Row == [sha : Revisions, score : 0..10, level : 0..3, flags : SUBSET AnyFlag,
        sources : Seq(Source), by : Users \cup {System},
        writer : Scanners \cup {"post"}]

Scan == [pc : {"idle", "tree", "files", "upsert", "commit", "boards"},
         by : Users \cup {System}, sha : Revisions \cup {NULL},
         files : [Category -> SUBSET Path], next : 1..9]
NoFiles == [c \in Category |-> {}]
IdleScan == [pc |-> "idle", by |-> System, sha |-> NULL, files |-> NoFiles, next |-> 1]

TypeOK ==
  /\ project \in [service : {"github", "gitlab"}, private : BOOLEAN]
  /\ head \in Revisions
  /\ DOMAIN metrics \subseteq MetricType /\ \A m \in DOMAIN metrics : metrics[m] \in Row
  /\ lock \in [MetricType -> Scanners \cup {NULL}]
  /\ boards \in [Games -> Nat \cup {NULL}]
  /\ scan \in [Scanners -> Scan]

Init ==
  /\ project \in [service : Services, private : {FALSE}]
  /\ head \in Revisions
  /\ metrics = [m \in {} |-> NULL]
  /\ lock = [m \in MetricType |-> NULL]
  /\ boards = [g \in Games |-> NULL]
  /\ scan = [s \in Scanners |-> IdleScan]

-----------------------------------------------------------------------------
(* RunScan                                                                 *)

At(s, pc) == scan[s].pc = pc
Goto(s, pc) == scan' = [scan EXCEPT ![s].pc = pc]

(* A push's scan and a rescan; scheduleL1Scan and performL1Scan look at    *)
(* the privacy and the token before RunScan does, on the same row.         *)
Scannable == project.service = "github" /\ ~project.private /\ Configured

Start(s, by) ==
  /\ At(s, "idle")
  /\ Scannable
  /\ scan' = [scan EXCEPT ![s].pc = "tree", ![s].by = by]
  /\ UNCHANGED <<project, head, metrics, lock, boards>>

(* PostProjectRescanL1, for whoever canEditProject lets in.                *)
Rescan(s, u) == u \in Editors /\ Start(s, u)

(* Pass 1: the branch's commit and its tree; a tree without a file worth   *)
(* reading needs no second pass.                                           *)
FetchTree(s) ==
  /\ At(s, "tree")
  /\ scan' = [scan EXCEPT ![s].sha = head,
       ![s].pc = IF AllFetched(FilesOf[head]) = {} THEN "upsert" ELSE "files"]
  /\ UNCHANGED <<project, head, metrics, lock, boards>>

(* Mutant: pass 2 asks for the files at the branch, not at the commit.     *)
FetchHeadFiles(s) ==
  /\ At(s, "files")
  /\ scan' = [scan EXCEPT ![s].pc = "upsert",
       ![s].files = [c \in Category |-> Fetched(FilesOf[head], c)]]
  /\ UNCHANGED <<project, head, metrics, lock, boards>>

(* Pass 2: the matched files at that commit, in batches.                   *)
FetchFiles(s) ==
  /\ At(s, "files")
  /\ scan' = [scan EXCEPT ![s].pc = "upsert",
       ![s].files = [c \in Category |-> Fetched(FilesOf[scan[s].sha], c)]]
  /\ UNCHANGED <<project, head, metrics, lock, boards>>

Stop(s) ==
  /\ scan' = [scan EXCEPT ![s] = IdleScan]
  /\ lock' = [m \in MetricType |-> IF lock[m] = s THEN NULL ELSE lock[m]]

(* The texts FetchScanData wraps around ErrGitHubForbidden; RunScan        *)
(* compares the whole text with the innermost one.                         *)
ForbiddenError(s) ==
  IF At(s, "tree") THEN <<"pass 1 tree fetch", "github: forbidden">>
  ELSE <<"pass 2 file fetch", "github graphql", "github: forbidden">>

Forbidden(s) ==
  /\ Faults
  /\ At(s, "tree") \/ At(s, "files")
  /\ project' = [project EXCEPT !.private = @ \/ ForbiddenError(s) = <<"github: forbidden">>]
  /\ Stop(s)
  /\ UNCHANGED <<head, metrics, boards>>

(* Another error, the timeout, a restart: an open transaction rolls back;  *)
(* after the commit, only the boards are not written.                      *)
Fail(s) ==
  /\ Faults
  /\ ~At(s, "idle")
  /\ Stop(s)
  /\ UNCHANGED <<project, head, metrics, boards>>

Result(s) == Evaluation(FilesOf[scan[s].sha], scan[s].files)

(* The rows that the transaction writes.                                   *)
StoredRows(s) ==
  LET result == Result(s)
      specs == SourceSpecs(scan[s].files)
  IN  [m \in Metric |->
        LET score == Score(m, result[m])
        IN  [sha |-> scan[s].sha, score |-> score, level |-> CalculateLevel(score),
             flags |-> result[m], sources |-> PromptSources(specs[m]),
             by |-> scan[s].by, writer |-> s]]

(* UpsertAnalysisMetric: the rows given take the place of those there are. *)
Upserted(rows) ==
  [m \in DOMAIN rows \cup DOMAIN metrics |-> IF m \in DOMAIN rows THEN rows[m] ELSE metrics[m]]

(* Mutant: the order of a Go map, which differs from call to call.         *)
RowOrderOfMap(s) == IF scan[s].by = System THEN MetricOrder ELSE Reverse(MetricOrder)

(* The order in which a scan's transaction takes the rows.                 *)
RowOrder(s) == MetricOrder

(* Mutant: each upsert is committed alone.                                 *)
UpsertAlone(s) ==
  /\ At(s, "upsert")
  /\ LET m == RowOrder(s)[scan[s].next]
     IN  metrics' = Upserted([n \in {m} |-> StoredRows(s)[n]])
  /\ scan' = [scan EXCEPT ![s].next = IF @ = 8 THEN 8 ELSE @ + 1,
       ![s].pc = IF scan[s].next = 8 THEN "commit" ELSE "upsert"]
  /\ UNCHANGED <<project, head, lock, boards>>

(* UpsertAnalysisMetric within the transaction waits for the row.          *)
Upsert(s) ==
  /\ At(s, "upsert")
  /\ LET m == RowOrder(s)[scan[s].next]
     IN  lock[m] = NULL /\ lock' = [lock EXCEPT ![m] = s]
  /\ scan' = [scan EXCEPT ![s].next = @ + 1,
       ![s].pc = IF scan[s].next = 8 THEN "commit" ELSE "upsert"]
  /\ UNCHANGED <<project, head, metrics, boards>>

Commit(s) ==
  /\ At(s, "commit")
  /\ metrics' = Upserted(StoredRows(s))
  /\ lock' = [m \in MetricType |-> IF lock[m] = s THEN NULL ELSE lock[m]]
  /\ Goto(s, "boards")
  /\ UNCHANGED <<project, head, boards>>

(* Mutant: the page's factor of two is missing.                            *)
TotalHalved(s) ==
  LET result == Result(s)
      Of(m) == Score(m, result[m]) * CalculateLevel(Score(m, result[m]))
  IN  TotalBytes([i \in 1..8 |-> Of(MetricOrder[i])])

Total(s) ==
  LET result == Result(s)
  IN  TotalBytes([i \in 1..8 |-> Points(Score(MetricOrder[i], result[MetricOrder[i]]))])

(* UpdateBoardVerifiedPointsByProjectID, unless the total is 0.            *)
UpdateBoards(s) ==
  /\ At(s, "boards")
  /\ LET total == Total(s)
     IN  boards' = [g \in Games |-> IF boards[g] = NULL \/ total = 0 THEN boards[g] ELSE total]
  /\ Stop(s)
  /\ UNCHANGED <<project, head, metrics>>

Run(s) ==
  FetchTree(s) \/ FetchFiles(s) \/ Upsert(s) \/ Commit(s) \/ UpdateBoards(s)

-----------------------------------------------------------------------------
(* The other requests                                                      *)

(* PostProjectAnalysis: one row, scored from the flags the browser sends;  *)
(* an unknown type scores 0.  It waits for a transaction that has the row, *)
(* and no board changes.                                                   *)
PostAnalysis(u, p) ==
  /\ u \in Editors
  /\ lock[p.metric] = NULL
  /\ LET score == IF p.metric \in Metric THEN Score(p.metric, p.flags) ELSE 0
     IN  metrics' = Upserted([m \in {p.metric} |->
           [sha |-> p.sha, score |-> score, level |-> CalculateLevel(score),
            flags |-> p.flags, sources |-> p.sources, by |-> u, writer |-> "post"]])
  /\ UNCHANGED <<project, head, lock, boards, scan>>

(* A push moves the branch and copies the repository's privacy; one whose  *)
(* event does not reach the webhook moves the branch alone.                *)
Push(r, hidden) ==
  /\ head' = r
  /\ project' = [project EXCEPT !.private = hidden]
  /\ UNCHANGED <<metrics, lock, boards, scan>>

(* AddCommit's UpsertBoard makes the project's board of a game.            *)
CreateBoard(g) ==
  /\ boards[g] = NULL
  /\ boards' = [boards EXCEPT ![g] = 0]
  /\ UNCHANGED <<project, head, metrics, lock, scan>>

Next ==
  \/ \E s \in Scanners : Start(s, System) \/ Run(s) \/ Forbidden(s) \/ Fail(s)
  \/ \E s \in Scanners, u \in Users : Rescan(s, u)
  \/ \E u \in Users, p \in Postings : PostAnalysis(u, p)
  \/ \E r \in Revisions, hidden \in BOOLEAN : Push(r, hidden)
  \/ \E g \in Games : CreateBoard(g)

Spec == Init /\ [][Next]_vars

-----------------------------------------------------------------------------
(* The pages and prompts                                                   *)

Stored(m) == m \in DOMAIN metrics

(* BuildAnalysisBoard and the project page: a tile per metric, missing     *)
(* rows as 0, the level clamped.                                           *)
Clamp(level) == IF level < 0 THEN 0 ELSE IF level > 3 THEN 3 ELSE level
Tiles ==
  [m \in Metric |->
    IF Stored(m) THEN [score |-> metrics[m].score, level |-> Clamp(metrics[m].level)]
    ELSE [score |-> 0, level |-> 0]]

EarnedPts == TotalBytes([i \in 1..8 |-> LET t == Tiles[MetricOrder[i]] IN t.score * t.level * 2])
MaxPts == 480

(* The dashes of a tile that are lit.                                      *)
Dash(level) == {i \in 1..3 : level >= 3 \/ (level > 0 /\ i <= level)}

MetricTile(tile) ==
  [dashes |-> Cardinality(Dash(tile.level)),
   colour |-> CASE tile.level >= 3 -> "green" [] tile.level >= 1 -> "blue" [] OTHER -> "grey"]

Grid == [m \in Metric |-> MetricTile(Tiles[m])]

ProgressPct == (EarnedPts * 100) \div MaxPts

(* The rescan button, which only an editor of a GitHub project sees.       *)
RescanButton(u) ==
  CASE u \notin Editors \/ project.service # "github" -> "none"
    [] project.private -> "off, private"
    [] ~Configured -> "off, no token"
    [] OTHER -> "on"

(* Mutant: a row counts as missing while its level is below 2.             *)
LLMContextGood(m) ==
  IF Stored(m) /\ metrics[m].level > 1
  THEN [score |-> metrics[m].score, level |-> metrics[m].level, sources |-> metrics[m].sources]
  ELSE [score |-> 0, level |-> 0, sources |-> <<>>]

(* GetProjectMetricLLMContext: the row, or all flags unset when there is   *)
(* none or it scores 0.                                                    *)
LLMContext(m) ==
  IF Stored(m) /\ metrics[m].score > 0
  THEN [score |-> metrics[m].score, level |-> metrics[m].level,
        sources |-> metrics[m].sources]
  ELSE [score |-> 0, level |-> 0, sources |-> <<>>]

(* PostProjectChatContext: the row of the topic the message matched, NULL  *)
(* for none; a topic without a row falls back to the README.               *)
Topic(matched) == IF matched = NULL \/ ~Stored(matched) THEN "readme" ELSE matched

(* The README's excerpts are not passed off as evidence on another topic.  *)
ChatEvidence(matched) ==
  LET asked == IF matched = NULL THEN "readme" ELSE matched
  IN  IF Stored(asked) THEN metrics[asked].sources ELSE <<>>

-----------------------------------------------------------------------------
(* Properties                                                              *)

Scanned(m) == Stored(m) /\ metrics[m].writer # "post"

(* What scans left is always one scan's work: rows a browser did not       *)
(* overwrite since come from the same call, and then no metric is missing, *)
(* however scans overlap and fail (service.go:80-114).                     *)
RowsOfOneScan ==
  \A m, n \in Metric : Scanned(m) =>
    /\ Stored(n)
    /\ Scanned(n) => /\ metrics[n].sha = metrics[m].sha
                     /\ metrics[n].writer = metrics[m].writer
                     /\ metrics[n].by = metrics[m].by

WaitsFor(s, t) == t # s /\ At(s, "upsert") /\ lock[RowOrder(s)[scan[s].next]] = t

(* While scans run, one of them waits for no other: transactions that lock *)
(* eight rows each cannot deadlock, because all of them take the rows in   *)
(* one order, and a scan that fails gives up what it had (service.go:      *)
(* 29-32,88,104).                                                          *)
ScansProceed ==
  (\E s \in Scanners : ~At(s, "idle")) =>
    \E s \in Scanners : ~At(s, "idle") /\ \A t \in Scanners : ~WaitsFor(s, t)

(* What a scan without limits would find at a commit.                      *)
Whole ==
  [r \in Revisions |->
    Evaluation(FilesOf[r], [c \in Category |-> FilesOf[r] \cap Matched[c]])]

(* A scan credits a metric only with what the tree of the commit it names  *)
(* has: the limits hide files from it but nothing is made up, though the   *)
(* branch may move between the two passes (scan.go:54-104,242-262).        *)
NothingMadeUp ==
  \A m \in Metric : Scanned(m) =>
    /\ metrics[m].flags \subseteq Whole[metrics[m].sha][m]
    /\ \A i \in DOMAIN metrics[m].sources :
         metrics[m].sources[i].path \in FilesOf[metrics[m].sha]

(* The excerpts a scan stores, and those put in a prompt whoever stored    *)
(* them, keep within their budgets, and the chat never quotes a file as    *)
(* evidence on a topic it was not fetched for, also while scans and posts  *)
(* replace the rows it falls back on (metrics.go:208-250, llm_context.go:  *)
(* 83-118, chat_context.go:92-136).                                        *)
EvidenceFits ==
  /\ \A m \in Metric : Stored(m) =>
       LET sources == metrics[m].sources
       IN  /\ Scanned(m) => TotalBytes([i \in DOMAIN sources |-> sources[i].bytes]) <= MaxPromptContext
           /\ TotalBytes(Evidence(sources)) <= MaxEvidence
  /\ \A m \in Metric \ {"readme"} : Scanned(m) \/ ~Stored(m) =>
       \A i \in DOMAIN ChatEvidence(m) : ChatEvidence(m)[i].path \notin Matched["readme"]

(* What the page shows is what its requests give: the assistant quotes a   *)
(* metric with the score and level its tile shows, although a row that     *)
(* scores 0 is treated as missing; the tile has as many dashes and the     *)
(* colour of that level; the bar over all tiles stays within its track;    *)
(* and the rescan button is on for those whose rescan is taken             *)
(* (llm_context.go:84-99, service.go:51-78, analysis.templ, projects.go:   *)
(* 241-253, rescan.go:24-94).                                              *)
PromptMatchesTile ==
  /\ ProgressPct <= 100
  /\ \A m \in Metric :
       LET prompt == LLMContext(m)
       IN  /\ [score |-> prompt.score, level |-> prompt.level] = Tiles[m]
           /\ Grid[m].dashes = prompt.level
           /\ Grid[m].colour = "grey" <=> prompt.score = 0
  /\ \A u \in Users : RescanButton(u) = "on" <=> u \in Editors /\ Scannable

(* When the rows a scan stored are still all there as it writes the        *)
(* boards, every board gets the points the page adds up from the tiles     *)
(* (service.go:116-130, projects.go:199-218).                              *)
BoardsGetPagePoints ==
  [][\A s \in Scanners :
       UpdateBoards(s) /\ (\A m \in Metric : metrics[m].writer = s) /\ EarnedPts > 0 =>
         \A g \in Games : boards'[g] \in {NULL, EarnedPts}]_vars

-----------------------------------------------------------------------------
(* What a comment says and the code does not do                            *)

(* scan.go:14-15 and service.go:72-80: a scan that GitHub answers with 403 *)
(* ends with the project marked private, whichever request it was.         *)
ForbiddenMarksPrivate ==
  [][\A s \in Scanners : Forbidden(s) => project'.private]_vars

=============================================================================
