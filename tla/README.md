# Julython in TLA+

Julython is a Go server over PostgreSQL. GitHub delivers pushes to a webhook;
each push's commits are stored, attributed to an account and scored in the game
that is on; projects get boards, people get player rows that hold up to three
boards, and a scanner measures repositories and leaves "verified" points on
boards. People log in through an OAuth provider and claim the commits that
arrived before they had an account.

Nothing but the scanner's metrics is written in a transaction, and nothing at all
is read in one. Requests, and the goroutines they start, interleave between any
two queries, and a query that fails, a context that ends or a restart leaves
behind whatever was written. GitHub and the browser are no better: calls lose
their answers, lists move between two pages, and async functions share a session
across their awaits. That is what these specifications are about: what tables,
hooks and pages hold when the steps of several actors interleave and stop
anywhere.

Paths below are relative to `src/`; `game.go` and `users.go` are in
`internal/services`, `github.go` in `internal/webhooks`, `auth.go` in
`internal/auth`, `*.sql` in `internal/db/queries`, `service.go` and `scan.go` in
`internal/metrics`, `*.ts` in `web/js`, unless a path says otherwise.

## 1. Inventory

| Component | State | Operations | Correct means |
| --- | --- | --- | --- |
| Game calendar (`game.go`, `games.sql`, `cmd/creategame`) | `games`: span, `is_active` | create a game, deactivating the others first; the game at a moment; the latest one | a commit is placed in a game that covers its timestamp |
| Scoring (`game.go`, `boards.sql`, `players.sql`, `languages.sql`) | `boards`, `players`, `language_boards`, `commits.game_id` | `AddCommit`, `ClaimOrphanCommits` | no commit is counted twice, points are the commits' points and a project bonus, player rows and slots agree with the commits table, nothing is lost without a failure |
| Player page (`internal/features/players`) | the player's slots | unlink a board | only one's own slots change |
| Push webhook (`github.go`) | `projects`, `users`, `user_identifiers`, `commits`; goroutines' memory | deliver a push, resolve each commit's author, schedule the scan, hand the created commits to scoring | a commit is stored once, handed over at most once and, without failures, exactly once; whoever it is credited to can be explained |
| L1 scanner (`service.go`, `scan.go`) | `analysis_metrics`, `boards.verified_points`, `projects.is_private` | fetch the tree and the files, write eight rows in a transaction, then the boards | the rows are one scan's, credit only what the commit has, and agree with boards and pages; no two scans wait for each other |
| Metrics evaluation (`metrics.go`, `metric_*.go`) | none | matchers and limits, eight evaluations, scores, levels, excerpts | levels and points follow from the facts; excerpts keep their budgets |
| Users and identities (`users.go`, `users.sql`) | `users`, `user_identifiers` | log in or register, link, upsert addresses | no account or identifier changes hands; a login cut short does not lock its person out |
| Auth handlers and sessions (`auth.go`, `session.go`) | `sessions`, one row per browser | login, callback, logout; the session middleware loads and saves | whoever a browser is logged in as holds the key it logged in with |
| OAuth providers, token encryption (`oauth*.go`, `crypto.go`) | none of their own | HTTP exchanges, AES-GCM | (not modelled) |
| GitHub client, hook administration, settings (`internal/services/github.go`, `internal/features/profile`) | hooks at GitHub, rows and buttons of the user's tabs, `users.name` and the session's copy | list, add, delete; save the name | a row tells what GitHub has, others' hooks stay, a button comes back, a saved name is shown |
| Project pages, rescan, posted analysis (`internal/features/projects`) | `analysis_metrics`; what a visitor's list holds | list and scroll, search, show, rescan, post an analysis | only editors change a project; a list misses nothing and shows nothing twice |
| Leaderboards, home page (`internal/features/game`) | none: reads; what a visitor has seen | page by `OFFSET`, read the charts of projects and languages again, read a page in several queries | nobody steady is passed over, or loses a place because others fell; later reads cover earlier ones |
| LLM and chat context (`llm_context.go`, `chat_context.go`) | none | choose the row and the excerpts of a prompt | a prompt quotes what the tile shows, and no other topic's file |
| Browser analyzer (`analyzer.ts`, `llm.ts`) | `llmSession`, `webllmEngine`, the Send button | chat, review a metric, select a model, clear the cache | a call is answered under its own instructions; Send comes back |
| Proxy, blog, help, i18n, assets, components, server wiring | none that matters here | rendering, I/O | (not modelled) |
| Teams, reports, audit log | tables no code calls | - | (not modelled) |

How they interact. `HandleGitHubWebhook` writes projects, accounts, addresses
and commits, and starts a goroutine (`scheduleL1Scan`) that first runs the scan
and then calls `AddCommit` for each created commit. `AddCommit` asks the calendar
for a game, writes the commit's `game_id`, the board, the languages, then the
player. A login writes accounts and identifiers, puts the account into the
session and may start a goroutine that claims orphan commits: an update of
`commits.user_id` that runs beside the webhook's lookups and beside `AddCommit`.
The player page rewrites slots `AddCommit` also rewrites. Scans, rescans and
posted analyses write the same eight rows. All of them meet in the database and
nowhere else; the pages read it there, one query at a time, and the profile
pages keep what they saw of GitHub's hooks.

What is hard: the interleavings (every read that a later write depends on is in
another statement), partial failure (no rollback anywhere above), redelivery and
overlap of pushes, restarts that forget goroutines, two requests of one browser
that each write the whole session back, calls to GitHub whose answers are lost,
lists that move under their cursor or offset, and state read before an `await`
and used after it. `PROJECT.json` lists the hazards one by
one, each at its line, with the properties that cover it; those without one say
why.

## 2. The modules

```
GameCalendar <- GameScoring --implements--> ScoreLedger
                     ^ fresh = waiting
                WebhookIngest --implements--> CommitIntake
                     |        --implements--> AccountDirectory
                     | Login in one step
                OAuthLogin    --implements--> AccountDirectory

RepoMetrics <- ProjectAnalysis        Profile, Settings  (MCProfile)

ScoreLedger <- GamePages     Leaderboard <- Standings     ProjectList, Assistant
                      \____________|__________________________/
                                MCPages

GameScoring <- GameScoringProofs <- GameScoringPlayerProofs
WebhookIngest <- WebhookIngestProofs      ProjectAnalysis <- ProjectAnalysisProofs
OAuthLogin <- OAuthLoginProofs            Profile, MCProfile <- ProfileProofs
Assistant <- AssistantProofs              MCPages, AssistantProofs <- PagesProofs
```

**GameCalendar** is the games table and the clock. `DeactivateAllGames` and
`InsertGame` are the two statements of `CreateGame`; the second may fail and
leaves no game active. `GamesAt` is `GetActiveGameAtTime`, as the set of rows the
query may return.

**GameScoring** takes `AddCommit` apart: `call[w].pc` names the next statement,
and one action is one query (`FindGame`, `CheckProject`, `SetCommitGame`,
`ReadBoard`, `UpsertBoard`, `UpsertLanguageBoard`, `CheckAuthor`, `FindPlayer`,
`CountForNewPlayer`, `CreatePlayer`, `ReadSlots`, `AssignBoards`, `CountCommits`,
`SumBoards`, `UpdatePlayerAnalysis`). What a call keeps in Go variables between
queries (the game, `isNew`, the slot ids, the counts, the total) is in `call[w]`,
so it goes stale exactly as in the code. `ClaimOrphanCommits` is taken apart in
the same way. `Unlink`, `SetPrivate`, `ScanStart`/`ScanFinish` are what other
requests do to the same rows. `Abandon`, `ClaimAbandon` and `LoseCommit` are failures:
a call returns where it stands, a commit is never scored. The SQL is
modelled by what it does: `UpsertBoard` adds to the row, `UpsertPlayer`
overwrites it, `AssignBoards` coalesces, and `UnlinkMatches` groups `AND` and
`OR` as PostgreSQL does.

**ScoreLedger** is the promise: a commit is placed at most once; a board is
credited at most once per commit placed on it; every credit is worth
`commit_points`, and the first the project bonus too. `LedgerSpec` says that
GameScoring implements it.

**WebhookIngest** is a delivery, one query at a time (`UpsertProject`,
`NextCommit`, `FindOwner`, `FindEmail`, `CreateUser`, `AddIdentifier`,
`StoreCommit`, `Schedule`), and the goroutine it starts (`ScanSucceeds` or
`ScanFails`, then `AddCommit`s, unless it `TimesOut`). Under `Faults` every query
may fail before or after the database ran it. Here `AddCommit`, `Login` and
`ClaimOrphanCommits` are single steps: GameScoring and OAuthLogin take them
apart. A payload is a record of repository, name, privacy and commits; parsing,
language detection and branch filters choose which pushes there are.

**CommitIntake** is the promise: stored once, handed over at most once.
GameScoring's `fresh` is its `waiting`.

**OAuthLogin** is `Login`, `Callback` and `Logout` with
`OAuthLoginOrRegister`, one query at a time: `FindKey`, `FindEmail` (a turn of
`findUserByEmails`), `FindUsername`, `CreateUser`, `Link`, `Refresh`, `AddEmail`
(a turn of `upsertEmails`), `Finish`. `request[r].copy` is the session as the
middleware loaded it, which `Reply` writes back whole. `WebhookCreate` and
`WebhookIdentify` are the two inserts of a push. `user = NULL` is the zero
`db.User` that a dropped error leaves (`users.go:158,212`).

**AccountDirectory** is the promise both make of users, identifiers and claims:
an account stays, an identifier stays with whoever first held it, a claim only
names addresses its account holds.

**RepoMetrics** is what a scan makes of a repository, as pure operators: which
files it fetches (`Matched`, `Limit`, `Fetched`), the flags of each metric
(`EvalReadme` to `EvalAIReady`), `Score`, `CalculateLevel`, `Points`, and the
excerpts (`SourceSpecs`, `PromptSources`, `Evidence`). A path stands for all the
paths the matchers treat alike, and a file's content is the set of words the
evaluation looks for. Trees and fetched files are sets: the order of a tree is
`Precedes`, and the first files up to a limit are those with fewer than so many
before them. Only excerpts are sequences, whose bytes `SumTo` adds up.

**ProjectAnalysis** is a project and the calls of `RunScan` on it, one request to
GitHub or statement per action (`Start`, `FetchTree`, `FetchFiles`, `Upsert`,
`Commit`, `UpdateBoards`). `Upsert` waits for the row's lock and keeps it until
`Commit`, where all rows appear at once; `Fail` and `Forbidden` give them up.
Beside it, `PostAnalysis`, pushes that move the branch or change the privacy, and
`AddCommit`'s new boards. `Tiles`, `Grid`, `RescanButton`, `LLMContext` and
`ChatEvidence` are what pages and prompts make of the rows.

**Profile** is a user's tabs and the hooks at GitHub. A tab lists a page of
repositories (`LoadRepos`, then `LoadHooks` for one after another, then
`ShowRepos`), and each row has one request at a time: `CreateHook` or
`RefuseHook` and `AnswerAdd`, or `FindRepo` and `DeleteHook`. `LoseCreated` and
`LoseDeleted` are calls that took effect and whose answer is lost, `ChangeHooks`
and `Touch` what happens on GitHub's own pages, and `OpenPage` drops what was
under way. `stale` remembers which rows a change passed by, and `missed` those whose
hook the list missed because the call for it failed. GitHub is external: it is assumed to refuse a second hook with the same URL and to list the repository updated
last first.

**Settings** is the name: `users.name`, the session's copy, and what the page shows.

**ProjectList** is the endless list: a page is the newest matching projects below
the cursor, one row more than it shows tells whether there is a next. Projects
come and turn private or public between pages.

**Leaderboard** pages by `OFFSET` over rows that scoring rewrites; tied rows
come in any order, which may differ from query to query.

**Standings** is the leaderboards of projects and languages, which have no pages:
each reading is one query, and what is followed is how one reading differs from
the one before. Boards gain points, are verified, and leave and come back with
their project's privacy; a verified total takes the place of the points even
where it is lower.

**GamePages** composes with ScoreLedger: `Scoring` is its next step, so the pages
read tables that move exactly as GameScoring was shown to move them. `Home`, `Player`
and `Detail` begin a page, and each later query is an action; a query that fails
leaves its part at zero, as the handlers do.

**Assistant** is `sendChat` and `runMetricAIReview` from await to await, over the
`llmSession` and the WebLLM engine all calls share (`FetchContext`,
`TryChromePromptAPI`, `TryWebLLM`, `CreateEngine`, `Prompt`, `Answered`), with
`SelectModel` and `DeleteCachedModels` in between.

`MCGameScoring`, `MCWebhookIngest`, `MCOAuthLogin`, `MCProjectAnalysis`, `MCProfile`
and `MCPages` hold the values the cfgs give to constants. `MCProfile` and `MCPages`
put modules without a common variable side by side: a behaviour visits one of them
and the others stand still, so one run checks them all. The operators marked
"Mutant" in the modules are what a plausible bug would make of the definition after
them; `PROJECT.json` pairs each with the property that then fails. No specification
uses them.

## 3. The runs

| Run | Bounds | Distinct states | Shows |
| --- | --- | --- | --- |
| `GameScoring_race` | 3 commits of one author, 2 projects, 2 workers, a scan, unlinking; fair | 531 thousand | points add up and only grow, slots are earned, and the boards end up counting every commit |
| `GameScoring_faults` | 3 commits, one an orphan and one in 2 languages, 2 workers, a claim, failures | 838 thousand | types, no overcount of boards, languages or players, attribution final, ScoreLedger implemented |
| `GameScoring_calendar` | 1 worker, 4 commits of one author on 4 projects, 2 overlapping games, a clock of 3 days, a scan, a project turning private | 381 thousand | commits land in games that cover them, and once all are scored every row is exact |
| `WebhookIngest_faults` | 2 requests, 3 pushes of a renamed repository and a second one, failures everywhere | 973 thousand | nothing is handed over twice, CommitIntake implemented |
| `WebhookIngest_fair` | 2 requests, a private and an organization's repository that share a commit, a login and its claim; fair | 480 thousand | attribution explained, AccountDirectory implemented, every stored commit handed to scoring |
| `OAuthLogin_flow` | 2 requests of one browser, 2 people, 2 states, a webhook that may take either address, failures | 2.15 million up to symmetry | sessions explained, nobody locked out by a half-done login, AccountDirectory implemented |
| `ProjectAnalysis_overlap` | 2 scans, 2 revisions (a young tree and one whose manifests exceed their limit), 2 users, a posted row, 1 game, failures | 280 thousand | rows are one scan's and make nothing up, excerpts fit, prompts, tiles, buttons and boards agree with the rows, scans never wait in a circle |
| `Profile_hooks` | 2 tabs, 2 repositories (one administered), pages of 1, answers of at most 2 hooks, 3 hooks ever, 1 change elsewhere, failed calls and lost answers; fair | 178 thousand | rows tell the truth, but for an Add row whose hook a failed call missed, and name their own repository's hook, others' hooks stay, buttons come back |
| `Pages_scroll` | list: 5 projects, pages of 2, a search; leaderboard: 4 players, pages of 2, scores up to 3; charts: 3 projects or 2 languages, 2 rows, points up to 2; pages: 3 commits, 2 projects, 2 games, 3 days; assistant: 2 chats, 1 review, 2 models | 806 thousand up to symmetry | nothing steady is passed over or loses a place without a reason, later reads cover earlier ones, a call left alone is answered as asked, Send comes back |

Why the bounds are enough. Two workers, requests or scans are the least that race,
and every race here is between two reads and two writes of one row; a third would
repeat one of the two. Two commits share a project, so a board's first commit is
contended, and a third is on another project, so that a player has two slots to
order; the scan writes to the board that two commits are added to. With failures, one
commit is in two languages, so that its loop can be cut between them, and another
shares one of the two; four projects overflow the three slots. Two games share a day, so that "which
game" has more than one answer over time. Two addresses are the least with which a
login can stop between them. Points are 1 and 10, so a bonus cannot be mistaken for
commits. The two revisions differ in every metric, reach all four levels and exceed
the limits on fetched files and excerpts. Five projects fill two pages and leave one
over; four players fill two, so that a row can cross the cut in either direction; of
three projects one does not fit the chart. The limits of the hook pages (100
repositories, 30 hooks, 10 a page) are 1, 2 and 1, so that each is exceeded. Three
calls of the assistant are the least with which a session changes hands twice.

Symmetry is used in `OAuthLogin_flow`, over requests and states, and in
`Pages_scroll`, over chats, models and projects; no constant tells these apart, and
neither run checks liveness.

`CHECK_DEADLOCK FALSE` stands in the runs of GameScoring (once the commits are
scored and the calendar is over, there is nothing left to do), of ProjectAnalysis
and of Profile (where the bounds on faults and changes leave a project or a page at
rest). The others never come to rest.

Fairness. `BoardsCatchUp` and `StoredIsScored` assume weak fairness of each
goroutine's next statement: Go's scheduler runs every runnable goroutine, and in
these runs no query fails. Nothing is assumed of deliveries, logins, unlinking,
administrators or time. `StoredIsScored` also needs scans that succeed, for a
failing one leaves its push unscored (below). `ButtonsComeBack` assumes weak
fairness of each row's request (`HooksFairness`): the client's timeout of 30
seconds ends every call to GitHub, and calls may still fail.

### What the code does and its comments do not say

Three runs expect a violation; each checks one sentence of a comment or log line.

- `GameScoring_v_unlink`: "one of a player's board slots" (`players.sql:97`):
  the `OR`s reach other players' slots 2 and 3. A player unlinks a board from her own
  slot, and another who holds the same board in slot 2 loses it there.
- `ProjectAnalysis_v_forbidden`: "mark project private" (`scan.go:15`), "marked
  project private after GitHub 403" (`service.go:79`): the error is compared as a
  whole text but arrives wrapped, so the scan fails and the project stays public.
- `Profile_v_settings`: "persist back to the session store"
  (`internal/features/profile/profile.go:295`): the name goes to a key nothing
  reads, so the settings page opened again shows the old one.

Seen while modelling and without a run of their own. In scoring:
"Recalculate verified_points from all boards" (`game.go:364`) sums the ids read
before the assignment, so the board just assigned is missing. In the webhook: a
request that loses the race to create an account drops its commit
(`github.go:452`); commits of a scan that failed are never scored, since a
redelivery skips them as duplicates (`github.go:275`); a first push's board does
not exist yet when its scan writes verified points (`github.go:244`).

Two goroutines may both award the project bonus (`game.go:206`; `BoardPointsAddUp`
bounds the number), and a board may sit in two slots (`game.go:292`); a rescan
rewrites boards of past games (`boards.sql:30`); an owner name over 22 characters
never fits `users.username` with its prefix (`github.go:423`); a commit resolved by its
owner's name adds no address (`github.go:415`); a login that links an existing
account reports nothing created and so claims nothing (`users.go:190,220`), where
`auth.go:157` speaks of a new identity.

In the scanner: the expression that captures code blocks cannot match across
lines, so that flag is never set and the README scores 8 at most
(`metric_readme.go:50`); with `go.mod` and `go.sum` a `package.json` is beyond
the limit of two and its tests go unseen; an older scan that commits last
overwrites a newer one, although "Score always reflects latest scan"
(`projects.sql`); a posted analysis updates no board; an unknown metric type is
stored with score 0.

On the pages: the eleventh repository `WebhookRepos` asks for is never shown, and
repositories are filtered after they were paged, so a page may be empty with
others to follow; a failed call for a repository's hooks counts as none
(`github.go:119`), so a row may offer to add a hook that is there; the service filter sends a name `List` does not read; "Load
more" on a project's commits returns the first page again; players are ordered by
one total and shown with another; an error reads as zeros. In the browser: two
calls at once share a session, so that one may be answered under the other's
instructions; a rejected prompt of a chat leaves Send off for good; the Enter key
ignores the disabled button.

## 4. The proofs

All theorems hold for every value of the constants the modules' assumptions
admit: any number of commits, workers, requests, accounts, scans, projects, calls
and failures. The assumptions only give types to the constants, require that
`NULL` and its like are not a value of anything, that the names of scans and of
posted rows differ, that pages are not empty, and that there are finitely many
commits, projects, players, contestants, days and repositories. Three theorems have
hypotheses beyond these, and say so: `PointsAddUp` and `NoUpdateLost` that no query
fails, and `ExactOnceScored` that one goroutine scores, nothing fails, and nobody
claims or unlinks meanwhile. The runs that check `BoardPointsAddUp` and
`ExactWhenSettled` fulfil them.

| Module | Theorems | Inductive invariant |
| --- | --- | --- |
| `GameScoringProofs` | `TypeCorrect`, `AttributionFinal`, `NeverOvercounted`, `ImplementsLedger`, `PointsAddUp` | `TypeInv` < `OwnInv` < `CountInv` < `BonusInv` |
| `GameScoringPlayerProofs` | `BoardsGrowOnly`, `PlacedWhereCovered`, `LanguagesNeverOvercounted`, `PlayersNeverOvercounted`, `SlotsAlwaysEarned`, `NoUpdateLost`, `ExactOnceScored` | `PlaceInv`, `LanguageInv`, `WithinInv`, `SlotInv`, `AllCounted`, `ExactBoardsInv` < `ExactInv` |
| `WebhookIngestProofs` | `IngestTyped`, `NeverHandedTwice`, `ImplementsIntake`, `AttributionAlwaysExplained`, `ImplementsDirectory` | `IntakeInv`, `AttributionInv` |
| `OAuthLoginProofs` | `LoginTyped`, `SessionsAlwaysExplained`, `NobodyIsLockedOut`, `ImplementsDirectory` | `LoginInv`, `OwnInv` |
| `ProjectAnalysisProofs` | `OneScansWork`, `ScansNeverDeadlock`, `PagePointsReachBoards`, `TypesCorrect`, `ScansMakeNothingUp`, `ExcerptsKeepWithinBudget`, `PagesShowWhatRequestsGive` | `AnalysisInv` < `TruthInv` |
| `ProfileProofs` | `TypesCorrect`, `RowsAreTrue`, `ForeignHooksAreSafe` | `HooksInv` |
| `PagesProofs` | `PagesAreTyped`, `ListMissesNothing`, `EveryoneIsShown`, `PlacesAreKept`, `LaterReadsCover` | `ListInv`, `LeadersInv`, `StandingsInv`, `PagesInv` |
| `AssistantProofs` | `AnsweredAsAsked`, `SendAlwaysComesBack` | `AssistantInv` |

**Scoring.** None of the properties is inductive alone. The type invariant needs
to know what a call holds at each statement (`CallOK`). That a commit is counted
once rests on `OwnInv`: a commit is fresh or in exactly one call, calls before
the placement hold commits no game has, calls after it hold commits of the
call's game. `CountInv` then says that a board counts at most the placed commits
that are *not* between placement and credit, which a credit cannot exceed because
it takes its own commit out of flight. `BonusInv` adds that a call which will not
award the bonus has seen the board, so the first credit carries it; that gives
the refinement of ScoreLedger. `WithinInv` says the same of counts that were read
and not yet written (they bound from below what the table holds from then on,
because commits are never taken from a player), `SlotInv` of slot ids.

`NoUpdateLost` is the bound of `CountInv` from below as well: with any number of
goroutines a board counts exactly the placed commits that are not in flight, because
without a failure a call returns nowhere between placement and credit, and the
upsert adds to what it finds. That is what `BoardsCatchUp` then needs fairness for:
calls in flight end.

`ExactOnceScored` turns the bounds into equalities when pushes are scored one at a
time. `BoardsExact` is the bound on boards with "at most" replaced by "exactly", and the
project bonus in it once, because what `ReadBoard` saw is still so at `UpsertBoard`
(`BonusKnown`). For players the difficulty is the middle of a call, when the commit is
placed and the row does not show it: `CountsExact` and `SlotsServe` therefore speak only
of players and commits no call is busy with, and `ReadsHold` of what the busy call has in
its variables. That three slots suffice is `Apart`: slots fill from the first on, each with
another board, so a full row holds three and one that is not holds a board of every project
the player worked on. The games may change and scans end throughout.

**Webhook.** `IntakeInv` says that each commit that waits does so in one place,
has a row and was not handed over, and that a commit without a row was not
either: the unique hash does the work. Most steps are `Quiet` (they store, move
and hand over nothing, and may forget), so the refinement of CommitIntake is four
steps and one lemma. `AttributionInv` carries an explanation from the lookup to
the insert: a request at `store` holds a user it can explain, a claim's addresses
are its user's. It survives logins because `UsersGrow`: accounts and held
addresses are never taken away.

**Logins.** `LoginInv` says of every session, stored or in a request's copy, that
its user holds its key (or is the zero user after a failure), of a request that
adds addresses that it holds the provider's key and the addresses it is through
with, and that holders exist. Each action then shows two things apart:
that users only grow, and that its own request is held; `SessionStays`,
`RequestStays` carry everyone else over. A claim starts only where something was
created, which the zero user's login never reports, so its addresses are its
account's: that is AccountDirectory's condition on claims. The two theorems
named `ImplementsDirectory` are what justifies modelling a login as one step in
WebhookIngest: the webhook may rely on no more than the directory.

`NobodyIsLockedOut` needs to know whose account a login can find. `OwnInv` says it
for an identity that is `Unshared` (no other identity verifies one of its addresses,
and no other owner's pushes carry one): whatever holds its key or its addresses is
the account of its own name, and a login of it under way has found that account or
none. The property is about such identities only, because for the others it is
false: an address a push gave to another account does lock its owner out
(`users.go:175`, see the hazards). It holds through every failure, and through
pushes that make the account first.

**Scans.** `AnalysisInv` has three parts beside the shape of the records. `LockInv`:
a row that is held lies, in `MetricOrder`, before the one its scan asks for next,
or its scan is about to commit. Whoever a scan waits for is therefore further than
itself, and of the scans among their rows there is one that is furthest:
`ScansNeverDeadlock`. `StoredInv`: between its commit and the boards, a scan's rows
are all there as it computed them, but for those another call has written since.
`RowsOfOneScan` itself is kept because rows appear only in commits, all eight at once, or
posted. `PagePointsReachBoards` compares the total with the tiles metric by metric and
needs nothing about how scores come about.

`TruthInv` adds what a row says. `WorkInv` follows the files: a scan that has them
has those fetched at the commit it read, whatever was pushed since. `RowsInv` says
of a row that its level is that of its score and, unless it was posted, that its
flags and excerpts are what the evaluation makes of the files at the commit the row
names. `ScansMakeNothingUp` is then a matter of the eight evaluations, metric by
metric. `ExcerptsKeepWithinBudget` is about sums of lengths of any number of
excerpts; it is proved by induction. The library's induction theorems take an
operator as a parameter, which the provers cannot instantiate; but "a set of numbers
that has 0 and with each the next has all of them" is a statement about a *set* and
follows from the well-foundedness of `<` (lemma `Induction`). With it, lemmas about
`SumTo` say what a recursive function adds up to for every length.

**Hook rows.** `HooksInv` has a clause for each step a request can be at: what the
row names, what its request names, and what the tab has found while loading.
`HooksNumbered` (a number is of one hook of one repository, and at most one hook of
a repository is ours) is what GitHub is assumed to keep; with it a hook that was
read stays its repository's own, whatever is deleted and made again (`OwnHook`), so
that `ForeignHooksAreSafe`. `Truthful` is the property with the requests under way
in it: a row a click is working on may disagree in just the way its answer will
mend. It is excused where a change passed the row by, and for a row that offers Add
because the call for its repository's hooks failed and missed one (`missed`); an Added
row has no such excuse. A repository with more hooks than one answer holds is left
out.

**Pages.** A page of the list shows a final stretch of the projects asked for: what
matched and was not shown is below the cursor (`Page`), and when no further row came
back nothing was left (`LastPage`). Both are counting arguments over finite sets;
that a finite set of ids has a greatest member comes from the well-foundedness of
proper subset. `LeadersInv` is the same for offsets: a steady player who was not
shown has, while no score fell, at least as many players ahead of her as were paged
through, since those who were ahead stay there. An untied player stands, in every
order the query may return, right after those ahead of her. `StandingsInv` says of a
row that stayed as it was and untied that all who outrank it stood above it in the
chart or rose since; from that a new reading can put only those above it. `PagesInv`
says that each number a page has read is covered by the tables as they are, and the
later number by the earlier one, since ScoreLedger's tables only grow; the orders of
three reads are its three parts `HomeInv`, `CardInv` and `ProjectInv`.

**The assistant.** `AssistantInv` follows one call. While it is `alone`, no other is
under way (`AloneInv`); a session bears no call's name before that call has made it
(`UnmadeInv`); between making and prompting, the shared session is the call's own or
none (`RefreshInv`), and undisturbed the engine still has its model. `OthersKeep`
carries all other calls through a step, because a call beside which one moves is not
alone.

Every invariant and every action property the passing runs check is a theorem.
Model-checked only are the three liveness properties, `BoardsCatchUp`,
`StoredIsScored` and `ButtonsComeBack` (fairness and ENABLED are beyond the prover),
and the three violations, which are counterexamples.

## 5. Not modelled

OAuth exchanges, encryption, layout and wording, the proxy (which only fetches, from
allowed prefixes), the blog, help, translations, assets and wiring are I/O or
text. Avatars and tokens of accounts decide nothing modelled here.
Session expiry and its clean-up only remove rows that are not read any more.
`ApplyAnalysisAdjustment`, `DeactivateUser`, `DeactivateProject`, `ActivateGame`,
`GetPlayerRank`, teams, reports and the audit log have no caller. A regular
expression over a file's text is the word it looks for. Numbers are unbounded:
points stay far below the 32-bit columns' limit.

## 6. What is left

1. *An abstract specification of the scanner*: a project's rows are replaced as a whole
   or one at a time by an editor, and ProjectAnalysis shown to implement it;
   `AnalysisInv` already has what the refinement needs.
2. *An abstract specification of the hook rows*: a row tells of a hook or of none, a
   click changes one repository's hook of ours; Profile implements it up to the rows a
   change passed by.
3. *Exactness under interleaving*: `NoUpdateLost` holds for boards; for languages the
   same equality should hold of the calls past their loop.
4. *Deeper instances*: three scans, and a leaderboard over GameScoring's own rows in
   place of scores that move freely.
