# VibeBite in TLA+

TLA+ models, TLC configurations and TLAPS proofs about VibeBite
(`src/README.md`): a mobile app with which a group agrees on a restaurant. An
agent graph proposes, the owner of a mission approves or rejects, the members
state preferences and vote.

Paths below are relative to the repository. `PROJECT.json` lists every component,
run, mutant, mapped definition, finding, hazard and theorem.

    tlasany M.tla                      parse
    tlc -config X.cfg M                model-check (X.cfg, M: see "Runs")
    tlapm X_proofs.tla                 check the proofs about X

## 1. Inventory of the system

| Component | Where | State | Operations |
|---|---|---|---|
| Recommend graph | `services/agents/vibebite_agents/graph.py`, `state.py`, `nodes/` | one `GraphStateDict` per run, checkpointed by LangGraph after every superstep | eight nodes, the gate's interrupt, one conditional edge |
| Run lifecycle | `services/api/app/services/graph_service.py`, `vibebite_agents/audit.py`, `api/v1/agents.py`, `places.py`, `rankings.py` | `agent_runs`, `agent_run_steps`, `rankings`; asyncio tasks in memory | kick, approve, reject, drive, resume, close, publish, latest view |
| Votes | `api/v1/votes.py` | `votes`, two columns of `missions` | put, tally, finalize |
| Missions, members, invites | `services/mission_service.py`, `api/v1/missions.py` | `missions`, `mission_members`, `mission_invites` | create, update, delete, list, invite, redeem |
| Preferences | `api/v1/preferences.py` | `preferences` | get, save, parse a comment with the language model |
| Accounts and tokens | `services/auth_service.py`, `security/`, `api/v1/auth.py`, `users.py` | `users`; tokens are stateless | register, login, refresh, logout, change and delete the profile |
| Mobile client core | `apps/mobile/src/api/client.ts`, `state/authStore.ts`, `utils/storage.ts` | tokens on the device, signed-in user, the refresh in flight | attach, refresh, retry, sign in and out, hydrate at start-up |
| Mobile screens | `apps/mobile/app/` | the react-query cache, screen state | polling, optimistic votes, approve/reject |
| Language model, places API | `vibebite_agents/models.py`, `clients/` | none | a provider and its fallback, a keyword spotter, twelve fixed places |
| Demo driver | `vibebite_agents/run_demo.py` | the rows of the run it opens | drive the graph from gate to gate, record, print |
| Rest | `alembic/`, `config.py`, `scripts/seed.py`, theme, formatting | declarations | none that changes shared state |

How they meet:

- The mobile client calls the API over HTTP; a request owns one database session,
  committed or rolled back as a whole at its end (`dependencies.py`, autoflush off,
  no row locks anywhere).
- Kicking, approving and rejecting answer at once and leave an `asyncio` task
  behind in the API process. The task drives the graph and writes the run's row and
  rankings in sessions of its own. Nothing else knows about it: no queue, no lock,
  no recovery at start-up.
- The graph keeps its own state in LangGraph's checkpointer, under the run's id. The
  status of the `agent_runs` row and the position of the thread are two stores that
  only the tasks keep in step.
- The screens poll the row's status and decide from it what to offer; what they
  show lives in one query cache that all screens of the app share.
- The runs of all missions share the `places` table, and write it while searching.
- The demo driver uses the graph and the audit trail without the API.

Where it is hard:

- *Concurrency*: several tasks on one run; several sessions on one row, each
  writing only the columns that differ from what it loaded; several requests
  around one token refresh.
- *Failure*: a node or the database raises in the middle of a run; a closing write
  fails and is swallowed; the API process dies with its tasks; the app is killed
  between two writes to its storage.
- *Ordering*: the submitted overrides go through nodes that rewrite the dictionary
  they are kept in; a slow language model answers after the row has changed; a fetch
  started before a decision is answered after it; a screen is left while its
  request is under way.
- *Bounds*: the replan cap, `max_uses`, token lifetimes, budgets of zero.

What makes each part correct:

- Graph and runs: nothing is published that no gate approved; a rejection's overrides
  reach the next proposal; the rejection cycle ends at its cap, unless an override
  recounts it; a running row is driven, and decided in the end; a success went through
  an approving gate; a well-behaved client sees the promised life cycle.
- The recommendation: what a member ruled out is not proposed; the proposal is the
  best of the rest under the constraints of the moment; an override bites; the two
  copies of the dietary rules agree.
- Votes: overlapping upserts linearise; the pick is the documented maximum; the
  stored pair is one that was picked (which overlapping calls break, section 6).
- Invites: no more admissions than `max_uses` (section 6 too); a use is spent on an
  admission only; no request sent after a mission was deleted is admitted to it.
- Preferences: overlapping partial updates merge by column; inference never
  overrides what a member said (section 6 has where it does).
- Accounts: an email is one account's at a time, also under overlapping
  registrations; a token speaks for an account of its holder; a deletion is final.
- Client session: an expiring access token is invisible; every request is answered;
  what the device holds after a restart is the session the user has.
- Screens: what is at rest on a screen is what the server holds; a poll goes on no
  longer than its run does, or than its requests fail.
- Demo: what it records is what happened, and it ends.

`PROJECT.json` ("hazards") lists each place where this can go wrong, at its line.

## 2. The modules

    RecommendGraph        the graph as pure operators on GraphState
      AgentRuns           runs, tasks, checkpoints, rankings, faults
        AgentRunsRefinement   AgentRuns implements RunRows (run by MCAgentRuns)
        CarefulRuns           AgentRuns under the client's discipline,
                              which implements RunLifecycle
          AgentRuns_proofs    theorems of the three
      Recommendation        the graph on its data, with Scoring
        Recommendation_proofs
      DemoDriver            the graph driven from the command line
        DemoDriver_proofs
    RunRows, RunLifecycle   abstract specifications
    GroupProfile            the members' profiles and their merge
      Scoring                 hard rejections, points, order, pros and cons
    PlacesStub              the places the stub client serves
    Voting, Invites, Preferences, Accounts        one component each
      Voting_proofs, Invites_proofs, Preferences_proofs, Accounts_proofs
    ClientSession, MissionScreens                 the mobile app
      MobileApp_proofs                            theorems of both
    MCCarefulRuns, MCVoting                       symmetry for TLC
    MCAgentRuns, MCRecommendation, MCMissionScreens   inputs for TLC

**RecommendGraph** (graph.py, nodes/). `GraphState` is the part of
`GraphStateDict` that decides anything: the node to run next, the iteration count,
the constraint in force (`bar`), the pending overrides (`ask`), candidates,
shortlist, winner, the flag and the decision of the gate. A list of candidates is
named by the bar it was scored with, because that is what a rejection changes and
what an owner would notice. One operator per node returns the next state; the edges
are its `next` field. Overrides are any JSON object (`schemas/agent.py:59`), and
`replan` merges all of it into the dictionary that also holds `_replan_iteration`:
`Counters` says which overrides carry a count next to their bar, and which.
`parse_preferences` starts the count over, since it replaces the dictionary. `asked`,
`loops` (rejections gone through) and `recounted` (one of them carried a count) are
history.

**AgentRuns** (graph_service.py, audit.py, the agent and ranking routes).
`status` is the column of the `agent_runs` row, `thread` the last checkpoint,
`rankings` the batches of ranking rows, `task` the asyncio tasks with their program
counter. One action per await-free stretch: `Kick`, `Resume` (approve and reject),
`StartGraph`, `LoadThread`, one per node, three for the gate (`GateForce`,
`GateDecide`, `GateInterrupt`), `WriteRankings`, `EndInterrupted`, `EndSucceeded`,
`EndFailed`; `GraphRaises`, `EndRunFails`, `WriteRankingsFails` and `Crash` are the
failures. `Resume` has no guard on the status because the routes have none, so two
tasks may drive one run. LangGraph is external: it is modelled by what the code
relies on, one checkpoint per superstep, saved atomically, the latest one loaded
by a resume.

**CarefulRuns** adds the guard of the runs screen (`runs.tsx:145`, decisions are
offered on an interrupted run) to `Resume`, on the status the server holds.

**RunRows** is what a row may do whatever clients do: turned to running by a
request, closed at most once by each driver. **RunLifecycle** is what the members
are promised: running and interrupted alternate, at most one batch is published, a
closed run stays closed. `AgentRunsRefinement` maps the drivers of a run to the
number of its tasks; `CarefulRuns` maps `batches` to the number of its batches.

**GroupProfile**, **Scoring**, **PlacesStub** (parse_preferences.py, replan.py,
llm_stub.py; normalize_places.py, score_candidates.py; places_stub.py) are operators
without state: a member's view from what was stated and what was inferred, the
merge of all views, the overrides on top; whether a place is dropped, its points,
the order, its pros and cons. Points are counted in 18ths, so the one division of
the code, by 1.8, is exact.

**Recommendation** composes them with the control of RecommendGraph: one run with
its `views`, `profile`, candidates, shortlist and proposal, against the `rows` of
the places table that other runs write too. A node is one action, except
`parse_preferences` (a call of the language model per comment) and `search_places`
(a look, then a write). `env` is the configured providers: the stubs, a model that
may answer, fail over to the stub or raise, and the places client that is not
written and raises.

**DemoDriver** (run_demo.py, the wrapper `_wrap` in graph.py). One process over
RecommendGraph with the `agent_run_steps` rows the wrapper writes around every
node, the batches, and `log`, what the demo says happened.

**Voting** (votes.py). A request is load, then write; a write stores only what
differs from what was loaded. `stand` keeps the weights that acknowledged requests
leave possible, `picked` the pairs that finalize calls returned: all of them while
several are in flight, the stored one if it is among them once none is.

**Invites** (mission_service.py, missions.py). One mission with its members and
invites; redeeming is four steps, one per database call. `ForeignKeys` says whether
the database enforces them (Postgres) or not (SQLite, the default: `config.py:29`).
The run takes the default, the theorems both. `late` is history: the request was
sent after the mission was deleted.

**Preferences** (preferences.py). One row with one scalar and one list column for
the others of their kind; a parse waits for the language model between its load and
its write.

**Accounts** (auth.py, users.py, auth_service.py, deps.py, jwt.py). Requests against
the users table: registration is a look, a flush that holds the unique key, and a
commit or a refusal; PATCH and DELETE of the profile load, then write what they
changed. `access` and `refresh` are the tokens persons hold; nothing on the server
knows them.

**ClientSession** (client.ts, authStore.ts, storage.ts against auth.py, jwt.py). One
action per stretch between two awaits: the interceptors, the shared refresh, login
and logout; `Restart` kills the app at any of them and `Hydrate` reads the device.
Tokens are numbered; the server's side is who a token was issued for and whether
its time is over. `crossed` marks the three races of section 6, which
`SessionSurvives` leaves out.

**MissionScreens** (the overview, runs and vote screens of a mission). The query cache
is TanStack Query's as the screens use it, with one entry for the list of runs and one
for the tally. A request carries the level of the screen that sent it (`home`), 0 once
that screen is unmounted: the callbacks given to `mutate` die with the screen, those of
`useMutation` do not. A fetch that is asked for while another is under way replaces it
once the entry is `loaded`; the first fetch of an entry is joined instead (`Joins`), as
TanStack Query 5 does for want of data to fall back on. `blind` marks an entry whose
last fetch failed, or that nothing has read since the last invalidation, because no
screen showed it or because the invalidation joined a first fetch that had read the
server before; such an entry may be stale, and the properties speak of the others. Ticks
and fetches may fail at any time. Its specification is `ScreensSpec`, so that
`MobileApp_proofs` can extend it together with ClientSession. There is one member on one
device. The optimistic tally is modelled by object identity (`heap`), because the code
copies it one level deep. `left` is what the session may still do.

Acknowledgements are placed at the commit. Depending on the FastAPI version the
session of a request commits just before or just after the response leaves; the
properties hold in either order because they speak of requests that overlap.

## 3. Runs

| Run | Module, cfg | Distinct states | Question |
|---|---|---|---|
| agent_runs | MCAgentRuns | 605k | Is anything published unapproved, a rejection lost, the cap passed for any reason but a recount, a row undriven, undecided or closed twice, with two tasks on a run, two decisions at any time, exceptions, a failed write and a crash? |
| careful_runs | MCCarefulRuns | 82k | Do well-behaved clients see the promised life cycle, on two runs, faults included? |
| voting | MCVoting | 612k | Do overlapping votes linearise, is the pick the best? |
| invites_concurrent | Invites, InvitesConcurrent | 16k | On the default database, are uses spent on admissions only, does anybody join a deleted mission? |
| preferences_concurrent | Preferences, PreferencesConcurrent | 580k | Do overlapping saves and parses merge by column? |
| client_session | ClientSession | 266k | Is expiry invisible, is every request answered, what is left after a restart? |
| recommendation | MCRecommendation | 234k | Is what members ruled out never proposed, is the proposal the best, does an override bite? |
| mission_screens | MCMissionScreens | 505k | Do the screens at rest show what the server holds, what can make a poll go on for good? |
| accounts | Accounts, AccountsConcurrent | 906k | Is an email one account's, a token its holder's, a deletion final? |
| demo_driver | DemoDriver | 9.9k | Does the demo record what happened, in every mode and with failures, and end? |
| first_pass_overrides | MCAgentRuns, AgentRunsFirstPass | violation | `graph_service.py:135` |
| voting_finalize | MCVoting, VotingFinalize | violation | `votes.py:8-11` |

Why the bounds are enough:

- *Two tasks, one run.* Tasks of different runs share nothing but the list of
  rankings, where a batch carries its run; two tasks show every pairwise
  interleaving on one thread. `careful_runs` has two runs and two tasks.
- *`MAX_REPLAN_ITERATIONS` 1 or 2 instead of 3.* The cap is a parameter: 1 has a gate
  that asks and one that forces, and the two decisions of `agent_runs` reach both;
  2, in `careful_runs` and `demo_driver`, has one that asks again after a replan. The
  theorems hold for every cap.
- *Two overrides* are the least for which a newer one can be confused with an
  older one. One carries a count of zero and the other none (`Resetting`), so that
  two rejections pass the cap of one when the first resets the count, and only then.
  The theorems hold for any integers, those that raise the count included.
- *One crash and one failed write*: they may fall at any step. After them the system
  runs on, so a second one adds no new kind of state. Exceptions of the graph are not
  bounded.
- *Votes*: two users and two places are the least for which net score and upvotes
  disagree and a tie must be broken. The backup is the same operator on the places
  left: among two it has no rival. Two vote requests overlap each other and every
  step of a finalize; the theorem holds for any number. `voting_finalize` has two
  finalize requests, and one vote request to change the tally between them.
- *Invites*: three accounts let two strangers compete for one use.
- *Recommendation*: two members are the least that disagree; their four tastes have
  every kind of key, a comment that contradicts what is stated, and none. Six of the
  twelve places have every value of the flags and cuisines the tastes meet, and a
  shortlist of two of them (`TopN`, 5 in the code) is cut in ties. The overrides
  are a budget of zero, one between two prices, and two vetoes added at the gate. Two
  kicks let a run that lost the race for a place be repeated.
- *Accounts*: one email, two persons and two accounts are the least for an email to
  change hands; the requests that can meet on a row do so in two slots.
- *Screens*: four sessions, each bounding what matters to one question: two
  decisions on one run; a decision, a pull and a lost request; two runs; two votes, a
  pull and a lost vote. A longer session repeats these on other rows. Only kicks,
  decisions and votes that get lost are bounded in number: ticks and fetches fail as
  often as they like, and runs go on as long as they like.
- *Demo*: a cap of two is met by `--reject-twice`; the cap of the code, 3, is never
  met by the demo. Two failures: one of the graph and one of the record.
- *Restarts*: after one, the device and the app are in a state of `Init` or hold a
  session.
- *Tokens*: three access tokens let a login be followed by two refreshes, or by a
  sign-out, a login and a refresh.

Symmetry (interchangeable runs, slots, members, bars) is used only in runs without
liveness properties. Deadlock checking is off where the system may stop for good:
runs with a bounded number of kicks and decisions, and the client, whose tokens run
out. Each property has a mutant (`PROJECT.json`): a definition with a plausible bug
under which the run finds it violated. The mutants stand before the definition they
are a variant of.

## 4. Fairness

- `AgentRuns!FairSpec`: weak fairness of `TaskStep(t)` for each slot. The event loop
  keeps scheduling every task that can run, and a node that never returns would be
  ended by the timeout of its HTTP client, which is `GraphRaises`. Requests, faults
  and crashes owe nothing: an interrupted run may wait for its owner forever, which
  is why `RunsSettle` ends at "interrupted" too.
- `ClientSession!FairSpec`: weak fairness of each step of the device and of each
  answer: a request has a timeout of 30 s (`client.ts:67`), so it is answered or
  fails. The refresh is posted with plain axios, without a timeout, and relies on
  the network reporting a lost connection. People and clocks owe nothing.
- `MissionScreens!FairScreens`: timers of a mounted screen fire, ticks and fetches of
  the list are answered or fail (30 s again). Nothing is assumed of the server's runs,
  since one that is lost stays running, nor of the number of failures, since a 401, a
  403 or a 404 may last. So `PollsEnd` and `RunsCatchUp` name these reasons to go on:
  a run that the server has as running again and again, and requests that fail again
  and again. Users owe nothing: `RunsCatchUp` says what a screen that stays mounted
  shows.
- `DemoDriver!Spec`: weak fairness of its one process.

## 5. Proofs

Every theorem holds for any values of the constants, from the assumptions the module
states about them. A property a run checks is on the right in code type; the run
shows it on a small instance.

| Module | Theorem | Property | Rests on |
|---|---|---|---|
| AgentRuns_proofs | TypeCorrect | `TypeOK` | itself inductive |
| | StatesWellFormed | StateInv | TypeOK |
| | RejectionsAreHonoured | `RejectionsHonoured` | StateInv |
| | ReplanIsBounded | `ReplanBounded` | StateInv |
| | ApprovalInvariant | ApprovalInv | TypeOK |
| | PublishedIsApproved | `PublishedWasApproved` | ApprovalInv |
| | SucceededIsApproved | `SucceededWasApproved` | ApprovalInv |
| | RunningHasTask | `RunningIsDriven` | TypeOK, itself inductive |
| | ClosesAtEnd | `ClosesOnlyAtEnd` | ApprovalInv |
| | RowsAreImplemented | `ImplementsRows` | TypeOK, finitely many task slots |
| | OneDriver | `OneDriverPerRun` | CarefulInv |
| | DecisionsFindTheirGate | `DecisionFindsGate` | CarefulInv |
| | RunsImplementLifecycle | `ImplementsLifecycle` | CarefulInv |
| Recommendation_proofs | RunInvariant | RecInv | itself inductive |
| | NoVeto | `NoMemberVetoProposed` | RecInv |
| | DietCopiesAgree | `DietaryRulesAgree` | RecInv |
| | BestIsProposed | `ProposalIsBest` | RecInv |
| | VetoIsWarnedOf | `WarnsOfVeto` | the definition of the cons |
| | MembersPrevail | `StatedPrevails` | RecInv |
| | RaceIsLostOnce | `LosesRaceOnce` | RecInv |
| | LowerBudget | `TighterBudgetNeverHelps` | RecInv, the definition of the points |
| DemoDriver_proofs | TypeCorrect | TypeOK | DemoInv |
| | ProposalsAnswer | `ProposalsFollowDecisions` | DemoInv |
| | SuccessShowsApproved | `SucceededShowsApproved` | DemoInv |
| | RowsTraceThePath | `StepsTracePath` | DemoInv |
| | ProposalsAreKept | `EveryProposalKept` | DemoInv, KeptInv |
| MobileApp_proofs | TypeCorrect | TypeOK of ClientSession | itself inductive |
| | SessionIsKept | `SessionSurvives` | SessionInv |
| | ExpiryStaysInvisible | `ExpiryIsInvisible` | SessionInv |
| | DecisionIsShown | `DecisionShows` | RunsInv, LoadedInv |
| | TallyIsTheServers | `TallySettles` | TallyInv |
| Voting_proofs | VotesAreTheAcknowledged | `AckedVoteStands` | VoteInv |
| | TypeCorrect | TypeOK | VoteInv |
| | BestIsPicked | `PickIsBest` | the definition of the pick |
| Preferences_proofs | TypeCorrect | TypeOK | PrefInv |
| | ColumnsAreTheAcknowledged | `AckedColumnsStand` | PrefInv |
| Invites_proofs | TypeCorrect | TypeOK | InvitesInv |
| | UsesAreSpentOnAdmissions | `UsesAreAdmissions` | UsesInv |
| | DeletedMissionsAdmitNobody | `NobodyJoinsAfterDeletion` | InvitesInv, LateInv |
| Accounts_proofs | TypeCorrect | TypeOK | KeysInv |
| | EmailsAreUnique | `OneAccountPerEmail` | KeysInv |
| | TokensAreTheirHolders | `TokensMatchPasswords` | TokenInv |
| | DeletedForGood | `DeletionIsFinal` | ScrubInv |

What the theorems assume of the constants, each stated by name in its module and
evaluated by TLC in every run:

- the markers for "no row", "no token", "no thread" are no values of their columns,
  and bounds and sizes are natural numbers;
- `CatalogAssumption`: the places client returns finitely many places, `veg`,
  `vegan` and ratings have their types, and no two places have one rank; the sort of
  the code is stable, so the rank stands for the name and, among equal names, for
  the order they were found in;
- `NumbersAssumption`: budgets and noise levels are integers or absent, wherever
  they come from (the fields of `GroupConstraints` are `int | None`);
- `SizesAssumption`: at least one member, and a shortlist of two or more places;
- `CountersAssumption`: the counts that overrides carry are integers (`int` turns
  another value into one or makes the gate raise); `BudgetAssumption`: the overrides of
  the demo carry none;
- `UsersAssumption`, `SessionsAssumption`: finitely many members vote, finitely many
  kinds of session are possible.

One theorem states a further hypothesis: `RowsAreImplemented` that the task slots are
finitely many.

The arguments:

- *`StateInv`.* `RejectionsHonoured` says something at the gate only. To be inductive it
  must say what holds at each node on the way there: past `parse_preferences` the bar in
  force is the wanted one (`Wanted`) and no override is pending, except between the gate
  and `replan`, where the pending override is the wanted one. For `ReplanBounded` it
  says that a state whose count no override has touched has counted its rejections, and
  stopped at the cap. Because a task copies the checkpoint and a superstep copies the
  task's state back, the invariant is stated of both, and every step of any number of
  tasks moves a good state into a good place.
- *`ApprovalInv`.* A list is approved at the gate but published several steps
  later, perhaps by another task that loaded the finished thread. The invariant
  therefore says that every state at END, in a task or a checkpoint, carries a list
  approved for its run, and that only tasks with such a state are publishing or
  closing.
- *`RunningIsDriven`* is inductive: a step that turns a row to running puts a task
  in a slot, and the step that empties a slot closes the row or records the loss.
- *`RowsAreImplemented`.* The mapping counts the tasks of a run. A request adds one
  to a slot that was free, a closing write removes one, a crash removes some; that
  is all the rows ever see.
- *`CarefulInv`.* A careful client keeps a run to one task, and its three stores in
  step: the row says running while there is a task, the task's state is the
  checkpointed one, a run that waits has its thread at the gate below the cap, and
  a batch of rankings leaves its task nothing to do but to close the run. The
  refinement to `RunLifecycle` follows step by step; its hard case is that a run that
  fails has published nothing, which is the last clause.
- *`RecInv`* says what each node leaves for the next one. `ViewsInv`: the views of the
  members parsed so far keep what each of them stated. `ProfileInv`: until the first
  replan the profile is the merge of these views. `CandsInv`: the candidates passed
  the filter of that merge, which is why a profile that overrides have loosened since
  cannot bring a veto back, the filter being run once. `ListInv` and `ScoredInv`: from
  the explanation to the gate the shortlist is the top of the candidates under the
  profile in force. `RaceInv`: a search that lost the race has left every place with a
  row, and every later one looks after that.
- *The best of a finite set* needs no induction. In Recommendation (`RanksAreOnto`) the
  numbers of places ahead of each are different and below the number of places, so
  all of them occur: every position of a list is taken, the first one too. In
  Voting and for the bounds of MissionScreens, the sets of those ahead have a minimal
  one under strict inclusion, which is well-founded on finite sets, and it is empty.
- *`TighterBudgetNeverHelps`* compares the points of two profiles case by case over
  the branches of `ScoreBudget`; no invariant is needed.
- *`DemoInv`.* The decisions in the log, the graph's state and the rows are written by
  different steps. While the demo resumes, the log is one entry ahead of the graph;
  otherwise its last rejection is what is in force (`LogInv`). The last batch is the
  proposal's, as far as the writes went well (`BatchInv`), and the node that is due
  follows the one recorded last (`StepInv`). `KeptInv` then only has to count: each
  proposal that is asked about adds one batch, at its rank.
- *`SessionInv`.* `SessionSurvives` speaks of moments when nothing is under way;
  `SyncInv` says in every state what the device holds: the session of the store, or
  that of a login that has yet to enter, or nothing, while somebody is about to
  empty the store. It stops where a race was lost (`crossed`). `ExpiryIsInvisible`
  follows with `BasicInv`: only a request whose refresh was refused goes on to clear.
- *`RunsInv`, `TallyInv`.* They follow a query's entry from the read of the server to
  the reply. An answered decision drops the fetch that may have read too early, or
  marks the entry when no screen shows it; so what a fetch has read, and what the
  entry holds at rest, is no older than any answer. `LoadedInv` is why the decision
  never joins a first fetch: it was taken on a run that the list showed. A vote can,
  before the tally has come, which is what `blind` records. `TallyInv` says it of the bucket
  the entry refers to, whatever the optimistic copies share with it.
- *`VoteInv`, `PrefInv`.* The properties say what acknowledged requests leave behind,
  but nothing about a request between its load and its flush. `FoundOrSince` does:
  what it found is still there, or what others acknowledged since is. That is what
  makes it right not to write a column whose value equals the one loaded.
- *`LimitInv`, `UsesInv`.* A request past the check of an invite read a count below
  the limit, and no more than the admissions so far; an admitted user is a member as
  long as the mission exists. So the write, which needs the membership row to be
  free, adds one admission, and one to a count that is no larger than before.
- *`LateInv`.* A mission never comes back, and a request sent after its deletion gets no
  further than the look at the mission, whatever rows of it are left.
- *`KeysInv`, `TokenInv`, `ScrubInv`.* Rows, inserts and loaded requests agree on what
  exists, so that an insert in flight owns its email; the account of a token exists,
  under a password that never changes; what a deletion has cleared, no request that
  loaded the row before is about to write.

Each invariant is shown preserved by one lemma per action or group of actions, and
the theorem joins them with `PTL`.

What stays with TLC: the properties that state liveness, `RunsSettle`,
`RequestsSettle`, `PollsEnd`, `RunsCatchUp` and `DemoEnds`, because fairness is about
ENABLED and both are outside the prover's reach. `FirstPassHonoursOverrides`
and `StoredPairWasPicked` are violated (section 6).

## 6. What the code does not keep

Two runs show a behaviour that the code's own words exclude:

- *first_pass_overrides*: overrides submitted with a kick are wiped by
  `parse_preferences` before the first scoring pass.
- *voting_finalize*: two overlapping finalize calls leave a winner of one and a backup
  of the other (`votes.py:178`), possibly one place as both. `votes.py:8-11` says that
  a call writes both onto the row and returns the pair.

Met while modelling, in the modules but without a run:

Runs and the graph

- Approving a run twice publishes two batches under one run id, and
  `rankings/latest` returns both (`rankings.py:47`; `implementation.md:800` has one
  list per run).
- An empty shortlist still interrupts for approval: nothing reads
  `needs_human_approval`, and the edge to the gate is unconditional (`graph.py:396`;
  `select_winner.py:35` says the graph can end).
- The third rejection replans; it is the gate after it that forces, on a proposal
  nobody has seen (`graph.py:277`; `implementation.md:800` says "on the third
  rejection").
- A rejection whose overrides carry `_replan_iteration` sets the count of the cap
  (`replan.py:44`, `graph.py:272`): zero each time makes the cycle as long as the
  owner likes, a large one forces the next gate. `graph.py:274` wants the loop stopped
  at the cap; `ReplanBounded` excepts the states that such a rejection recounted.
- The prompt a comment is rendered into says "budget" itself, so the stub reads a
  budget of 1500 for every commenting member who stated none; its "fancy" branch
  (8000) is never reached. The prompt of `explain_candidates` always says
  "vegetarian" and "budget" too, so the stub gives every place those pros.
- A cuisine match earns 10 of the 20 points cuisine can have: no place reaches 100,
  and cuisine is never among the pros.
- A place of price level 0 costs 10000 cents to `ScoreBudget`.
- Diets and dislikes added at a gate only change scores: the candidates stay, and a
  model's explanation may replace the con that warns of a veto.
- `ResilientLLM` tells transient failures by words in the message; a timeout or a
  dropped connection that says none of them fails the run.
- With `GOOGLE_PLACES_API_KEY` set, every run fails with `NotImplementedError`.

Requests

- Two overlapping redeems both pass the check of `max_uses` (`mission_service.py:284`,
  `missions.py:94`).
- What a member saves while a parse waits for the language model is overwritten by
  what the model inferred (`preferences.py:171`; `preferences.py:168` wants blanks
  filled only).
- The default database is SQLite (`config.py:29`) and nothing turns its foreign keys
  on, so the cascade `mission_service.py:235` relies on does not happen: the members
  and invites of a deleted mission stay, and a request that had seen the mission is
  still admitted. `invites_concurrent` checks that default; what holds there is that
  no later request is.
- Redeeming as a member answers 409 (`missions.py:95`); `mission_service.py:272`
  wants 200.
- A PATCH of the profile that overlaps its deletion writes a name or an avatar to the
  deleted row, or keeps it from being cleared (`users.py:45`; `users.py:42` says the
  deletion scrubs PII): `DeletionIsFinal` excepts the two overlapping (`overlapped`).
- Deleting an account frees its email, although `auth_service.py:41` treats a deleted
  row as taking it. `/refresh` does not look at the row and mints access tokens for
  deleted accounts, which no route accepts.

The mobile app

- Three races of the session (`crossed`): a refresh that ends after a logout stores
  an access token again (`client.ts:111`), which the next start takes for a session;
  a failing refresh clears the tokens while a login is storing its own; a failing
  request of an old session empties the store of the next one.
- A tick in flight when its overview is left goes on, arms its timer again and later
  pushes the runs screen over whatever is visible; an overview mounted again does
  not know of it and can kick a second run.
- The overview also stops on `completed` (`index.tsx:61`), a status the server never
  writes.
- The rollback of a vote restores a copy that shares its buckets with what was
  changed, so it undoes nothing when the place had a bucket; the fetch that follows
  does.
- The reject modal keeps the run it was opened for; an approval and a rejection can
  both be sent for one pause.
- An invalidation of a list no screen shows, while an older fetch of it is under way,
  is forgotten when that fetch ends: the list may be up to 30 seconds old.
- A poll of the overview takes every error for a passing one (`index.tsx:66`): with
  the mission deleted, the member removed, the session over or the run lost by the
  server it asks every two seconds until the screen is left, and on after that if a tick was
  in flight then.
- A vote pressed before the tally has come cancels its first fetch. If a pull starts
  another, which reads before the vote is stored, the invalidation after the vote
  joins it (`vote.tsx:105`), and the tally rests without the vote until the next fetch.
- The rankings query is never invalidated after an approval.

The demo

- The approved proposal is written twice, once as a proposal and once as the result;
  rejected proposals are in `rankings/latest` while the demo runs.
- `--no-db` still opens the SQLite checkpoint file. A killed demo leaves its row
  running.
- The latency recorded for the gate is that of the resumed call alone, against the
  comment at `graph.py:261`.
- The help of `--reject` says it loosens the budget; the second rejection tightens it
  to 1000.

## 7. What is not modelled

- `update_mission` (one row, the last writer wins) and the cursor of the mission list.
- Refused passwords and hashing; an explicit null for a list field of a preferences
  payload.
- Other members on the screens, whose votes and decisions reach a device with its next
  fetch, and the collection of cache entries no screen has shown for five minutes.
- Of the screens, the forms (sign-in, new mission, preferences, profile) and lists
  that are only shown; layout, theme, formatting.
- How messages become a prompt and an answer becomes a profile (`OpenAILLM`,
  `GeminiLLM`), which words of a message count as transient, the Google client (it
  is not written).
- The list keys' order, names and texts; `distance_tolerance_m` and
  `seating_preference`, which are merged and read by nobody.
- The seed script, migrations, configuration, health, logging: run once, by hand or
  at start-up. What matters of the schema (keys, foreign keys) is in the guards.
- What `implementation.md` plans but the code does not contain: workers, MCP tools,
  incidents.

## 8. Plan

1. *Done*: runs and graph with their refinements; the recommendation on its data;
   votes, invites, preferences and accounts; the client session with restarts; the
   mission's screens over the query cache; the demo driver. Every safety invariant,
   action property and refinement that a run checks is proved.
2. *Next, proofs*: the order of the pros and cons in `Scoring`; which races set
   `crossed` in ClientSession; each column of the stored pair by itself when finalize
   requests overlap, for which `picked` would have to be kept per column.
3. *Models left*: the pages of the mission list over missions created and deleted
   between two of them; `update_mission`; the seed script over a database it or the
   demo has written before.
