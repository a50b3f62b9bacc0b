--------------------------- MODULE MissionScreens ---------------------------
(***************************************************************************)
(* The screens of one mission in apps/mobile/app/(app)/missions/[id]:      *)
(* the overview that kicks a run and polls it, the runs screen with the    *)
(* owner's decisions, and the vote screen with its optimistic tally, over  *)
(* the query cache they share.  Requests are answered in any order, and a  *)
(* screen may be left while one of its requests is under way.              *)
(*                                                                         *)
(* The query cache is TanStack Query's, as the screens use it: one entry   *)
(* for each query; at most one fetch of it, which a new one replaces once  *)
(* the entry has data, and which the new one joins before that; an         *)
(* invalidation fetches again while a screen that shows the query is       *)
(* mounted and marks the entry otherwise; a screen that mounts fetches a   *)
(* marked entry, and may fetch one that is 30 seconds old.                 *)
(***************************************************************************)
EXTENDS Integers, Sequences, SequencesExt, FiniteSetsExt

CONSTANT Sessions   \* what one session may do: the screens it opens and a
                    \* bound on each kind of request and on those of the
                    \* user that fail; ticks and fetches may fail at any time

Kinds == {"recommend", "decide", "vote", "pull", "fault"}
Bound(kind) == Max({session[kind] : session \in Sessions})

ASSUME SessionsAssumption ==
    /\ IsFiniteSet(Sessions)
    /\ \A s \in Sessions : s.screens \subseteq {"overview", "runs", "vote"}
                             /\ \A kind \in Kinds : s[kind] \in Nat

VARIABLES
    stack,      \* the mounted screens, the visible one last
    kicks,      \* POST places/refresh under way: [id, home]
    pollers,    \* ticks of the overview's poll: [run, at, home]
    srv,        \* the server's runs: [status, turn], turn counting decisions
    runsQ,      \* the entry ['agent-runs', id]: [loaded, data, stale, at, read, blind]
    decisions,  \* approve and reject requests: [id, run, kind, at, home]
    modals,     \* open reject modals: [run, home]
    answered,   \* history: run -> last turn answered on a mounted runs screen
    mine,       \* the server's row of this member's vote
    tallyQ,     \* the entry ['vote-tally', id], as runsQ
    heap,       \* the vote buckets in memory: object -> counts
    votes,      \* vote requests: [id, weight, at, prev]
    left        \* what the session may still do

navVars == <<stack>>
runVars == <<kicks, pollers, srv, runsQ, decisions, modals, answered>>
voteVars == <<mine, tallyQ, heap, votes>>
screenVars == <<navVars, runVars, voteVars, left>>

(***************************************************************************)
(* `home` is the level of the screen a request belongs to, 0 once that     *)
(* screen has been unmounted.  An entry's `at` is "idle", "sent" or "read" *)
(* (the server has read `read`); it is `loaded` once a fetch brought data, *)
(* `stale` while it is marked.  `blind` is history: the last fetch failed, *)
(* or nothing was fetched after the last invalidation.                     *)
(***************************************************************************)
Screens == {"overview", "runs", "vote"}
Top == Len(stack)
Visible == stack[Top]
Mounted(s) == \E i \in DOMAIN stack : stack[i] = s

NoVote == "none"

\* A vote bucket, and enough of them for the entry and what the votes keep.
Counts(vote) == [up |-> IF vote = "up" THEN 1 ELSE 0,
                 veto |-> IF vote = "veto" THEN 1 ELSE 0]
Objects == 1..(Bound("vote") + 2)

Entry == [loaded |-> FALSE, data |-> << >>, stale |-> TRUE, at |-> "idle",
          read |-> << >>, blind |-> TRUE]

ScreensInit ==
    /\ stack = <<"overview">>
    /\ kicks = {} /\ pollers = {} /\ srv = << >>
    /\ runsQ = Entry /\ decisions = {} /\ modals = {} /\ answered = << >>
    /\ mine = NoVote /\ tallyQ = Entry
    /\ heap = [o \in Objects |-> Counts(NoVote)] /\ votes = {}
    /\ left \in Sessions

Spend(kind) == left[kind] > 0 /\ left' = [left EXCEPT ![kind] = @ - 1]
Fault == Spend("fault")
Free == UNCHANGED left

----------------------------------------------------------------------------
(* The query cache. *)

Fetch(q) == [q EXCEPT !.at = "sent", !.blind = FALSE]

\* Mutant of Refetch: a fetch under way is kept.
RefetchUnlessBusy(q) == IF q.at = "idle" THEN Fetch(q) ELSE q

\* The first fetch of an entry is joined, not replaced.
Joins(q) == q.at # "idle" /\ ~q.loaded

Refetch(q) == IF Joins(q) THEN q ELSE Fetch(q)

\* Nothing reads the server again: no screen shows the query, or the fetch
\* that is joined has read it before.
Misses(q, active) == ~active \/ (Joins(q) /\ q.at = "read")

Invalidate(q, active) ==
    LET marked == [q EXCEPT !.stale = TRUE] IN
    IF Misses(q, active) THEN [marked EXCEPT !.blind = TRUE] ELSE Refetch(marked)

\* A mounting screen joins a fetch under way.
OnMount(q) ==
    IF q.at # "idle" THEN {q} ELSE IF q.stale THEN {Fetch(q)} ELSE {q, Fetch(q)}

Reads(q, now) == [q EXCEPT !.at = "read", !.read = now]
Replies(q, data) == [q EXCEPT !.at = "idle", !.loaded = TRUE, !.data = data, !.stale = FALSE]

\* setQueryData, which also takes the mark away.
SetData(q, data) == [q EXCEPT !.data = data, !.stale = FALSE]

FetchFails(q) == [q EXCEPT !.at = "idle", !.blind = TRUE]

----------------------------------------------------------------------------
(* Navigation. *)

\* A request of an unmounted screen goes on.
Orphan(p) == {[p EXCEPT !.home = 0]}

\* What is left when the screen on top is unmounted: a timer is cleared, a
\* modal closed, the requests go on.
Unmount ==
    /\ kicks' = {[k EXCEPT !.home = IF @ = Top THEN 0 ELSE @] : k \in kicks}
    /\ pollers' = {p \in pollers : p.home # Top}
                    \cup UNION {Orphan(p) : p \in {q \in pollers : q.home = Top
                                                               /\ q.at # "timer"}}
    /\ decisions' = {d \in decisions : d.home # Top} \cup
         {[d EXCEPT !.home = 0] : d \in {e \in decisions : e.home = Top /\ e.at # "settling"}}
    /\ modals' = {m \in modals : m.home # Top}

MountEntries(s) ==
    /\ runsQ' \in IF s = "runs" THEN OnMount(runsQ) ELSE {runsQ}
    /\ tallyQ' \in IF s = "vote" THEN OnMount(tallyQ) ELSE {tallyQ}

\* The tab bar replaces the visible screen.
Tab(s) ==
    /\ s # Visible /\ s \in left.screens
    /\ stack' = [stack EXCEPT ![Top] = s]
    /\ Unmount /\ MountEntries(s) /\ Free
    /\ UNCHANGED <<srv, answered, mine, heap, votes>>

\* The screen below has stayed mounted.
Back ==
    /\ Top > 1
    /\ stack' = Front(stack)
    /\ Unmount /\ Free
    /\ UNCHANGED <<srv, runsQ, answered, mine, tallyQ, heap, votes>>

----------------------------------------------------------------------------
(* The overview: Recommend! and the poll. *)

Working(i) == \/ \E p \in pollers : p.home = i /\ p.at # "leaving"
              \/ \E k \in kicks : k.home = i

Recommend ==
    /\ Visible = "overview" /\ ~Working(Top) /\ Spend("recommend")
    /\ kicks' = kicks \cup {[id |-> left.recommend, home |-> Top]}
    /\ UNCHANGED <<navVars, pollers, srv, runsQ, decisions, modals, answered, voteVars>>

\* The server has kicked a run; an overview that is still mounted polls it.
Recommended(k) ==
    /\ k \in kicks /\ kicks' = kicks \ {k}
    /\ srv' = Append(srv, [status |-> "running", turn |-> 0])
    /\ answered' = Append(answered, 0)
    /\ \/ /\ Free
          /\ pollers' = pollers \cup
               (IF k.home = 0 THEN {}
                ELSE {[run |-> Len(srv'), at |-> "timer", home |-> k.home]})
       \/ Fault /\ UNCHANGED pollers
    /\ UNCHANGED <<navVars, runsQ, decisions, modals, voteVars>>

Becomes(p, at) == pollers' = (pollers \ {p}) \cup {[p EXCEPT !.at = at]}

TickFires(p) ==
    /\ p \in pollers /\ p.at = "timer"
    /\ Becomes(p, "asking") /\ Free
    /\ UNCHANGED <<navVars, kicks, srv, runsQ, decisions, modals, answered, voteVars>>

Over(status) == status # "running"

\* Once the run is no longer running the list of runs is invalidated, and a
\* run that waits for its owner takes the user to the runs screen.  The
\* server never says "completed", the other status the poll looks for.
TickAnswered(p) ==
    /\ p \in pollers /\ p.at = "asking" /\ Free
    /\ IF ~Over(srv[p.run].status) THEN Becomes(p, "timer") /\ UNCHANGED runsQ
       ELSE /\ IF srv[p.run].status = "interrupted" THEN Becomes(p, "leaving")
               ELSE pollers' = pollers \ {p}
            /\ runsQ' = Invalidate(runsQ, Mounted("runs"))
    /\ UNCHANGED <<navVars, kicks, srv, decisions, modals, answered, voteVars>>

\* Mutant of AfterError: the error ends the poll, the button keeps spinning.
AfterErrorGivesUp(p) == Becomes(p, "dead")

AfterError(p) == Becomes(p, "timer")

TickFails(p) ==
    /\ p \in pollers /\ p.at = "asking" /\ Free
    /\ AfterError(p)
    /\ UNCHANGED <<navVars, kicks, srv, runsQ, decisions, modals, answered, voteVars>>

\* Whatever screen is visible by now, the runs screen is pushed on top.
LeaveForRuns(p) ==
    /\ p \in pollers /\ p.at = "leaving"
    /\ pollers' = pollers \ {p}
    /\ stack' = Append(stack, "runs")
    /\ MountEntries("runs") /\ Free
    /\ UNCHANGED <<kicks, srv, decisions, modals, answered, mine, heap, votes>>

\* The run of the server pauses or ends.
RunMoves(r) ==
    /\ r \in DOMAIN srv /\ srv[r].status = "running"
    /\ \E s \in {"interrupted", "ended"} :
          srv' = [srv EXCEPT ![r].status = s]
    /\ Free
    /\ UNCHANGED <<navVars, kicks, pollers, runsQ, decisions, modals, answered, voteVars>>

----------------------------------------------------------------------------
(* The runs screen. *)

\* Mutant of HasRunning: only a pending run is worth polling.
HasPending(list) == \E r \in DOMAIN list : list[r].status = "pending"

HasRunning(list) == \E r \in DOMAIN list : list[r].status \in {"running", "pending"}

RunsEntry(q) ==
    runsQ' = q /\ UNCHANGED <<navVars, kicks, pollers, srv, decisions, modals, answered, voteVars>>

RunsInterval ==
    /\ Mounted("runs") /\ HasRunning(runsQ.data) /\ runsQ.at = "idle"
    /\ RunsEntry(Fetch(runsQ)) /\ Free

RunsPulled == Visible = "runs" /\ RunsEntry(Refetch(runsQ)) /\ Spend("pull")
RunsRead == runsQ.at = "sent" /\ RunsEntry(Reads(runsQ, srv)) /\ Free
RunsReply == runsQ.at = "read" /\ RunsEntry(Replies(runsQ, runsQ.read)) /\ Free
RunsFail == runsQ.at = "sent" /\ RunsEntry(FetchFails(runsQ)) /\ Free

Shows(r, s) == r \in DOMAIN runsQ.data /\ runsQ.data[r].status = s
Pending(kind) == \E d \in decisions : d.kind = kind /\ d.home = Top
ModalOpen == \E m \in modals : m.home = Top

Decide(r, kind) ==
    /\ ~Pending(kind) /\ Spend("decide")
    /\ decisions' = decisions \cup
         {[id |-> left.decide, run |-> r, kind |-> kind, at |-> "sent", home |-> Top]}

Approve(r) ==
    /\ Visible = "runs" /\ ~ModalOpen /\ Shows(r, "interrupted")
    /\ Decide(r, "approve")
    /\ UNCHANGED <<navVars, kicks, pollers, srv, runsQ, modals, answered, voteVars>>

\* The modal keeps the run it was opened for, whatever becomes of it.
OpenReject(r) ==
    /\ Visible = "runs" /\ ~ModalOpen /\ Shows(r, "interrupted")
    /\ modals' = modals \cup {[run |-> r, home |-> Top]} /\ Free
    /\ UNCHANGED <<navVars, kicks, pollers, srv, runsQ, decisions, answered, voteVars>>

CloseReject ==
    /\ ModalOpen /\ Free
    /\ modals' = {m \in modals : m.home # Top}
    /\ UNCHANGED <<navVars, kicks, pollers, srv, runsQ, decisions, answered, voteVars>>

SubmitReject ==
    /\ \E m \in modals : m.home = Top /\ Decide(m.run, "reject")
    /\ UNCHANGED <<navVars, kicks, pollers, srv, runsQ, modals, answered, voteVars>>

Turns(d, at) == decisions' = (decisions \ {d}) \cup {[d EXCEPT !.at = at]}

\* The server takes a decision for a run in whatever status.
DecisionServed(d) ==
    /\ d \in decisions /\ d.at = "sent"
    /\ srv' = [srv EXCEPT ![d.run] = [status |-> "running", turn |-> @.turn + 1]]
    /\ Turns(d, "served") /\ Free
    /\ UNCHANGED <<navVars, kicks, pollers, runsQ, modals, answered, voteVars>>

DecisionAnswered(d) ==
    /\ d \in decisions /\ d.at = "served" /\ Free
    /\ IF d.home = 0 THEN decisions' = decisions \ {d} ELSE Turns(d, "settling")
    /\ modals' = IF d.kind = "reject" THEN {m \in modals : m.home # d.home} ELSE modals
    /\ runsQ' = Invalidate(runsQ, Mounted("runs"))
    /\ answered' = IF Mounted("runs") THEN [answered EXCEPT ![d.run] = srv[d.run].turn]
                   ELSE answered
    /\ UNCHANGED <<navVars, kicks, pollers, srv, voteVars>>

\* The button is released when the fetch has ended or been replaced.
DecisionSettled(d) ==
    /\ d \in decisions /\ d.at = "settling" /\ Free
    /\ decisions' = decisions \ {d}
    /\ UNCHANGED <<navVars, kicks, pollers, srv, runsQ, modals, answered, voteVars>>

\* The request or its answer is lost; nothing is fetched again.
DecisionFails(d) ==
    /\ d \in decisions /\ d.at \in {"sent", "served"} /\ Fault
    /\ decisions' = decisions \ {d}
    /\ UNCHANGED <<navVars, kicks, pollers, srv, runsQ, modals, answered, voteVars>>

----------------------------------------------------------------------------
(* The vote screen: one place and one member. *)

TallyEntry(q) == tallyQ' = q /\ UNCHANGED <<navVars, runVars, mine>>

Bump(counts, w) == [counts EXCEPT ![w] = @ + 1]

\* tallyQ.data is << >> before the first fetch, then <<o>>: the place's
\* bucket is the object o, or there is none and o = 0.
Elements(q) == {q[i] : i \in DOMAIN q}
Referred == Elements(tallyQ.data) \cup UNION {Elements(v.prev) : v \in votes}
NewObject == CHOOSE o \in Objects \ Referred : \A n \in Objects \ Referred : o <= n

TallyPulled == Visible = "vote" /\ TallyEntry(Refetch(tallyQ)) /\ Spend("pull") /\ UNCHANGED <<heap, votes>>
TallyRead == tallyQ.at = "sent" /\ TallyEntry(Reads(tallyQ, <<mine>>)) /\ Free /\ UNCHANGED <<heap, votes>>
TallyFail == tallyQ.at = "sent" /\ TallyEntry(FetchFails(tallyQ)) /\ Free /\ UNCHANGED <<heap, votes>>

\* A reply brings a new object.
TallyReply ==
    /\ tallyQ.at = "read" /\ Free
    /\ IF tallyQ.read = <<NoVote>>
       THEN TallyEntry(Replies(tallyQ, <<0>>)) /\ UNCHANGED heap
       ELSE /\ TallyEntry(Replies(tallyQ, <<NewObject>>))
            /\ heap' = [heap EXCEPT ![NewObject] = Counts(tallyQ.read[1])]
    /\ UNCHANGED votes

\* onMutate first cancels the fetch under way.
VotePressed(w) ==
    /\ Visible = "vote" /\ Spend("vote")
    /\ votes' = votes \cup {[id |-> left.vote, weight |-> w, at |-> "cancelling", prev |-> << >>]}
    /\ tallyQ' = [tallyQ EXCEPT !.at = "idle"]
    /\ UNCHANGED <<navVars, runVars, mine, heap>>

VoteTurns(v, u) == votes' = (votes \ {v}) \cup {u}

\* Then it keeps the entry and counts the vote in a shallow copy: a bucket
\* that is there is shared with the copy that was kept.
VoteShown(v) ==
    /\ v \in votes /\ v.at = "cancelling" /\ Free
    /\ VoteTurns(v, [v EXCEPT !.at = "sent", !.prev = tallyQ.data])
    /\ IF tallyQ.data = << >> THEN UNCHANGED <<tallyQ, heap>>
       ELSE IF tallyQ.data = <<0>>
       THEN /\ tallyQ' = SetData(tallyQ, <<NewObject>>)
            /\ heap' = [heap EXCEPT ![NewObject] = Bump(Counts(NoVote), v.weight)]
       ELSE /\ heap' = [heap EXCEPT ![tallyQ.data[1]] = Bump(@, v.weight)]
            /\ tallyQ' = SetData(tallyQ, tallyQ.data)
    /\ UNCHANGED <<navVars, runVars, mine>>

VoteServed(v) ==
    /\ v \in votes /\ v.at = "sent" /\ Free
    /\ mine' = v.weight
    /\ VoteTurns(v, [v EXCEPT !.at = "served"])
    /\ UNCHANGED <<navVars, runVars, tallyQ, heap>>

\* Mutant of Settled: only a vote that failed is worth a fetch.
SettledQuietly(q, failed) == IF failed THEN Invalidate(q, Mounted("vote")) ELSE q

\* onSettled invalidates the tally, after a success and after an error.
Settled(q, failed) == Invalidate(q, Mounted("vote"))

VoteAnswered(v) ==
    /\ v \in votes /\ v.at = "served" /\ Free
    /\ votes' = votes \ {v}
    /\ tallyQ' = Settled(tallyQ, FALSE)
    /\ UNCHANGED <<navVars, runVars, mine, heap>>

\* The request or its answer is lost; the kept entry is put back.
VoteFails(v) ==
    /\ v \in votes /\ v.at \in {"sent", "served"} /\ Fault
    /\ votes' = votes \ {v}
    /\ tallyQ' = Settled(IF v.prev = << >> THEN tallyQ ELSE SetData(tallyQ, v.prev), TRUE)
    /\ UNCHANGED <<navVars, runVars, mine, heap>>

----------------------------------------------------------------------------
User ==
    \/ \E s \in Screens : Tab(s)
    \/ Back \/ Recommend \/ RunsPulled \/ CloseReject \/ SubmitReject \/ TallyPulled
    \/ \E r \in DOMAIN srv : Approve(r) \/ OpenReject(r)
    \/ \E w \in {"up", "veto"} : VotePressed(w)

Polling == \E p \in pollers : TickFires(p) \/ TickAnswered(p) \/ TickFails(p) \/ LeaveForRuns(p)

Network ==
    \/ \E k \in kicks : Recommended(k)
    \/ \E d \in decisions : DecisionServed(d) \/ DecisionAnswered(d) \/ DecisionSettled(d)
                              \/ DecisionFails(d)
    \/ \E v \in votes : VoteShown(v) \/ VoteServed(v) \/ VoteAnswered(v) \/ VoteFails(v)
    \/ RunsInterval \/ RunsRead \/ RunsReply \/ RunsFail
    \/ TallyRead \/ TallyReply \/ TallyFail

ScreensNext == User \/ Polling \/ Network \/ \E r \in DOMAIN srv : RunMoves(r)

ScreensSpec == ScreensInit /\ [][ScreensNext]_screenVars

\* Timers fire, and a tick or a fetch is answered or fails.  Of the server's
\* runs nothing is assumed: one whose task is lost stays running.
Fairness ==
    /\ \A r \in 1..Bound("recommend") :
          WF_screenVars(\E p \in pollers :
              /\ p.run = r
              /\ TickFires(p) \/ TickAnswered(p) \/ TickFails(p) \/ LeaveForRuns(p))
    /\ WF_screenVars(RunsInterval) /\ WF_screenVars(RunsRead \/ RunsFail)
    /\ WF_screenVars(RunsReply)

FairScreens == ScreensSpec /\ Fairness

----------------------------------------------------------------------------
(* Properties *)

\* Once a decision is answered on a mounted runs screen, a list that is at
\* rest and whose last fetch went well shows the run as that decision left it
\* or later, never as it stood before (the invalidation in onSuccess drops a
\* fetch that read the list earlier).
DecisionShows ==
    Mounted("runs") /\ runsQ.at = "idle" /\ ~runsQ.blind =>
        \A r \in DOMAIN answered :
            answered[r] > 0 => r \in DOMAIN runsQ.data /\ runsQ.data[r].turn >= answered[r]

\* Whatever the optimistic counts and the rollbacks did meanwhile, with no
\* vote and no fetch under way and the last fetch well ended, the tally on
\* the vote screen is the server's.  Excepted (blind) is a tally whose first
\* fetch had read the server when the vote was answered: the invalidation
\* joins that fetch, which brings the tally without the vote to rest.
TallySettles ==
    Mounted("vote") /\ votes = {} /\ tallyQ.at = "idle" /\ ~tallyQ.blind =>
        IF mine = NoVote THEN tallyQ.data = <<0>>
        ELSE \E o \in Objects : tallyQ.data = <<o>> /\ heap[o] = Counts(mine)

IsRunning(r) == r \in DOMAIN srv /\ srv[r].status = "running"
Polled(r) == \E p \in pollers : p.run = r
PollFails(r) == \E p \in pollers : p.run = r /\ TickFails(p)

\* A poll, of a mounted overview (whose button spins as long) or of one left
\* behind, goes on for good only if the server has its run as running again
\* and again, or its requests fail again and again: one failure, a tick in
\* flight when the screen is left, a decision that turns the run to running
\* between two ticks do not make it.
PollsEnd ==
    \A r \in 1..Bound("recommend") :
        \/ []<>IsRunning(r)
        \/ []<><<PollFails(r)>>_screenVars
        \/ Polled(r) ~> ~Polled(r)

\* A runs screen that shows a run as running shows in the end that it is not,
\* unless it is left, some run stays running, or its fetches go on failing.
RunsCatchUp ==
    \/ []<>(\E r \in DOMAIN srv : IsRunning(r))
    \/ []<><<RunsFail>>_screenVars
    \/ Mounted("runs") /\ (\E r \in DOMAIN srv : Shows(r, "running"))
           ~> ~Mounted("runs") \/ ~(\E r \in DOMAIN srv : Shows(r, "running"))
=============================================================================
