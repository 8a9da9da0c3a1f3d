----------------------------- MODULE Observation -----------------------------
(***************************************************************************)
(* The observation cycle of the control loop: observation_gather.py around *)
(* the planner of observation.py, its actions executed by                  *)
(* control_loop/executor.py.                                               *)
(*                                                                         *)
(* A cycle gathers the open issues of its repository, asks a model for an  *)
(* assessment (which takes minutes), vets what it proposes against the     *)
(* snapshot and executes what is left one request at a time.  The other    *)
(* cycles wait meanwhile; people do not.                                   *)
(*                                                                         *)
(* A title is what it contains and the few keywords that are looked for in *)
(* others when it is proposed (for a request to a person, those of the     *)
(* request).  The model may propose anything.                              *)
(*                                                                         *)
(* The board is GitHub's issues or Quackback's posts.  On Quackback the    *)
(* listing is the posts the founders have accepted, a create first looks   *)
(* for a post of the same title in any status, and a close does nothing.   *)
(***************************************************************************)
EXTENDS Integers, Sequences, FiniteSets

CONSTANTS
    Home, Service,      \* the repository of the forge, and the other one
    Words, Titles,      \* keywords and titles
    NoTitle,            \* no title
    Contains,           \* the keywords found anywhere in a title
    Keywords,           \* extract_keywords: the first few of a text, in order
    MaxKeywords,        \* MAX_KEYWORDS
    Forges,             \* the values of forge_kind the box may be run with
    Proposals,          \* issues the model may propose
    MaxProposals,       \* bound: issues created by one assessment
    MaxNumber,          \* bound: issues ever opened
    PrNumbers,          \* PRs open in Home, and numbers of PRs in Service
    MaxActs,            \* bound: moves of people
    MaxErrors           \* bound: failed requests

RouteLabels == {"needs-human", "fn:dev", "surface:product", "surface:service"}

ASSUME ObservationAssumption ==
    /\ Home # Service
    /\ NoTitle \notin Titles /\ MaxKeywords \in Nat
    /\ Contains \in [Titles -> SUBSET Words] /\ Keywords \in [Titles -> Seq(Words)]
    /\ \A t \in Titles : /\ Len(Keywords[t]) <= MaxKeywords
                         /\ \A k \in DOMAIN Keywords[t] : Keywords[t][k] \in Contains[t]
    /\ Forges \subseteq {"github", "quackback"}
    /\ Proposals \subseteq [title: Titles, labels: SUBSET RouteLabels]
    /\ PrNumbers \subseteq Nat /\ MaxProposals \in Nat
    /\ MaxNumber \in Nat /\ MaxActs \in Nat /\ MaxErrors \in Nat

VARIABLES
    forge,      \* forge_kind
    issue,      \* the issues of Home, or the posts: title, labels, state, who
                \* opened them, and whether the founders have accepted them
    prs,        \* the PRs of Home that are open
    step,       \* "idle", "assessing" or "acting"
    seen,       \* the snapshot: the issues that were open, with their labels
    todo,       \* the actions still to execute
    acts, errors

observationVars == <<forge, issue, prs, step, seen, todo, acts, errors>>

Numbers == 1 .. MaxNumber
Absent == [title |-> NoTitle, labels |-> {}, state |-> "absent", by |-> "nobody",
           repo |-> Home, accepted |-> FALSE]
Opened(title, labels, by, repo) ==
    [title |-> title, labels |-> labels, state |-> "open", by |-> by, repo |-> repo,
     accepted |-> FALSE]
OpenIssues == {n \in Numbers : issue[n].state = "open"}

\* A snapshot as the planner sees it: no number, no labels.
Unseen == [title |-> NoTitle, labels |-> {}, known |-> FALSE]

ObservationInit ==
    /\ forge \in Forges
    /\ \E t \in Titles, l \in {{}, {"needs-human"}} :
         issue = [n \in Numbers |-> IF n = 1 THEN Opened(t, l, "person", Home)
                                    ELSE Absent]
    /\ prs = PrNumbers
    /\ step = "idle" /\ seen = [n \in Numbers |-> Unseen] /\ todo = <<>>
    /\ acts = 0 /\ errors = 0

-----------------------------------------------------------------------------
(* The planner *)

\* is_duplicate: two of the keywords of the new one, counted as often as they
\* occur, are found in the existing one.
Duplicate(title, existing) ==
    Cardinality({k \in DOMAIN Keywords[title] :
                   Keywords[title][k] \in Contains[existing]}) >= 2

\* _route_lane_and_repo
RepoOf(labels) == IF "surface:service" \in labels THEN Service ELSE Home
Routed(labels) ==
    IF "surface:service" \in labels
    THEN IF "needs-human" \in labels THEN labels \ {"fn:dev"} ELSE labels
    ELSE IF "surface:product" \in labels
    THEN IF "fn:dev" \in labels THEN labels \ {"needs-human"} ELSE labels
    ELSE IF "fn:dev" \in labels THEN (labels \ {"fn:dev"}) \cup {"needs-human"}
    ELSE labels

SeenTitles == {seen[n].title : n \in {m \in Numbers : seen[m].known}}

\* Fault: only the board is a corpus, not what the assessment itself creates.
VettedByBoard(proposals) ==
    \A k \in DOMAIN proposals : \A t \in SeenTitles : ~Duplicate(proposals[k].title, t)

\* _vet_create: none is a duplicate of a title of the snapshot, which are those
\* of Home, or of an earlier one for the same repository.
Vetted(proposals) ==
    \A k \in DOMAIN proposals :
        /\ RepoOf(proposals[k].labels) = Home =>
             \A t \in SeenTitles : ~Duplicate(proposals[k].title, t)
        /\ \A j \in 1 .. k - 1 :
             RepoOf(proposals[j].labels) = RepoOf(proposals[k].labels) =>
               ~Duplicate(proposals[k].title, proposals[j].title)

\* vet_issue_close: without a label snapshot the close is refused.
MayClose(n) == seen[n].known /\ "needs-human" \notin seen[n].labels

Create(p) == [kind |-> "create", title |-> p.title, labels |-> Routed(p.labels),
              repo |-> RepoOf(p.labels), number |-> 0]
CloseIssue(n) == [kind |-> "close", title |-> NoTitle, labels |-> {}, repo |-> Home,
                  number |-> n]
ClosePr(r, n) == [kind |-> "close_pr", title |-> NoTitle, labels |-> {}, repo |-> r,
                  number |-> n]

\* At most one of each.
IssueCloses == {<<>>} \cup {<<CloseIssue(n)>> : n \in {m \in Numbers : MayClose(m)}}
PrCloses == {<<>>} \cup {<<ClosePr(r, n)>> : r \in {Home, Service}, n \in PrNumbers}

-----------------------------------------------------------------------------
(* The cycle *)

\* list_open_issues of the board
Listed == {n \in OpenIssues : forge = "quackback" => issue[n].accepted}

\* build_observation_inputs
Gather ==
    /\ step = "idle"
    /\ seen' = [n \in Numbers |->
                  IF n \in Listed
                  THEN [title |-> issue[n].title, labels |-> issue[n].labels, known |-> TRUE]
                  ELSE Unseen]
    /\ step' = "assessing"
    /\ UNCHANGED <<forge, issue, prs, todo, acts, errors>>

\* plan_actions on an assessment: what may be created (a request to a person is
\* a create without a surface, wherever in the plan), one close and one PR close,
\* in this order.  A proposal that is vetted out, and a close that is refused, leave no trace but a
\* line in the log, so only what is left is chosen here.
Plan ==
    /\ step = "assessing"
    /\ \E k \in 0 .. MaxProposals : \E proposals \in [1 .. k -> Proposals] :
       \E close \in IssueCloses : \E closePr \in PrCloses :
         /\ Vetted(proposals)
         /\ todo' = [j \in 1 .. k |-> Create(proposals[j])] \o close \o closePr
    /\ step' = "acting"
    /\ UNCHANGED <<forge, issue, prs, seen, acts, errors>>

\* The model is unreachable, its answer is not JSON or one entry has no title:
\* the cycle is skipped as a whole.
Skip ==
    /\ step = "assessing"
    /\ step' = "idle" /\ seen' = [n \in Numbers |-> Unseen]
    /\ UNCHANGED <<forge, issue, prs, todo, acts, errors>>

Acting(kind) == step = "acting" /\ todo # <<>> /\ Head(todo).kind = kind

\* _find_duplicate_post: a post of that title in whatever status.
HasPost(t) == forge = "quackback" /\ \E n \in Numbers : issue[n].title = t

\* _h_create_issue: in the repository of the forge, whatever the action says.
CreateIssue ==
    /\ Acting("create") /\ ~HasPost(Head(todo).title)
    /\ \E n \in Numbers :
         /\ issue[n].state = "absent" /\ \A m \in 1 .. n - 1 : issue[m].state # "absent"
         /\ issue' = [issue EXCEPT ![n] =
                        Opened(Head(todo).title, Head(todo).labels, "loop", Head(todo).repo)]
    /\ todo' = Tail(todo)
    /\ UNCHANGED <<forge, prs, step, seen, acts, errors>>

\* create_issue of Quackback: the body becomes a comment on the post it found.
CommentInstead ==
    /\ Acting("create") /\ HasPost(Head(todo).title)
    /\ todo' = Tail(todo)
    /\ UNCHANGED <<forge, issue, prs, step, seen, acts, errors>>

\* _h_close_issue: on Quackback only the founders close.
CloseOne ==
    /\ Acting("close")
    /\ issue' = [issue EXCEPT ![Head(todo).number].state =
                   IF @ = "open" /\ forge = "github" THEN "closed" ELSE @]
    /\ todo' = Tail(todo)
    /\ UNCHANGED <<forge, prs, step, seen, acts, errors>>

\* _h_close_pr: the PR of that number in the repository of the forge.
CloseOnePr ==
    /\ Acting("close_pr")
    /\ prs' = prs \ {Head(todo).number}
    /\ todo' = Tail(todo)
    /\ UNCHANGED <<forge, issue, step, seen, acts, errors>>

\* Blocked by the sanitiser or failed: the batch goes on.
RequestFails ==
    /\ step = "acting" /\ todo # <<>> /\ errors < MaxErrors
    /\ todo' = Tail(todo) /\ errors' = errors + 1
    /\ UNCHANGED <<forge, issue, prs, step, seen, acts>>

EndCycle ==
    /\ step = "acting" /\ todo = <<>>
    /\ step' = "idle" /\ seen' = [n \in Numbers |-> Unseen]
    /\ UNCHANGED <<forge, issue, prs, todo, acts, errors>>

\* A restart: what the cycle had left to do is forgotten.
Forget ==
    /\ step # "idle"
    /\ step' = "idle" /\ todo' = <<>> /\ seen' = [n \in Numbers |-> Unseen]
    /\ UNCHANGED <<forge, issue, prs, acts, errors>>

-----------------------------------------------------------------------------
(* People *)

Person == acts < MaxActs /\ acts' = acts + 1 /\ UNCHANGED <<forge, prs, step, seen, todo, errors>>
Asks(n) == /\ n \in OpenIssues
           /\ issue' = [issue EXCEPT ![n].labels = @ \cup {"needs-human"}]
           /\ Person
Files(n) == \E t \in Titles, l \in {{}, {"needs-human"}} :
    /\ issue[n].state = "absent" /\ \A m \in 1 .. n - 1 : issue[m].state # "absent"
    /\ issue' = [issue EXCEPT ![n] = Opened(t, l, "person", Home)]
    /\ Person
Resolves(n) == /\ n \in OpenIssues
               /\ issue' = [issue EXCEPT ![n].state = "closed"]
               /\ Person
\* A founder accepts a post; it may leave that status again as it is built.
Accepts(n) == /\ n \in OpenIssues /\ forge = "quackback"
              /\ issue' = [issue EXCEPT ![n].accepted = ~@]
              /\ Person

ObservationNext ==
    \/ Gather \/ Plan \/ Skip
    \/ CreateIssue \/ CommentInstead \/ CloseOne \/ CloseOnePr \/ RequestFails \/ EndCycle \/ Forget
    \/ \E n \in Numbers : Asks(n) \/ Files(n) \/ Resolves(n) \/ Accepts(n)
ObservationSpec == ObservationInit /\ [][ObservationNext]_observationVars

-----------------------------------------------------------------------------
(* Properties *)

AnyTitle == Titles \cup {NoTitle}
ActionSet == [kind: {"create", "close", "close_pr"}, title: AnyTitle,
              labels: SUBSET RouteLabels, repo: {Home, Service}, number: Nat]
IssueSet == [title: AnyTitle, labels: SUBSET RouteLabels,
             state: {"absent", "open", "closed"}, by: {"nobody", "person", "loop"},
             repo: {Home, Service}, accepted: BOOLEAN]
ObservationTypeOK ==
    /\ forge \in Forges
    /\ issue \in [Numbers -> IssueSet]
    /\ prs \subseteq PrNumbers
    /\ step \in {"idle", "assessing", "acting"}
    /\ seen \in [Numbers -> [title: AnyTitle, labels: SUBSET RouteLabels, known: BOOLEAN]]
    /\ todo \in Seq(ActionSet)
    /\ acts \in 0 .. MaxActs /\ errors \in 0 .. MaxErrors

\* However many cycles run, and whatever is asked for again, the loop opens
\* nothing for Home that is_duplicate finds in an issue it opened before.  On
\* GitHub that is any such issue still open: the listing shows it.  On Quackback
\* the listing leaves out what nobody has accepted, and only the title is left to
\* stop a second post: no title is posted twice, whatever became of the first.
\* (The other way round is allowed: the first few keywords of the later one decide.)
OneOpenIssuePerTitle ==
    \A m, n \in Numbers :
        /\ m < n /\ issue[m].by = "loop" /\ issue[n].by = "loop"
        /\ issue[m].repo = Home /\ issue[n].repo = Home
        => /\ forge = "github" /\ {m, n} \subseteq OpenIssues
                => ~Duplicate(issue[n].title, issue[m].title)
           /\ forge = "quackback" => issue[m].title # issue[n].title
=============================================================================
