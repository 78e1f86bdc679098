------------------------------ MODULE Approval ------------------------------
(***************************************************************************)
(* The human decision on a policy: one administrator's browser, with several *)
(* tabs in flight, logs in, steps up, asks for decision challenges, approves *)
(* or rejects, and logs out (src/internal/adminapi over adminauth,           *)
(* adminstore and hilstore), against the coordinators of migrations 000010,  *)
(* 000012 and 000019, which store a decision, the dispatch job of an         *)
(* approval and the rotation of the session in one transaction.              *)
(*                                                                           *)
(* Each database transaction is one step; between two of them the other      *)
(* requests move.  Deadlines are facts that become true: a live session that *)
(* is "over" has expired or gone idle, a revoked one is past its replay      *)
(* window, an authentication in stale is older than fifteen minutes, a       *)
(* validation in lapsed is past valid_until.  A challenge and its            *)
(* idempotency key are one identity: both columns are unique and the commit  *)
(* requires the pair.  A commit may take effect and report an error.         *)
(***************************************************************************)
EXTENDS Naturals, FiniteSets

CONSTANTS
    Sessions,       \* identities for admin_sessions rows: an interval of numbers
    Challenges,     \* identities for decision_challenges rows
    Policies,
    Requests,       \* requests the browser may have in flight
    NoSession, NoChallenge, NoPolicy,
    MaxLogins,      \* bound: logins in all
    MaxRequests,    \* bound: requests the browser sends in all
    MaxLapses       \* bound: deadlines that pass, evidence that moves

ASSUME ApprovalAssumption ==
    /\ Sessions \subseteq Nat
    /\ NoSession \notin Sessions
    /\ NoChallenge \notin Challenges
    /\ NoPolicy \notin Policies
    /\ MaxLogins \in Nat
    /\ MaxRequests \in Nat
    /\ MaxLapses \in Nat

Operations == {"approve", "reject"}
\* A read of SessionMiddleware loads and touches the session as a challenge
\* request does, and ends there; it is one that is abandoned.
Kinds == {"logout", "stepup", "challenge", "decide"}

VARIABLES
    sessions,   \* admin_sessions
    stale,      \* authentications (the session that gave the password) past 15 minutes
    policy,     \* policy_proposals.state; "queued" stands for every state after it
    moved,      \* policies whose incident has newer evidence
    lapsed,     \* policies whose validation snapshot is past valid_until
    challenges, \* decision_challenges
    decisions,  \* approval_decisions by challenge: the session it rotated to
    jobs,       \* number of dispatch_add jobs of each policy
    cookie,     \* the session cookie of the browser
    request,    \* the handler of each request
    sent,       \* requests sent so far, up to MaxRequests
    passed      \* lapses so far, up to MaxLapses

vars == <<sessions, stale, policy, moved, lapsed, challenges, decisions, jobs,
          cookie, request, sent, passed>>
ground == <<stale, moved, lapsed, passed>>

NoRow ==
    [state |-> "absent", parent |-> NoSession, auth |-> NoSession, over |-> FALSE]
Row(parent, auth) ==
    [state |-> "live", parent |-> parent, auth |-> auth, over |-> FALSE]

NoDecisionChallenge ==
    [session |-> NoSession, policy |-> NoPolicy, operation |-> "approve",
     over |-> FALSE]

Idle ==
    [pc |-> "idle", kind |-> "logout", session |-> NoSession, challenge |-> NoChallenge,
     exact |-> FALSE, child |-> NoSession, retried |-> FALSE, set |-> NoSession,
     told |-> FALSE]

Init ==
    /\ sessions = [s \in Sessions |-> NoRow]
    /\ stale = {}
    /\ policy = [p \in Policies |-> "valid"]
    /\ moved = {}
    /\ lapsed = {}
    /\ challenges = [c \in Challenges |-> NoDecisionChallenge]
    /\ decisions = [c \in Challenges |-> NoSession]
    /\ jobs = [p \in Policies |-> 0]
    /\ cookie = NoSession
    /\ request = [r \in Requests |-> Idle]
    /\ sent = 0
    /\ passed = 0

-----------------------------------------------------------------------------
Active(s) == sessions[s].state = "live" /\ ~sessions[s].over
Recent(s) == sessions[s].auth \notin stale
Issued(c) == challenges[c].session # NoSession
Decided(c) == decisions[c] # NoSession
Children(s) == {t \in Sessions : sessions[t].parent = s}

\* A fresh random identity is one that no row and no candidate has.
Unused == {s \in Sessions : /\ sessions[s].state = "absent"
                            /\ \A r \in Requests : request[r].child # s}
Fresh(s) == s \in Unused /\ \A t \in Unused : s <= t

\* Touch moves last_seen_at: the copies other requests loaded are no longer exact.
Touched(r) ==
    [q \in Requests |->
        IF q = r THEN [request[q] EXCEPT !.exact = TRUE, !.pc = "act"]
        ELSE [request[q] EXCEPT
                  !.exact = @ /\ request[q].session # request[r].session]]

\* revoked_at is set on the parent and the replacement row is inserted.
Rotated(s, child, auth) ==
    [sessions EXCEPT ![s].state = "revoked", ![child] = Row(s, auth)]

\* validDecisionReplayRotation: a recently revoked parent whose only child, of
\* the same authentication, is live.
ReplayParent(s) ==
    /\ sessions[s].state = "revoked"
    /\ ~sessions[s].over
    /\ \E t \in Sessions : /\ Children(s) = {t}
                           /\ Active(t)
                           /\ sessions[t].auth = sessions[s].auth

Step(r, pc) == request' = [request EXCEPT ![r].pc = pc]

\* The handler has an answer that the browser acts on: the session it sets or
\* clears in the cookie, and whether it reports the decision as stored.
Answer(r, set, told) ==
    request' = [request EXCEPT ![r] =
        [Idle EXCEPT !.pc = "answer", !.session = request[r].session,
                     !.challenge = request[r].challenge, !.set = set, !.told = told]]

\* An answer without a cookie ends the request.
Finish(r) == request' = [request EXCEPT ![r] = Idle]

-----------------------------------------------------------------------------
\* serveLogin and InsertLogin.  A row whose answer is lost is one nobody can name.
Login ==
    \E s \in Sessions :
        /\ Cardinality({t \in Sessions : /\ sessions[t].state # "absent"
                                         /\ sessions[t].parent = NoSession}) < MaxLogins
        /\ Fresh(s)
        /\ sessions' = [sessions EXCEPT ![s] = Row(NoSession, s)]
        /\ cookie' = s
        /\ UNCHANGED <<ground, policy, challenges, decisions, jobs, request, sent>>

\* A tab sends a request with the cookie of the moment.
Send(r) ==
    /\ request[r].pc = "idle"
    /\ cookie # NoSession
    /\ sent < MaxRequests
    /\ sent' = sent + 1
    /\ \E kind \in Kinds, c \in Challenges \cup {NoChallenge} :
        /\ (c # NoChallenge) <=> (kind = "decide")
        /\ c # NoChallenge => Issued(c)
        /\ request' = [request EXCEPT ![r] =
                [Idle EXCEPT !.pc = "load", !.kind = kind, !.session = cookie,
                             !.challenge = c]]
    /\ UNCHANGED <<sessions, ground, policy, challenges, decisions, jobs, cookie>>

\* LoadByID.  Logout and step-up act on the loaded row; the others touch it
\* first; a decision may fall back to the revoked parent of a rotation.
Load(r) ==
    LET s == request[r].session
        kind == request[r].kind IN
    /\ request[r].pc = "load"
    /\ \/ /\ Active(s)
          /\ request' = [request EXCEPT ![r].exact = TRUE,
                 ![r].pc = IF kind \in {"logout", "stepup"} THEN "act" ELSE "touch"]
       \/ ~Active(s) /\ kind = "decide" /\ Step(r, "parent")
       \/ ~Active(s) /\ kind # "decide" /\ Finish(r)
    /\ UNCHANGED <<sessions, ground, policy, challenges, decisions, jobs, cookie, sent>>

\* Mutant: the comparison leaves revoked_at out.
CurrentRevoked(r) == request[r].exact /\ ~sessions[request[r].session].over

\* Touch, Revoke and Rotate compare the whole loaded row with a live one.
Current(r) == request[r].exact /\ Active(request[r].session)

Touch(r) ==
    /\ request[r].pc = "touch"
    /\ IF Current(r) THEN request' = Touched(r) ELSE Finish(r)
    /\ UNCHANGED <<sessions, ground, policy, challenges, decisions, jobs, cookie, sent>>

\* serveLogout: Revoke, and the cookie is cleared.
Logout(r) ==
    /\ request[r].pc = "act"
    /\ request[r].kind = "logout"
    /\ \/ /\ Current(r)
          /\ sessions' = [sessions EXCEPT ![request[r].session].state = "revoked"]
          /\ Answer(r, NoSession, FALSE)
       \/ /\ ~Current(r)
          /\ Finish(r)
          /\ UNCHANGED sessions
    /\ UNCHANGED <<ground, policy, challenges, decisions, jobs, cookie, sent>>

\* serveStepUp: Rotate to a child whose authentication is its own.
StepUp(r) ==
    /\ request[r].pc = "act"
    /\ request[r].kind = "stepup"
    /\ \/ /\ Current(r)
          /\ \E child \in Sessions :
                /\ Fresh(child)
                /\ sessions' = Rotated(request[r].session, child, child)
                /\ Answer(r, child, FALSE)
       \/ /\ ~Current(r)
          /\ Finish(r)
          /\ UNCHANGED sessions
    /\ UNCHANGED <<ground, policy, challenges, decisions, jobs, cookie, sent>>

-----------------------------------------------------------------------------
\* Mutant: the session is only looked at when the request is authenticated.
MayDecideAnySession(s, p) ==
    policy[p] = "valid" /\ Recent(s) /\ p \notin lapsed /\ p \notin moved

\* Mutant: the state of the policy is only looked at when the page is read.
MayDecideAnyState(s, p) ==
    Active(s) /\ Recent(s) /\ p \notin lapsed /\ p \notin moved

\* Mutant: without the evidence check of 000019.
MayDecideOldEvidence(s, p) ==
    Active(s) /\ Recent(s) /\ policy[p] = "valid" /\ p \notin lapsed

\* What issue and commit require of the session, the policy, its validation and
\* its evidence, in the transaction that writes.
MayDecide(s, p) ==
    /\ Active(s)
    /\ Recent(s)
    /\ policy[p] = "valid"
    /\ p \notin lapsed
    /\ p \notin moved

\* issue_hil_policy_challenge under its 000019 wrapper.
Issue(r) ==
    /\ request[r].pc = "act"
    /\ request[r].kind = "challenge"
    /\ \E c \in Challenges, p \in Policies, op \in Operations :
        /\ ~Issued(c)
        /\ MayDecide(request[r].session, p)
        /\ challenges' = [challenges EXCEPT ![c] =
               [session |-> request[r].session, policy |-> p,
                operation |-> op, over |-> FALSE]]
    /\ Finish(r)
    /\ UNCHANGED <<sessions, ground, policy, decisions, jobs, cookie, sent>>

\* servePolicyDecision before its lookup: a recent authentication, a fresh
\* validation, and a challenge of this session.
CheckDecision(r) ==
    LET c == request[r].challenge IN
    /\ request[r].pc = "act"
    /\ request[r].kind = "decide"
    /\ IF /\ Recent(request[r].session)
          /\ challenges[c].policy \notin lapsed
          /\ challenges[c].session = request[r].session
       THEN Step(r, "lookup")
       ELSE Finish(r)
    /\ UNCHANGED <<sessions, ground, policy, challenges, decisions, jobs, cookie, sent>>

\* A stored decision clears the cookie and fails; otherwise RotateAfterPrivilege
\* makes the candidate for the replacement session.
Lookup(r) ==
    /\ request[r].pc = "lookup"
    /\ \/ /\ Decided(request[r].challenge)
          /\ Answer(r, NoSession, FALSE)
       \/ /\ ~Decided(request[r].challenge)
          /\ \E child \in Sessions :
                /\ Fresh(child)
                /\ request' = [request EXCEPT ![r].pc = "commit", ![r].child = child]
    /\ UNCHANGED <<sessions, ground, policy, challenges, decisions, jobs, cookie, sent>>

\* A first decision: commit_hil_policy_decision, the rotation with the exact
\* row the handler touched, and the evidence check of 000019.
DecidesFirst(r) ==
    LET c == request[r].challenge IN
    /\ ~Decided(c)
    /\ MayDecide(request[r].session, challenges[c].policy)
    /\ ~challenges[c].over
    /\ request[r].exact

\* An exact replay: the decision is stored, the policy has not gone on, and the
\* stored replacement is this handler's candidate and still live.
DecidesAgain(r) ==
    LET c == request[r].challenge IN
    /\ Decided(c)
    /\ decisions[c] = request[r].child
    /\ policy[challenges[c].policy] \in {"approved", "rejected"}
    /\ Active(request[r].child)

\* Mutant: the operation is stored for the state.
StoreOperation(r) ==
    LET c == request[r].challenge
        p == challenges[c].policy
        s == request[r].session IN
    /\ decisions' = [decisions EXCEPT ![c] = request[r].child]
    /\ policy' = [policy EXCEPT ![p] = challenges[c].operation]
    /\ jobs' = jobs
    /\ sessions' = Rotated(s, request[r].child, sessions[s].auth)

\* Mutant: the decision counts as a new authentication.
StoreAndReauthenticate(r) ==
    LET c == request[r].challenge
        p == challenges[c].policy
        s == request[r].session
        approves == challenges[c].operation = "approve" IN
    /\ decisions' = [decisions EXCEPT ![c] = request[r].child]
    /\ policy' = [policy EXCEPT ![p] = IF approves THEN "approved" ELSE "rejected"]
    /\ jobs' = [jobs EXCEPT ![p] = IF approves THEN @ + 1 ELSE @]
    /\ sessions' = Rotated(s, request[r].child, request[r].child)

StoreDecision(r) ==
    LET c == request[r].challenge
        p == challenges[c].policy
        s == request[r].session
        approves == challenges[c].operation = "approve" IN
    /\ decisions' = [decisions EXCEPT ![c] = request[r].child]
    /\ policy' = [policy EXCEPT ![p] = IF approves THEN "approved" ELSE "rejected"]
    /\ jobs' = [jobs EXCEPT ![p] = IF approves THEN @ + 1 ELSE @]
    /\ sessions' = Rotated(s, request[r].child, sessions[s].auth)

\* ErrUnavailable: one retry with the same candidate, then the outcome is open.
Unavailable(r) ==
    request' = [request EXCEPT ![r].retried = TRUE,
                    ![r].pc = IF request[r].retried THEN "unresolved" ELSE "commit"]

\* PostgreSQLStore.Commit: the coordinator decides, replays or refuses, and the
\* outcome of the transaction may stay unknown.
Commit(r) ==
    /\ request[r].pc = "commit"
    /\ \/ /\ DecidesFirst(r)
          /\ StoreDecision(r)
          /\ Answer(r, request[r].child, TRUE) \/ Unavailable(r)
       \/ /\ DecidesAgain(r)
          /\ Step(r, "recheck")
          /\ UNCHANGED <<decisions, policy, jobs, sessions, sent>>
       \/ /\ ~DecidesFirst(r) /\ ~DecidesAgain(r)
          /\ Step(r, "unresolved")
          /\ UNCHANGED <<decisions, policy, jobs, sessions, sent>>
       \/ /\ Unavailable(r)
          /\ UNCHANGED <<decisions, policy, jobs, sessions, sent>>
    /\ UNCHANGED <<ground, challenges, cookie, sent>>

\* A replayed commit hands the retained secrets out only while the child is live.
Recheck(r) ==
    /\ request[r].pc = "recheck"
    /\ IF Active(request[r].child)
       THEN Answer(r, request[r].child, TRUE)
       ELSE Answer(r, NoSession, FALSE)
    /\ UNCHANGED <<sessions, ground, policy, challenges, decisions, jobs, cookie, sent>>

\* Every unresolved outcome clears the cookie; the stored decision is reported
\* if it is found and the rotation of the touched row is still recent.
Unresolved(r) ==
    /\ request[r].pc = "unresolved"
    /\ Answer(r, NoSession, /\ Decided(request[r].challenge)
                            /\ ReplayParent(request[r].session)
                            /\ request[r].exact)
    /\ UNCHANGED <<sessions, ground, policy, challenges, decisions, jobs, cookie, sent>>

\* LoadRevokedDecisionReplayParent of the middleware.
LoadParent(r) ==
    /\ request[r].pc = "parent"
    /\ IF ReplayParent(request[r].session) THEN Step(r, "replay") ELSE Finish(r)
    /\ UNCHANGED <<sessions, ground, policy, challenges, decisions, jobs, cookie, sent>>

\* Mutant: a recent rotation is taken for proof of the decision.
ReplayAnyDecision(r) ==
    /\ request[r].pc = "replay"
    /\ Answer(r, NoSession, ReplayParent(request[r].session))
    /\ UNCHANGED <<sessions, ground, policy, challenges, decisions, jobs, cookie, sent>>

\* serveHistoricalPolicyDecisionReplay: read-only, and the old cookie is cleared.
Replay(r) ==
    LET c == request[r].challenge IN
    /\ request[r].pc = "replay"
    /\ Answer(r, NoSession, /\ Decided(c)
                            /\ challenges[c].session = request[r].session
                            /\ ReplayParent(request[r].session))
    /\ UNCHANGED <<sessions, ground, policy, challenges, decisions, jobs, cookie, sent>>

\* The answers reach the browser in any order.
Deliver(r) ==
    /\ request[r].pc = "answer"
    /\ cookie' = request[r].set
    /\ Finish(r)
    /\ UNCHANGED <<sessions, ground, policy, challenges, decisions, jobs, sent>>

\* A dependency fails, the process dies, or the answer is lost.
Abandon(r) ==
    /\ request[r].pc # "idle"
    /\ Finish(r)
    /\ UNCHANGED <<sessions, ground, policy, challenges, decisions, jobs, cookie, sent>>

-----------------------------------------------------------------------------
\* Deadlines pass; one that nothing reads any more is left alone.
Pass == passed < MaxLapses /\ passed' = passed + 1

SessionEnds ==
    /\ Pass
    /\ \E s \in Sessions :
        /\ sessions[s].state = "live" \/ Children(s) # {}
        /\ ~sessions[s].over
        /\ sessions' = [sessions EXCEPT ![s].over = TRUE]
    /\ UNCHANGED <<stale, moved, lapsed, policy, challenges, decisions, jobs, cookie,
                   request, sent>>

AuthenticationAges ==
    /\ Pass
    /\ \E s \in Sessions : /\ Active(s)
                           /\ Recent(s)
                           /\ stale' = stale \cup {sessions[s].auth}
    /\ UNCHANGED <<sessions, policy, moved, lapsed, challenges, decisions, jobs,
                   cookie, request, sent>>

ChallengeExpires ==
    /\ Pass
    /\ \E c \in Challenges :
        /\ Issued(c)
        /\ policy[challenges[c].policy] = "valid"
        /\ ~challenges[c].over
        /\ challenges' = [challenges EXCEPT ![c].over = TRUE]
    /\ UNCHANGED <<sessions, stale, moved, lapsed, policy, decisions, jobs, cookie,
                   request, sent>>

\* A challenge never outlives the validation it names.
ValidationExpires ==
    /\ Pass
    /\ \E p \in Policies \ lapsed :
        /\ policy[p] = "valid"
        /\ lapsed' = lapsed \cup {p}
        /\ challenges' = [c \in Challenges |->
               [challenges[c] EXCEPT !.over = @ \/ challenges[c].policy = p]]
    /\ UNCHANGED <<sessions, stale, policy, moved, decisions, jobs, cookie, request,
                   sent>>

\* A detection job adds evidence to the incident.
EvidenceMoves ==
    /\ Pass
    /\ \E p \in Policies \ moved : /\ policy[p] = "valid"
                                   /\ moved' = moved \cup {p}
    /\ UNCHANGED <<sessions, stale, policy, lapsed, challenges, decisions, jobs,
                   cookie, request, sent>>

\* The dispatcher's capability takes an approved policy on.
Dispatched ==
    /\ \E p \in Policies : /\ policy[p] = "approved"
                           /\ policy' = [policy EXCEPT ![p] = "queued"]
    /\ UNCHANGED <<sessions, ground, challenges, decisions, jobs, cookie, request,
                   sent>>

Next ==
    \/ Login
    \/ \E r \in Requests :
         \/ Send(r) \/ Load(r) \/ Touch(r) \/ Logout(r) \/ StepUp(r)
         \/ Issue(r) \/ CheckDecision(r) \/ Lookup(r) \/ Commit(r) \/ Recheck(r)
         \/ Unresolved(r) \/ LoadParent(r) \/ Replay(r) \/ Deliver(r) \/ Abandon(r)
    \/ SessionEnds
    \/ AuthenticationAges
    \/ ChallengeExpires
    \/ ValidationExpires
    \/ EvidenceMoves
    \/ Dispatched

Spec == Init /\ [][Next]_vars

-----------------------------------------------------------------------------
RequestPcs == {"idle", "load", "touch", "act", "lookup", "commit", "recheck",
               "unresolved", "parent", "replay", "answer"}

\* The rows, the challenges and the handlers' local state have their types.
TypeOK ==
    /\ sessions \in [Sessions ->
           [state : {"absent", "live", "revoked"}, parent : Sessions \cup {NoSession},
            auth : Sessions \cup {NoSession}, over : BOOLEAN]]
    /\ stale \subseteq Sessions
    /\ policy \in [Policies -> {"valid", "approved", "rejected", "queued"}]
    /\ moved \subseteq Policies
    /\ lapsed \subseteq Policies
    /\ challenges \in [Challenges ->
           [session : Sessions \cup {NoSession}, policy : Policies \cup {NoPolicy},
            operation : Operations, over : BOOLEAN]]
    /\ decisions \in [Challenges -> Sessions \cup {NoSession}]
    /\ jobs \in [Policies -> Nat]
    /\ cookie \in Sessions \cup {NoSession}
    /\ request \in [Requests ->
           [pc : RequestPcs, kind : Kinds, session : Sessions \cup {NoSession},
            challenge : Challenges \cup {NoChallenge}, exact : BOOLEAN,
            child : Sessions \cup {NoSession}, retried : BOOLEAN,
            set : Sessions \cup {NoSession}, told : BOOLEAN]]
    /\ sent \in 0..MaxRequests
    /\ passed \in 0..MaxLapses

\* However step-ups, decisions and logouts of several tabs interleave, a session
\* is replaced at most once, and only a revoked session has a replacement
\* (Rotate and commit_privileged_session_rotation compare the exact live row).
ChainsAreLinear ==
    \A s \in Sessions :
        /\ Cardinality(Children(s)) <= 1
        /\ Children(s) # {} => sessions[s].state = "revoked"

\* "An already committed decision cannot coexist with a live old session"
\* (servePolicyDecision): the session of a decided challenge is revoked, its
\* replacement is the one stored with the decision, and the replacement carries
\* the old authentication and so buys no new step-up time.
DecidedSessionIsSpent ==
    \A c \in Challenges : Decided(c) =>
        LET s == challenges[c].session IN
        /\ sessions[s].state = "revoked"
        /\ Children(s) = {decisions[c]}
        /\ sessions[decisions[c]].auth = sessions[s].auth

\* A policy is decided at most once whatever challenges were issued for it and
\* however often their commits are retried, and has a dispatch job exactly when
\* the decision approved it (commit_hil_policy_decision).
DecidedOnce ==
    \A p \in Policies :
        LET decided == {c \in Challenges : Decided(c) /\ challenges[c].policy = p}
            approved == {c \in decided : challenges[c].operation = "approve"} IN
        /\ Cardinality(decided) = (IF policy[p] = "valid" THEN 0 ELSE 1)
        /\ jobs[p] = Cardinality(approved)
        /\ policy[p] \in {"approved", "queued"} <=> approved # {}

\* What an answer says is so: a decision it reports is stored under the request's
\* own session, and a session it hands out is the live replacement of the
\* request's session, which no other answer, request or cookie carries.
AnswersAreTrue ==
    \A r \in Requests :
        LET c == request[r].challenge
            child == request[r].set IN
        /\ request[r].told => /\ Decided(c)
                              /\ challenges[c].session = request[r].session
        /\ child # NoSession =>
               /\ sessions[child].state = "live"
               /\ Children(request[r].session) = {child}
               /\ cookie # child
               /\ \A q \in Requests : /\ request[q].session # child
                                      /\ request[q].set = child => q = r

\* A decision is first stored only on ground that still holds in that transaction,
\* however long ago the page was read and the request authenticated: the evidence
\* has not moved, the validation and the challenge are fresh, and the password was
\* given within fifteen minutes.
DecidesOnCurrentGround ==
    [][\A c \in Challenges : Decided(c)' /\ ~Decided(c) =>
          /\ challenges[c].policy \notin moved \cup lapsed
          /\ ~challenges[c].over
          /\ Recent(challenges[c].session)]_vars

\* A session that was logged out stays without a successor: no step-up or decision
\* that loaded the row before the logout rotates it afterwards.
EndedStaysEnded ==
    [][\A s \in Sessions :
          sessions[s].state = "revoked" =>
              /\ sessions'[s].state = "revoked"
              /\ Children(s)' = Children(s)]_vars
=============================================================================
