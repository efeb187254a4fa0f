----------------------------- MODULE Campaigns -----------------------------
(***************************************************************************)
(* The daily claim of campaign benefits: the background loop of            *)
(* ops_campaigns.go, the management requests of management_g1.go that list *)
(* and claim campaigns, and the client of qodercontrol/campaigns.go that   *)
(* both use.  Management requests exclude each other by                    *)
(* managementService.mu; the loop does not take that mutex.                *)
(*                                                                         *)
(* Time is a clock of DayLen units a day.  The loop's timer is punctual,   *)
(* a round of claims takes any time, and the plugin may be restarted       *)
(* between any two steps.                                                  *)
(***************************************************************************)
EXTENDS Integers, Sequences

CONSTANTS
    Accounts,     \* auth indexes of the host's auth list
    NoIndex,      \* an empty auth index
    FileLists,    \* what host.auth.list may answer: sequences of file records
    Offers,       \* campaigns of an account
    Benefits,     \* those of them whose actionType is CLAIM_BENEFIT
    Requests,     \* management requests
    Claimer,      \* the background loop
    User,         \* whoever is granted a benefit outside the plugin
    Nobody,
    DayLen,       \* units of time in a day
    ClaimHour,    \* opsClaimHour, in these units
    Jitters,      \* what rand.Intn(30) may return
    MaxClock,     \* bound: where the clock stops
    MaxRestarts   \* bound: restarts of the plugin

ASSUME CampaignsAssumption ==
    /\ Benefits \subseteq Offers
    /\ NoIndex \notin Accounts
    /\ FileLists \subseteq Seq([auth : Accounts \cup {NoIndex}, qoder : BOOLEAN])
    /\ Claimer \notin Requests /\ User \notin Requests \cup {Claimer}
    /\ Nobody \notin Requests \cup {Claimer, User}
    /\ DayLen \in Nat \ {0} /\ ClaimHour \in Nat \ {0} /\ MaxClock \in Nat /\ MaxRestarts \in Nat
    /\ Jitters \subseteq Nat /\ Jitters # {}
    /\ \A j \in Jitters : ClaimHour + j < DayLen

VARIABLES
    now,          \* the clock
    restarts,
    status,       \* claimStatus of every campaign of every account, upstream
    by,           \* history: who was granted the benefit last claimed
    pc,           \* the loop: plan, sleep, list, file, credential, fetch, claim
    next,         \* when it wakes up
    files,        \* files that claimAll has still to visit
    seen,         \* claimAll.seen
    acct,         \* the account it is at
    todo,         \* campaigns of that account it has still to claim
    tried,        \* history: how often each account's credential was asked for
    listed,       \* history: the accounts of the list of this round
    ran,          \* history: days on which a round started
    excused,      \* history: days on which the loop was not asleep at ClaimHour
    mu,           \* managementService.mu: its holder or Nobody
    req,          \* what each management request is at
    rival         \* history: who had the benefit when an actor's claim was replayed

loopVars == <<pc, next, files, seen, acct, todo, tried, listed>>
dayVars  == <<ran, excused>>
reqVars  == <<mu, req>>
vars     == <<now, restarts, status, by, loopVars, dayVars, reqVars, rival>>

Idle     == [at |-> "idle", kind |-> "none", acct |-> NoIndex, offer |-> Nobody,
             shown |-> "none"]
Done     == [Idle EXCEPT !.at = "done"]

DayOf(t) == t \div DayLen

Init ==
    /\ now = 0 /\ restarts = 0
    /\ status = [a \in Accounts |-> [c \in Offers |-> "CLAIMABLE"]]
    /\ by = [a \in Accounts |-> [c \in Offers |-> Nobody]]
    /\ pc = "plan" /\ next = 0
    /\ files = <<>> /\ seen = {} /\ acct = NoIndex /\ todo = {}
    /\ tried = [a \in Accounts |-> 0] /\ listed = {}
    /\ ran = {} /\ excused = {}
    /\ mu = Nobody
    /\ req = [r \in Requests |-> Idle]
    /\ rival = [p \in Requests \cup {Claimer} |-> Nobody]

----------------------------------------------------------------------------
(* The client and the upstream.                                            *)

\* What the upstream makes of a claim and what ClaimCampaign returns of it:
\* an outcome, or "failed" for an error.  A status that is no success, other than
\* 401 and 403, is the outcome "rejected", a 5xx too; the answer of a grant may be
\* lost, and a gateway may answer for it.
Answers(s) ==
    {[outcome |-> "failed", grant |-> FALSE], [outcome |-> "rejected", grant |-> FALSE]} \cup
    CASE s = "CLAIMABLE" -> {[outcome |-> "claimed", grant |-> TRUE],
                             [outcome |-> "failed", grant |-> TRUE],
                             [outcome |-> "rejected", grant |-> TRUE]}
      [] s = "CLAIMED"   -> {[outcome |-> "replayed", grant |-> FALSE]}
      [] s = "EXPIRED"   -> {[outcome |-> "expired", grant |-> FALSE]}

\* ClaimCampaign of an entry that the actor saw as CLAIMABLE.
Post(p, a, c, answer) ==
    /\ status' = IF answer.grant THEN [status EXCEPT ![a][c] = "CLAIMED"] ELSE status
    /\ by' = IF answer.grant THEN [by EXCEPT ![a][c] = p] ELSE by
    /\ rival' = IF answer.outcome = "replayed" THEN [rival EXCEPT ![p] = by[a][c]] ELSE rival

\* Outside the plugin: the account's owner claims, or the upstream comes to a claim
\* whose client has given it up (its timeout, a restart); a campaign runs out.
UserClaims(a, c) ==
    /\ c \in Benefits /\ status[a][c] = "CLAIMABLE"
    /\ status' = [status EXCEPT ![a][c] = "CLAIMED"]
    /\ by' = [by EXCEPT ![a][c] = User]
    /\ UNCHANGED <<now, restarts, loopVars, dayVars, reqVars, rival>>

RunsOut(a, c) ==
    /\ c \in Benefits /\ status[a][c] = "CLAIMABLE"
    /\ status' = [status EXCEPT ![a][c] = "EXPIRED"]
    /\ UNCHANGED <<now, restarts, by, loopVars, dayVars, reqVars, rival>>

\* Time passes, but not beyond the moment the sleeping loop is woken at.  The
\* upstream offers the day's campaigns anew at ClaimHour.
Tick ==
    /\ now < MaxClock
    /\ ~(pc = "sleep" /\ now >= next)
    /\ now' = now + 1
    /\ LET opens == now' % DayLen = ClaimHour
       IN  /\ status' = IF opens THEN [a \in Accounts |-> [c \in Offers |-> "CLAIMABLE"]]
                                 ELSE status
           /\ by' = IF opens THEN [a \in Accounts |-> [c \in Offers |-> Nobody]] ELSE by
           /\ excused' = IF opens /\ pc # "sleep" THEN excused \cup {DayOf(now')} ELSE excused
    /\ UNCHANGED <<restarts, loopVars, ran, reqVars, rival>>

----------------------------------------------------------------------------
(* The loop: startCampaignsOps and claimAll.                               *)

\* A slip: once today's slot is over, the day is advanced twice.
nextClaimAt_dayAfterTomorrow(t, jitter) ==
    LET at == DayOf(t) * DayLen + ClaimHour + jitter
    IN  IF at > t THEN at ELSE at + 2 * DayLen

\* The next slot strictly after t: today's, or else tomorrow's.
nextClaimAt(t, jitter) ==
    LET at == DayOf(t) * DayLen + ClaimHour + jitter
    IN  IF at > t THEN at ELSE at + DayLen

\* Outside claimAll there is no state of a round.
NoRound ==
    /\ files' = <<>> /\ seen' = {} /\ acct' = NoIndex /\ todo' = {}
    /\ tried' = [a \in Accounts |-> 0] /\ listed' = {}
    /\ rival' = [rival EXCEPT ![Claimer] = Nobody]

Plan ==
    /\ pc = "plan"
    /\ \E jitter \in Jitters : next' = nextClaimAt(now, jitter)
    /\ pc' = "sleep"
    /\ NoRound
    /\ UNCHANGED <<now, restarts, status, by, dayVars, reqVars>>

WakeUp ==
    /\ pc = "sleep" /\ now >= next
    /\ pc' = "list" /\ next' = 0
    /\ ran' = ran \cup {DayOf(now)}
    /\ UNCHANGED <<now, restarts, status, by, files, seen, acct, todo, tried, listed,
                   excused, reqVars, rival>>

ListAuth ==
    /\ pc = "list"
    /\ \E list \in FileLists :
          /\ files' = list
          /\ listed' = {list[i].auth : i \in {i \in DOMAIN list : list[i].qoder}} \ {NoIndex}
    /\ pc' = "file"
    /\ UNCHANGED <<now, restarts, status, by, next, seen, acct, todo, tried,
                   dayVars, reqVars, rival>>

ListFails ==
    /\ pc = "list"
    /\ pc' = "plan"
    /\ UNCHANGED <<now, restarts, status, by, next, files, seen, acct, todo, tried, listed,
                   dayVars, reqVars, rival>>

Skips(file) == ~file.qoder \/ file.auth = NoIndex \/ file.auth \in seen

NextFile ==
    /\ pc = "file" /\ files # <<>>
    /\ files' = Tail(files)
    /\ IF Skips(Head(files))
         THEN UNCHANGED <<pc, acct, seen>>
         ELSE pc' = "credential" /\ acct' = Head(files).auth /\ seen' = seen \cup {acct'}
    /\ UNCHANGED <<now, restarts, status, by, next, todo, tried, listed, dayVars, reqVars, rival>>

RoundEnds ==
    /\ pc = "file" /\ files = <<>>
    /\ pc' = "plan"
    /\ UNCHANGED <<now, restarts, status, by, next, files, seen, acct, todo, tried, listed,
                   dayVars, reqVars, rival>>

\* A slip: an account without a credential ends the round.
AskCredential_givesUp ==
    /\ pc = "credential"
    /\ tried' = [tried EXCEPT ![acct] = @ + 1]
    /\ pc' \in {"fetch", "plan"}
    /\ UNCHANGED <<now, restarts, status, by, next, files, seen, acct, todo, listed,
                   dayVars, reqVars, rival>>

\* Asks the host for the account's credential; without one the next file is taken.
AskCredential ==
    /\ pc = "credential"
    /\ tried' = [tried EXCEPT ![acct] = @ + 1]
    /\ pc' \in {"fetch", "file"}
    /\ UNCHANGED <<now, restarts, status, by, next, files, seen, acct, todo, listed,
                   dayVars, reqVars, rival>>

\* The campaigns that claimAll sends a claim for.
Claimable(statuses) == {c \in Benefits : statuses[c] = "CLAIMABLE"}

FetchCampaigns ==
    /\ pc = "fetch"
    /\ \/ todo' = Claimable(status[acct]) /\ pc' = "claim"
       \/ todo' = {} /\ pc' = "file"
    /\ UNCHANGED <<now, restarts, status, by, next, files, seen, acct, tried, listed,
                   dayVars, reqVars, rival>>

ClaimNext ==
    /\ pc = "claim" /\ todo # {}
    /\ \E c \in todo :
          /\ \E answer \in Answers(status[acct][c]) : Post(Claimer, acct, c, answer)
          /\ todo' = todo \ {c}
    /\ UNCHANGED <<now, restarts, pc, next, files, seen, acct, tried, listed, dayVars, reqVars>>

AccountDone ==
    /\ pc = "claim" /\ todo = {}
    /\ pc' = "file"
    /\ UNCHANGED <<now, restarts, status, by, next, files, seen, acct, todo, tried, listed,
                   dayVars, reqVars, rival>>

----------------------------------------------------------------------------
(* Management requests: refreshCampaigns, claimCampaign, fetchActivity.    *)
(* What they reply is left out; a request whose reply is out is Done.      *)

Goes(r, step) == req' = [req EXCEPT ![r] = step]

\* A body without an auth index (or a campaign, for a claim) is refused at once;
\* what the others ask for is looked at when they hold the mutex.
Arrives(r) ==
    /\ req[r].at = "idle"
    /\ Goes(r, Done) \/ Goes(r, [Idle EXCEPT !.at = "waits"])
    /\ UNCHANGED <<now, restarts, status, by, loopVars, dayVars, mu, rival>>

\* A slip: the mutex does not exclude another request.
Lock_shared(r) ==
    /\ req[r].at = "waits"
    /\ mu' = r
    /\ \E a \in Accounts, c \in Offers :
          Goes(r, [Idle EXCEPT !.at = "resolve", !.kind = "claim", !.acct = a, !.offer = c])
    /\ UNCHANGED <<now, restarts, status, by, loopVars, dayVars, rival>>

Lock(r) ==
    /\ req[r].at = "waits" /\ mu = Nobody
    /\ mu' = r
    /\ \/ \E kind \in {"list", "activity"} : Goes(r, [Idle EXCEPT !.at = "resolve", !.kind = kind])
       \/ \E a \in Accounts, c \in Offers :
             Goes(r, [Idle EXCEPT !.at = "resolve", !.kind = "claim", !.acct = a, !.offer = c])
    /\ UNCHANGED <<now, restarts, status, by, loopVars, dayVars, rival>>

\* The reply, after which the deferred Unlock runs.
Reply(r) == mu' = Nobody /\ Goes(r, Done)

resolveCredential(r) ==
    /\ req[r].at = "resolve"
    /\ \/ Goes(r, [req[r] EXCEPT !.at = "fetch"]) /\ UNCHANGED mu
       \/ Reply(r)
    /\ UNCHANGED <<now, restarts, status, by, loopVars, dayVars, rival>>

\* Lists of campaigns and figures of activity are replied as they come, and so
\* is their failure; no other state changes.
FetchAndReply(r) ==
    /\ req[r].at = "fetch" /\ req[r].kind \in {"list", "activity"}
    /\ Reply(r)
    /\ UNCHANGED <<now, restarts, status, by, loopVars, dayVars, rival>>

\* claimCampaign lists the campaigns itself and looks for the one asked for: a
\* failure, a list without it and another kind of campaign end the request.
FetchForClaim(r) ==
    /\ req[r].at = "fetch" /\ req[r].kind = "claim"
    /\ \/ Reply(r)
       \/ /\ req[r].offer \in Benefits
          /\ Goes(r, [req[r] EXCEPT !.at = "claim", !.shown = status[req[r].acct][req[r].offer]])
          /\ UNCHANGED mu
    /\ UNCHANGED <<now, restarts, status, by, loopVars, dayVars, rival>>

\* ClaimCampaign answers for an entry that is not CLAIMABLE without a request.
ClaimLocally(r) ==
    /\ req[r].at = "claim" /\ req[r].shown # "CLAIMABLE"
    /\ Reply(r)
    /\ UNCHANGED <<now, restarts, status, by, loopVars, dayVars, rival>>

ClaimUpstream(r) ==
    /\ req[r].at = "claim" /\ req[r].shown = "CLAIMABLE"
    /\ \E answer \in Answers(status[req[r].acct][req[r].offer]) :
          Post(r, req[r].acct, req[r].offer, answer)
    /\ Reply(r)
    /\ UNCHANGED <<now, restarts, loopVars, dayVars>>

----------------------------------------------------------------------------
\* The host restarts the plugin: the loop begins anew and requests are gone.
Restart ==
    /\ restarts < MaxRestarts
    /\ restarts' = restarts + 1
    /\ pc' = "plan" /\ next' = 0 /\ NoRound
    /\ mu' = Nobody
    /\ req' = [r \in Requests |-> Idle]
    /\ excused' = IF now % DayLen >= ClaimHour THEN excused \cup {DayOf(now)} ELSE excused
    /\ UNCHANGED <<now, status, by, ran>>

claimAll ==
    \/ ListAuth \/ ListFails \/ NextFile \/ RoundEnds
    \/ AskCredential \/ FetchCampaigns \/ ClaimNext \/ AccountDone
Loop == Plan \/ WakeUp \/ claimAll
Manage(r) ==
    \/ Arrives(r) \/ Lock(r) \/ resolveCredential(r)
    \/ FetchAndReply(r) \/ FetchForClaim(r)
    \/ ClaimLocally(r) \/ ClaimUpstream(r)

Next ==
    \/ Loop
    \/ \E r \in Requests : Manage(r)
    \/ \E a \in Accounts, c \in Offers : UserClaims(a, c) \/ RunsOut(a, c)
    \/ Tick
    \/ Restart

Spec == Init /\ [][Next]_vars

----------------------------------------------------------------------------
(* Correctness.                                                            *)

Statuses == {"CLAIMABLE", "CLAIMED", "EXPIRED"}
Grantees == Requests \cup {Claimer, User, Nobody}

\* The local variables of a management request.
RequestState ==
    [at : {"idle", "waits", "resolve", "fetch", "claim", "done"},
     kind : {"none", "list", "activity", "claim"},
     acct : Accounts \cup {NoIndex}, offer : Offers \cup {Nobody},
     shown : Statuses \cup {"none"}]

TypeOK ==
    /\ now \in Nat /\ restarts \in 0 .. MaxRestarts
    /\ status \in [Accounts -> [Offers -> Statuses]]
    /\ by \in [Accounts -> [Offers -> Grantees]]
    /\ pc \in {"plan", "sleep", "list", "file", "credential", "fetch", "claim"}
    /\ next \in Nat
    /\ files \in Seq([auth : Accounts \cup {NoIndex}, qoder : BOOLEAN])
    /\ seen \subseteq Accounts /\ listed \subseteq Accounts
    /\ acct \in Accounts \cup {NoIndex}
    /\ pc \in {"credential", "fetch", "claim"} => acct \in Accounts
    /\ todo \subseteq Benefits
    /\ tried \in [Accounts -> Nat]
    /\ ran \subseteq Nat /\ excused \subseteq Nat
    /\ mu \in Requests \cup {Nobody}
    /\ req \in [Requests -> RequestState]
    /\ \A r \in Requests : req[r].at \in {"resolve", "fetch", "claim"} /\ req[r].kind = "claim"
                            => req[r].acct \in Accounts /\ req[r].offer \in Offers
    /\ rival \in [Requests \cup {Claimer} -> Grantees]

\* "A bad token must not make the others miss the day": a round that has
\* ended asked for the credential of every listed account, whatever failed
\* for the accounts before it, and of none twice although the host may list
\* an account more than once (claimAll, seen).
EveryAccountTried ==
    /\ pc = "plan" => \A a \in listed : tried[a] = 1
    /\ \A a \in Accounts : tried[a] <= 1

\* A claim finds the benefit already claimed only because somebody else was
\* granted it between the actor's own list and its claim; for a management
\* request that is never another management request (managementService.mu),
\* and the loop never meets a grant of its own.  (A claim that its client gave
\* up and that the upstream grants later counts as outside.)
ReplayComesFromOutside ==
    /\ rival[Claimer] # Claimer
    /\ \A r \in Requests : rival[r] \notin Requests

\* Although the jitter is drawn anew after every round, no day's slot passes
\* without a round if the loop was asleep when the slot began.
NoDayMissed ==
    \A d \in 0 .. DayOf(now) :
        (\A j \in Jitters : now > d * DayLen + ClaimHour + j) => d \in ran \cup excused

============================================================================
