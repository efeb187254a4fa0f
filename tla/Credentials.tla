----------------------------- MODULE Credentials -----------------------------
(***************************************************************************)
(* The stored credential of one account and those who change it: the       *)
(* auth.refresh RPC (auth_provider.go and the singleflight of              *)
(* internal/qoderauth/refresh.go) and the management requests that read    *)
(* the auth file, change it and write it back (management_quota.go,        *)
(* management_save_merge.go).                                              *)
(*                                                                         *)
(* Refresh tokens rotate: token n of the account is dead once the upstream *)
(* has given out token n + 1.                                              *)
(***************************************************************************)
EXTENDS Naturals, FiniteSets

CONSTANTS
  Refreshes,   \* auth.refresh RPCs, each one call
  Requests,    \* management requests, each one call
  Profiles,    \* transport profiles of one region (they share one auth ID)
  Types,       \* account classes the quota endpoint may report
  Missing,     \* no account class
  MaxEdits     \* bound: edits of host-side keys

None == "none"

ASSUME CredentialsAssumption ==
  /\ None \notin Refreshes \union Requests
  /\ Profiles # {} /\ None \notin Profiles /\ Missing \notin Types
  /\ MaxEdits \in Nat

VARIABLES
  file,      \* the auth file: owned keys token, profile, type; foreign ones as a version
  valid,     \* the refresh token the upstream accepts
  flight,    \* refreshSingleflight.inflight of the account: the refresh that leads, or None
  refresh,   \* the local state of each auth.refresh
  mu,        \* managementService.mu: its holder, or None
  request,   \* the local state of each management request
  lost,      \* history: a rotation whose response never arrived
  stale,     \* history: a save replaced the file's token by an older one
  chosen,    \* history: the profile set last, None once a refresh was saved after it
  edits,     \* history: edits of the host's keys, each of which gives them a new version
  crossed    \* history: an edit fell between the reading and the writing of a request

history == <<lost, stale, chosen, edits, crossed>>
vars == <<file, valid, flight, refresh, mu, request, history>>

\* The keys a refresh needs; the answer of a failed one has token 0.
Credential == [token : Nat, profile : Profiles]
File == [token : Nat, profile : Profiles, type : Types \union {Missing}, foreign : Nat]

CredentialOf(f) == [token |-> f.token, profile |-> f.profile]
Failed(credential) == credential.token = 0

\* What a request holds that reads nothing.
Blank == [token |-> 0, profile |-> CHOOSE p \in Profiles : TRUE, type |-> Missing, foreign |-> 0]

Init ==
  /\ file \in [token : {1}, profile : Profiles, type : {Missing}, foreign : {0}]
  /\ valid = 1
  /\ flight = None
  /\ refresh = [r \in Refreshes |->
       [at |-> "idle", leader |-> None, credential |-> CredentialOf(file)]]
  /\ mu = None
  /\ request = [m \in Requests |-> [at |-> "idle", fresh |-> Blank]]
  /\ lost = FALSE /\ stale = FALSE /\ chosen = None /\ edits = 0 /\ crossed = FALSE

-----------------------------------------------------------------------------
(* auth.refresh *)

\* The host passes the credential it has at that time.
CallRefresh(r) ==
  /\ refresh[r].at = "idle"
  /\ refresh' = [refresh EXCEPT ![r].at = "called", ![r].credential = CredentialOf(file)]
  /\ UNCHANGED <<file, valid, flight, mu, request, history>>

\* A slip: nobody looks for a refresh under way.
Lead_always(r) ==
  /\ refresh[r].at = "called"
  /\ flight' = r
  /\ refresh' = [refresh EXCEPT ![r].at = "asking", ![r].leader = r]
  /\ UNCHANGED <<file, valid, mu, request, history>>

Lead(r) ==
  /\ refresh[r].at = "called"
  /\ flight = None
  /\ flight' = r
  /\ refresh' = [refresh EXCEPT ![r].at = "asking", ![r].leader = r]
  /\ UNCHANGED <<file, valid, mu, request, history>>

Join(r) ==
  /\ refresh[r].at = "called"
  /\ flight # None
  /\ refresh' = [refresh EXCEPT ![r].at = "waiting", ![r].leader = flight]
  /\ UNCHANGED <<file, valid, flight, mu, request, history>>

Answer_oldToken(r, token) == refresh' = [refresh EXCEPT ![r].at = "publishing"]

Answer(r, token) ==
  refresh' = [refresh EXCEPT ![r].at = "publishing", ![r].credential.token = token]

\* doRefresh: a valid token is replaced, or kept if the upstream does not rotate it.
Refreshed(r) ==
  /\ refresh[r].at = "asking"
  /\ refresh[r].credential.token = valid
  /\ \E next \in {valid, valid + 1} :
       /\ valid' = next
       /\ Answer(r, next)
  /\ UNCHANGED <<file, flight, mu, request, history>>

\* A dead token, an upstream that fails, or an answer that does not arrive.
NotRefreshed(r) ==
  /\ refresh[r].at = "asking"
  /\ \/ UNCHANGED <<valid, lost>>
     \/ /\ refresh[r].credential.token = valid
        /\ valid' = valid + 1
        /\ lost' = TRUE
  /\ Answer(r, 0)
  /\ UNCHANGED <<file, flight, mu, request, stale, chosen, edits, crossed>>

\* The deferred function closes the channel first and leaves the map afterwards.
Publish(r) ==
  /\ refresh[r].at = "publishing"
  /\ refresh' = [refresh EXCEPT ![r].at = "leaving"]
  /\ UNCHANGED <<file, valid, flight, mu, request, history>>

Leave(r) ==
  /\ refresh[r].at = "leaving"
  /\ flight' = None
  /\ refresh' = [refresh EXCEPT ![r].at = "returned"]
  /\ UNCHANGED <<file, valid, mu, request, history>>

\* A slip: the waiter returns what it came with.
Wake_ownCredential(r) ==
  /\ refresh[r].at = "waiting"
  /\ refresh[refresh[r].leader].at \in {"leaving", "returned", "over"}
  /\ refresh' = [refresh EXCEPT ![r].at = "returned"]
  /\ UNCHANGED <<file, valid, flight, mu, request, history>>

\* A waiter returns what the leader got, with the leader's profile.
Wake(r) ==
  LET leader == refresh[refresh[r].leader]
  IN  /\ refresh[r].at = "waiting"
      /\ leader.at \in {"leaving", "returned", "over"}
      /\ refresh' = [refresh EXCEPT ![r].at = "returned", ![r].credential = leader.credential]
      /\ UNCHANGED <<file, valid, flight, mu, request, history>>

\* The host puts the credential it got into the file, beside its own keys; no account class
\* is among what doRefresh returns.
SaveRefreshed(r) ==
  LET credential == refresh[r].credential
  IN  /\ refresh[r].at = "returned"
      /\ refresh' = [refresh EXCEPT ![r].at = "over"]
      /\ IF Failed(credential) THEN UNCHANGED <<file, stale, chosen>>
         ELSE /\ file' = [file EXCEPT !.token = credential.token,
                                      !.profile = credential.profile,
                                      !.type = Missing]
              /\ stale' = (stale \/ credential.token < file.token)
              /\ chosen' = None
      /\ UNCHANGED <<valid, flight, mu, request, lost, edits, crossed>>

-----------------------------------------------------------------------------
(* Management *)

\* A slip: the request does not lock.
Lock_not(m) ==
  /\ request[m].at = "idle"
  /\ \E kind \in {"profile", "quota"} : request' = [request EXCEPT ![m].at = kind]
  /\ UNCHANGED <<file, valid, flight, refresh, mu, history>>

\* updateProfile and refreshQuota lock s.mu for the whole request.
Lock(m) ==
  /\ request[m].at = "idle"
  /\ mu = None
  /\ mu' = m
  /\ \E kind \in {"profile", "quota"} : request' = [request EXCEPT ![m].at = kind]
  /\ UNCHANGED <<file, valid, flight, refresh, history>>

\* The request reads the file and makes its change to what it read.
GetForProfile(m, p) ==
  /\ request[m].at = "profile"
  /\ request' = [request EXCEPT ![m] = [at |-> "saveProfile",
                                         fresh |-> [file EXCEPT !.profile = p]]]
  /\ UNCHANGED <<file, valid, flight, refresh, mu, history>>

GetForQuota(m) ==
  /\ request[m].at = "quota"
  /\ request' = [request EXCEPT ![m] = [at |-> "fetch", fresh |-> file]]
  /\ UNCHANGED <<file, valid, flight, refresh, mu, history>>

\* The quota endpoint reports a class that differs from the stored one.
FetchNew(m, t) ==
  /\ request[m].at = "fetch"
  /\ t # request[m].fresh.type
  /\ request' = [request EXCEPT ![m].at = "saveQuota", ![m].fresh.type = t]
  /\ UNCHANGED <<file, valid, flight, refresh, mu, history>>

Reading(m) == request[m].at \in {"fetch", "saveProfile", "saveQuota"}

Leaves(m) ==
  /\ mu' = None
  /\ request' = [request EXCEPT ![m] = [at |-> "over", fresh |-> Blank]]

\* saveAuthPreservingHostKeys: the plugin's keys as changed, the host's as they were read.
Merged(m) == request[m].fresh

Save(m) ==
  /\ request[m].at \in {"saveProfile", "saveQuota"}
  /\ Leaves(m)
  /\ file' = Merged(m)
  /\ stale' = (stale \/ file'.token < file.token)
  /\ chosen' = (IF request[m].at = "saveProfile" THEN request[m].fresh.profile ELSE chosen)
  /\ UNCHANGED <<valid, flight, refresh, lost, edits, crossed>>

\* A slip: an early return that does not unlock.
GiveUp_locked(m) ==
  /\ request[m].at \in {"profile", "quota", "fetch", "saveProfile", "saveQuota"}
  /\ request' = [request EXCEPT ![m] = [at |-> "over", fresh |-> Blank]]
  /\ UNCHANGED <<file, valid, flight, refresh, mu, history>>

\* No such account, nothing new to store, a failed fetch or a failed save.
GiveUp(m) ==
  /\ request[m].at \in {"profile", "quota", "fetch", "saveProfile", "saveQuota"}
  /\ Leaves(m)
  /\ UNCHANGED <<file, valid, flight, refresh, history>>

\* The host changes its keys: priority, disabled, note.
HostEdits ==
  /\ edits < MaxEdits
  /\ edits' = edits + 1
  /\ file' = [file EXCEPT !.foreign = edits + 1]
  /\ crossed' = (crossed \/ \E m \in Requests : Reading(m))
  /\ UNCHANGED <<valid, flight, refresh, mu, request, lost, stale, chosen>>

RefreshStep(r) ==
  Lead(r) \/ Join(r) \/ Refreshed(r) \/ NotRefreshed(r) \/ Publish(r) \/ Leave(r) \/ Wake(r)

RequestStep(m) ==
  \/ \E p \in Profiles : GetForProfile(m, p)
  \/ GetForQuota(m)
  \/ \E t \in Types : FetchNew(m, t)
  \/ Save(m)
  \/ GiveUp(m)

Over ==
  /\ \A r \in Refreshes : refresh[r].at = "over"
  /\ \A m \in Requests : request[m].at = "over"
  /\ UNCHANGED vars

Next ==
  \/ \E r \in Refreshes : CallRefresh(r) \/ RefreshStep(r) \/ SaveRefreshed(r)
  \/ \E m \in Requests : Lock(m) \/ RequestStep(m)
  \/ HostEdits
  \/ Over

\* The upstream and the host answer every call, so that a goroutine goes on; one that waits for
\* the mutex gets it in the end.
Fairness ==
  /\ \A r \in Refreshes : WF_vars(RefreshStep(r))
  /\ \A m \in Requests : WF_vars(RequestStep(m)) /\ SF_vars(Lock(m))

Spec == Init /\ [][Next]_vars /\ Fairness

-----------------------------------------------------------------------------

\* The local variables of a refresh and of a management request.
RefreshState ==
  [at : {"idle", "called", "waiting", "asking", "publishing", "leaving", "returned", "over"},
   leader : Refreshes \union {None}, credential : Credential]
RequestState ==
  [at : {"idle", "profile", "quota", "fetch", "saveProfile", "saveQuota", "over"}, fresh : File]

\* The fields keep their types.
TypeOK ==
  /\ file \in File
  /\ valid \in Nat \ {0}
  /\ flight \in Refreshes \union {None}
  /\ mu \in Requests \union {None}
  /\ refresh \in [Refreshes -> RefreshState]
  /\ request \in [Requests -> RequestState]
  /\ lost \in BOOLEAN /\ stale \in BOOLEAN /\ crossed \in BOOLEAN
  /\ chosen \in Profiles \union {None}
  /\ edits \in 0..MaxEdits

\* However many refreshes the host starts, one at a time spends the account's refresh token.
OneRefreshUpstream == Cardinality({r \in Refreshes : refresh[r].at = "asking"}) <= 1

\* A refresh that joined another returns the answer of that very one, never nothing and never
\* that of a later one.
WaitersGetAnswer ==
  \A r \in Refreshes : refresh[r].at \in {"returned", "over"} =>
    /\ refresh[refresh[r].leader].at \in {"leaving", "returned", "over"}
    /\ refresh[r].credential = refresh[refresh[r].leader].credential

\* The stored refresh token is dead only while its successor is on its way to the file, or
\* because the upstream's answer was lost, or a save of what had been read earlier brought
\* the token back.
TokenLives ==
  \/ file.token = valid
  \/ lost \/ stale
  \/ \E r \in Refreshes : /\ refresh[r].at \in {"publishing", "leaving", "returned"}
                          /\ refresh[r].credential.token = valid

\* No management request undoes the profile that another one has set: only a request that
\* sets one, or a refresh, does.
ProfileStays == chosen # None => file.profile = chosen

\* No write of the plugin loses the host's keys, unless the host changed them between the
\* reading and the writing of one request.
HostKeysSurvive == file.foreign = edits \/ crossed

\* What a write of the plugin must leave of others' work in the file.
FileKeepsOthersWork == ProfileStays /\ HostKeysSurvive

\* No refresh waits for ever for another, and no management request for the mutex.
AllReturn ==
  /\ \A r \in Refreshes : (refresh[r].at = "waiting") ~> (refresh[r].at = "returned")
  /\ \A m \in Requests : <>(request[m].at = "over")

\* qoderAuthOwnedKeys: what is written back is the new payload, "or else rotated tokens would
\* be brought back to life"; so a management save never puts an older token into the file.
RotatedTokensStayDead ==
  [][\A m \in Requests : Save(m) => file'.token >= file.token]_vars
=============================================================================
