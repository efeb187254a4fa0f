----------------------------- MODULE DeviceLogin -----------------------------
(***************************************************************************)
(* One device login: the transaction that auth.login.start puts into the   *)
(* store (internal/qoderauth/oauth.go, store.go) and the auth.login.poll   *)
(* RPCs of the host that ask for its outcome (auth_provider.go). Polls may *)
(* overlap: the store's lock guards its map, the transaction's own lock    *)
(* guards the request to the token endpoint, and nothing guards the        *)
(* credential that a poll completes once it has it.                        *)
(***************************************************************************)
EXTENDS Naturals, FiniteSets

CONSTANT Polls   \* auth.login.poll RPCs, each one call

NoPoll == "none"

ASSUME DeviceLoginAssumption == NoPoll \notin Polls

VARIABLES
  stored,      \* whether transactionStore.transactions has the transaction
  status,      \* Transaction.Status
  past,        \* whether the time is past Transaction.ExpiresAt
  lock,        \* Transaction.mu: its holder, or NoPoll
  credential,  \* the one *Credential of the transaction, shared by those that were given it
  poll,        \* the local state of each poll
  user,        \* what the user has done at the verification URL; external
  tokens       \* history: answers of the token endpoint with a token that reached a poll

loginVars == <<stored, status, past, lock, credential, poll, user, tokens>>

\* The runtime fields of a poll: the encrypted user info and the wrapped key it is encrypted
\* with are drawn together, so each is named by the poll that drew it.
Pair == [info : Polls \union {NoPoll}, key : Polls \union {NoPoll}]
NoPair == [info |-> NoPoll, key |-> NoPoll]

Answers == {"pending", "success", "unknown", "expired", "terminal", "failed", "nobody"}
Working == {"blocked", "asking", "profile", "info", "key", "copy"}

\* DeviceLogin has just stored the transaction.
LoginInit ==
  /\ stored = TRUE
  /\ status = "pending"
  /\ past = FALSE
  /\ lock = NoPoll
  /\ credential = [known |-> FALSE, info |-> NoPoll, key |-> NoPoll]
  /\ poll = [p \in Polls |-> [at |-> "idle", saved |-> NoPair]]
  /\ user = "away"
  /\ tokens = 0

Go(p, at) == poll' = [poll EXCEPT ![p].at = at]

-----------------------------------------------------------------------------
(* PollLogin *)

\* transactionStore.get
Find(p) ==
  /\ poll[p].at = "idle"
  /\ Go(p, IF stored THEN "blocked" ELSE "unknown")
  /\ UNCHANGED <<stored, status, past, lock, credential, user, tokens>>

\* The transaction has ended while the poll waited for its lock: after a success the poll is
\* given the same credential.
FindEnded(p) ==
  /\ poll[p].at = "blocked" /\ lock = NoPoll
  /\ status # "pending"
  /\ Go(p, IF status = "success" THEN "profile" ELSE "terminal")
  /\ UNCHANGED <<stored, status, past, lock, credential, user, tokens>>

FindExpired(p) ==
  /\ poll[p].at = "blocked" /\ lock = NoPoll
  /\ status = "pending" /\ past
  /\ status' = "error"
  /\ stored' = FALSE
  /\ Go(p, "expired")
  /\ UNCHANGED <<past, lock, credential, user, tokens>>

\* A slip: what happened while the poll waited for the lock is not looked at.
Ask_unchecked(p) ==
  /\ poll[p].at = "blocked" /\ lock = NoPoll
  /\ lock' = p
  /\ Go(p, "asking")
  /\ UNCHANGED <<stored, status, past, credential, user, tokens>>

\* The lock is held until the token endpoint has answered.
Ask(p) ==
  /\ poll[p].at = "blocked" /\ lock = NoPoll
  /\ status = "pending" /\ ~past
  /\ lock' = p
  /\ Go(p, "asking")
  /\ UNCHANGED <<stored, status, past, credential, user, tokens>>

\* 404, 202, authorization_pending or slow_down.
AnswerPending(p) ==
  /\ poll[p].at = "asking"
  /\ lock' = NoPoll
  /\ Go(p, "pending")
  /\ UNCHANGED <<stored, status, past, credential, user, tokens>>

\* No answer, one too large or not JSON, or any other HTTP status: the transaction stays.
AnswerLost(p) ==
  /\ poll[p].at = "asking"
  /\ lock' = NoPoll
  /\ Go(p, "failed")
  /\ UNCHANGED <<stored, status, past, credential, user, tokens>>

AnswerRefused_keepsLock(p) ==
  /\ poll[p].at = "asking"
  /\ status' = "error"
  /\ stored' = FALSE
  /\ Go(p, "failed")
  /\ UNCHANGED <<past, lock, credential, user, tokens>>

\* expired_token, access_denied or anything else without a token.
AnswerRefused(p) ==
  /\ poll[p].at = "asking"
  /\ status' = "error"
  /\ stored' = FALSE
  /\ lock' = NoPoll
  /\ Go(p, "failed")
  /\ UNCHANGED <<past, credential, user, tokens>>

\* A token, with the user ID or without.
AnswerToken(p) ==
  /\ poll[p].at = "asking"
  /\ user = "approved"
  /\ tokens' = tokens + 1
  /\ status' = "success"
  /\ stored' = FALSE
  /\ lock' = NoPoll
  /\ \E known \in BOOLEAN : credential' = [credential EXCEPT !.known = known]
  /\ Go(p, "profile")
  /\ UNCHANGED <<past, user>>

-----------------------------------------------------------------------------
(* authService.poll, after a success: it writes into the shared credential *)

FetchProfile(p) ==
  /\ poll[p].at = "profile"
  /\ credential' = [credential EXCEPT !.known = TRUE]
  /\ Go(p, "info")
  /\ UNCHANGED <<stored, status, past, lock, user, tokens>>

\* A slip: the profile is needed in any case.
NoProfile_fails(p) ==
  /\ poll[p].at = "profile"
  /\ Go(p, "nobody")
  /\ UNCHANGED <<stored, status, past, lock, credential, user, tokens>>

\* The user ID that came with the token is enough; without one the login fails.
NoProfile(p) ==
  /\ poll[p].at = "profile"
  /\ Go(p, IF credential.known THEN "info" ELSE "nobody")
  /\ UNCHANGED <<stored, status, past, lock, credential, user, tokens>>

\* Two assignments, with no lock held.
SetRuntimeInfo(p) ==
  /\ poll[p].at = "info"
  /\ credential' = [credential EXCEPT !.info = p]
  /\ Go(p, "key")
  /\ UNCHANGED <<stored, status, past, lock, user, tokens>>

SetRuntimeKey(p) ==
  /\ poll[p].at = "key"
  /\ credential' = [credential EXCEPT !.key = p]
  /\ Go(p, "copy")
  /\ UNCHANGED <<stored, status, past, lock, user, tokens>>

\* authData takes a copy of the credential, and the host saves it.
Copy(p) ==
  /\ poll[p].at = "copy"
  /\ poll' = [poll EXCEPT ![p] = [at |-> "success",
                                  saved |-> [info |-> credential.info, key |-> credential.key]]]
  /\ UNCHANGED <<stored, status, past, lock, credential, user, tokens>>

-----------------------------------------------------------------------------
(* The user and the clock *)

Decide ==
  /\ user = "away"
  /\ user' \in {"approved", "denied"}
  /\ UNCHANGED <<stored, status, past, lock, credential, poll, tokens>>

Expire ==
  /\ ~past
  /\ past' = TRUE
  /\ UNCHANGED <<stored, status, lock, credential, poll, user, tokens>>

PollStep(p) ==
  \/ FindEnded(p) \/ FindExpired(p) \/ Ask(p)
  \/ AnswerPending(p) \/ AnswerLost(p) \/ AnswerRefused(p) \/ AnswerToken(p)
  \/ FetchProfile(p) \/ NoProfile(p) \/ SetRuntimeInfo(p) \/ SetRuntimeKey(p) \/ Copy(p)

LoginOver ==
  /\ \A p \in Polls : poll[p].at \in Answers
  /\ UNCHANGED loginVars

LoginNext ==
  \/ \E p \in Polls : Find(p) \/ PollStep(p)
  \/ Decide
  \/ Expire
  \/ LoginOver

\* A poll that the host has started goes on: the endpoints answer or time out, and Go's mutex
\* passes to every waiter in the end (a poll asks for it once).
LoginFairness == \A p \in Polls : SF_loginVars(PollStep(p))

LoginSpec == LoginInit /\ [][LoginNext]_loginVars /\ LoginFairness

-----------------------------------------------------------------------------

\* The fields keep their types; the store keeps nothing but pending transactions.
LoginTypeOK ==
  /\ stored <=> status = "pending"
  /\ stored \in BOOLEAN /\ past \in BOOLEAN
  /\ status \in {"pending", "success", "error"}
  /\ lock \in Polls \union {NoPoll}
  /\ credential \in [known : BOOLEAN, info : Polls \union {NoPoll}, key : Polls \union {NoPoll}]
  /\ poll \in [Polls -> [at : {"idle"} \union Working \union Answers, saved : Pair]]
  /\ user \in {"away", "approved", "denied"}
  /\ tokens \in Nat

\* However many polls overlap, the login yields one token: a second request to the endpoint
\* is never made once a token has come.
OneToken == tokens <= 1 /\ (tokens = 1 => lock = NoPoll)

Completing(p) == poll[p].at \in {"info", "key", "copy", "success"}

\* A token whose user is known reaches the host, and with a key that fits the user info if one
\* poll alone completed the credential; with two of them the halves may be of different pairs,
\* which no request can be signed with. The one way to lose a token is that it names no user
\* and the profile cannot be read: the transaction is gone, and no later poll can try again.
TokenReachesHost ==
  /\ (tokens > 0 /\ credential.known /\ \A p \in Polls : poll[p].at \in Answers) =>
       \E p \in Polls : poll[p].at = "success"
  /\ \A p \in Polls :
       (poll[p].at = "success" /\ \A q \in Polls \ {p} : ~Completing(q)) =>
         poll[p].saved = [info |-> p, key |-> p]

\* A poll that has found the transaction gets an answer: every path gives the lock back.
EveryPollReturns == \A p \in Polls : (poll[p].at \in Working) ~> (poll[p].at \in Answers)

=============================================================================
