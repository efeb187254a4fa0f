-------------------------- MODULE CredentialsProofs --------------------------
(***************************************************************************)
(* The stored credential for any number of refreshes, management requests  *)
(* and edits of the host.  Three invariants carry the promises: FlightInv  *)
(* says where a refresh is with respect to the singleflight, TokenInv that *)
(* nobody holds a token the upstream has not given out yet, MutexInv what  *)
(* the holder of the mutex has read of the file.                           *)
(*                                                                         *)
(* The second part is about the login that a credential comes from: one    *)
(* token per login, and its way to the host, for any set of polls.         *)
(*                                                                         *)
(* The third is about an account's quota: what the scheduler and the panel *)
(* are told, for any records, lists and calls.  The invariant follows each *)
(* fetch with what it has been told so far, and the panel's visit of its   *)
(* list record by record.                                                  *)
(***************************************************************************)
EXTENDS Credentials, DeviceLogin, Quota, FiniteSetTheorems, SequenceTheorems, TLAPS

Upstream == {"asking", "publishing", "leaving"}
Answered == {"leaving", "returned", "over"}
Locked   == {"profile", "quota", "fetch", "saveProfile", "saveQuota"}

\* The singleflight belongs to the one refresh that leads; whoever waits or has returned knows
\* a refresh that led, and has its answer.
FlightInv ==
  \A r \in Refreshes :
    /\ refresh[r].at \in Upstream <=> flight = r
    /\ refresh[r].at \in Upstream => refresh[r].leader = r
    /\ refresh[r].at \in {"waiting", "returned", "over"} =>
         /\ refresh[r].leader \in Refreshes
         /\ refresh[refresh[r].leader].leader = refresh[r].leader
         /\ refresh[refresh[r].leader].at \in Upstream \union Answered
    /\ refresh[r].at \in {"returned", "over"} =>
         /\ refresh[refresh[r].leader].at \in Answered
         /\ refresh[r].credential = refresh[refresh[r].leader].credential

\* No token is newer than the one the upstream accepts.
TokenInv ==
  /\ file.token <= valid
  /\ \A r \in Refreshes : refresh[r].credential.token <= valid
  /\ \A m \in Requests : request[m].fresh.token <= valid

\* What the holder of the mutex has read is still so in the file, unless it was made void.
MutexInv ==
  \A m \in Requests :
    /\ request[m].at \in Locked <=> mu = m
    /\ request[m].at \in {"fetch", "saveQuota"} /\ chosen # None => request[m].fresh.profile = chosen
    /\ Reading(m) => request[m].fresh.foreign = edits \/ crossed

Inv ==
  /\ TypeOK
  /\ FlightInv
  /\ TokenInv /\ TokenLives
  /\ MutexInv /\ FileKeepsOthersWork

----------------------------------------------------------------------------
(* The steps, spelled out for the one refresh or request that takes them.   *)

RefreshAction(r) == CallRefresh(r) \/ RefreshStep(r) \/ SaveRefreshed(r)
RequestAction(m) == Lock(m) \/ RequestStep(m)

\* Only r's own variables change, and only this way.
Moves(r, at, leader, held) ==
  /\ \A q \in Refreshes : q # r => refresh'[q] = refresh[q]
  /\ refresh'[r].at = at /\ refresh'[r].leader = leader /\ refresh'[r].credential = held

\* What an EXCEPT on the three fields of a refresh does.
LEMMA Move ==
  ASSUME TypeOK, NEW r \in Refreshes, NEW w \in RefreshState, refresh' = [refresh EXCEPT ![r] = w]
  PROVE  refresh' \in [Refreshes -> RefreshState] /\ Moves(r, w.at, w.leader, w.credential)
<1>1. refresh \in [Refreshes -> RefreshState]
  BY DEF TypeOK
<1> QED
  BY <1>1 DEF Moves

\* What each step of a refresh changes, and under which guard.
LEMMA RefreshMoves ==
  ASSUME TypeOK, FlightInv, NEW r \in Refreshes, RefreshAction(r)
  PROVE
    LET s == refresh[r] IN
    /\ refresh' \in [Refreshes -> RefreshState]
    /\ UNCHANGED <<mu, request, edits, crossed>>
    /\ \/ /\ s.at = "idle" /\ Moves(r, "called", s.leader, CredentialOf(file))
          /\ UNCHANGED <<file, valid, flight, history>>
       \/ /\ s.at = "called" /\ flight = None /\ flight' = r
          /\ Moves(r, "asking", r, s.credential)
          /\ UNCHANGED <<file, valid, history>>
       \/ /\ s.at = "called" /\ flight # None
          /\ Moves(r, "waiting", flight, s.credential)
          /\ UNCHANGED <<file, valid, flight, history>>
       \/ /\ s.at = "asking" /\ valid' \in {valid, valid + 1}
          /\ Moves(r, "publishing", s.leader, [s.credential EXCEPT !.token = valid'])
          /\ UNCHANGED <<file, flight, history>>
       \/ /\ s.at = "asking"
          /\ Moves(r, "publishing", s.leader, [s.credential EXCEPT !.token = 0])
          /\ \/ UNCHANGED <<valid, lost>>
             \/ valid' = valid + 1 /\ lost' = TRUE
          /\ UNCHANGED <<file, flight, stale, chosen>>
       \/ /\ s.at = "publishing" /\ Moves(r, "leaving", s.leader, s.credential)
          /\ UNCHANGED <<file, valid, flight, history>>
       \/ /\ s.at = "leaving" /\ Moves(r, "returned", s.leader, s.credential) /\ flight' = None
          /\ UNCHANGED <<file, valid, history>>
       \/ /\ s.at = "waiting" /\ refresh[s.leader].at \in Answered
          /\ Moves(r, "returned", s.leader, refresh[s.leader].credential)
          /\ UNCHANGED <<file, valid, flight, history>>
       \/ /\ s.at = "returned" /\ Moves(r, "over", s.leader, s.credential)
          /\ UNCHANGED <<valid, flight, lost>>
          /\ \/ Failed(s.credential) /\ UNCHANGED <<file, stale, chosen>>
             \/ /\ ~Failed(s.credential)
                /\ file' = [file EXCEPT !.token = s.credential.token,
                                        !.profile = s.credential.profile, !.type = Missing]
                /\ stale' = (stale \/ s.credential.token < file.token)
                /\ chosen' = None
<1>. DEFINE s == refresh[r]
<1>0. /\ refresh \in [Refreshes -> RefreshState] /\ s \in RefreshState
      /\ CredentialOf(file) \in Credential /\ valid \in Nat /\ flight \in Refreshes \union {None}
  BY DEF TypeOK, File, Credential, CredentialOf
<1>1. CASE CallRefresh(r)
  <2>. DEFINE w == [s EXCEPT !.at = "called", !.credential = CredentialOf(file)]
  <2>1. w \in RefreshState /\ w.at = "called" /\ w.leader = s.leader /\ w.credential = CredentialOf(file)
    BY <1>0 DEF RefreshState
  <2>2. refresh' = [refresh EXCEPT ![r] = w]
    BY <1>0, <1>1 DEF CallRefresh
  <2> HIDE DEF w
  <2>3. refresh' \in [Refreshes -> RefreshState] /\ Moves(r, w.at, w.leader, w.credential)
    BY <2>1, <2>2, Move
  <2> QED
    BY <1>1, <2>1, <2>3 DEF CallRefresh, history
<1>2. CASE Lead(r)
  <2>. DEFINE w == [s EXCEPT !.at = "asking", !.leader = r]
  <2>1. w \in RefreshState /\ w.at = "asking" /\ w.leader = r /\ w.credential = s.credential
    BY <1>0 DEF RefreshState
  <2>2. refresh' = [refresh EXCEPT ![r] = w]
    BY <1>0, <1>2 DEF Lead
  <2> HIDE DEF w
  <2>3. refresh' \in [Refreshes -> RefreshState] /\ Moves(r, w.at, w.leader, w.credential)
    BY <2>1, <2>2, Move
  <2> QED
    BY <1>2, <2>1, <2>3 DEF Lead, history
<1>3. CASE Join(r)
  <2>. DEFINE w == [s EXCEPT !.at = "waiting", !.leader = flight]
  <2>1. w \in RefreshState /\ w.at = "waiting" /\ w.leader = flight /\ w.credential = s.credential
    BY <1>0 DEF RefreshState
  <2>2. refresh' = [refresh EXCEPT ![r] = w]
    BY <1>0, <1>3 DEF Join
  <2> HIDE DEF w
  <2>3. refresh' \in [Refreshes -> RefreshState] /\ Moves(r, w.at, w.leader, w.credential)
    BY <2>1, <2>2, Move
  <2> QED
    BY <1>3, <2>1, <2>3 DEF Join, history
<1>4. ASSUME NEW token \in Nat, Answer(r, token)
      PROVE  /\ refresh' \in [Refreshes -> RefreshState]
             /\ Moves(r, "publishing", s.leader, [s.credential EXCEPT !.token = token])
  <2>. DEFINE w == [s EXCEPT !.at = "publishing", !.credential = [s.credential EXCEPT !.token = token]]
  <2>1. /\ w \in RefreshState /\ w.at = "publishing" /\ w.leader = s.leader
        /\ w.credential = [s.credential EXCEPT !.token = token]
    BY <1>0 DEF RefreshState, Credential
  <2>2. refresh' = [refresh EXCEPT ![r] = w]
    BY <1>0, <1>4 DEF Answer
  <2> HIDE DEF w
  <2>3. refresh' \in [Refreshes -> RefreshState] /\ Moves(r, w.at, w.leader, w.credential)
    BY <2>1, <2>2, Move
  <2> QED
    BY <2>1, <2>3
<1>5. CASE Refreshed(r)
  <2>1. PICK token \in {valid, valid + 1} : valid' = token /\ Answer(r, token)
    BY <1>5 DEF Refreshed
  <2>2. token \in Nat
    BY <1>0
  <2>3. /\ refresh' \in [Refreshes -> RefreshState]
        /\ Moves(r, "publishing", s.leader, [s.credential EXCEPT !.token = token])
    BY <1>4, <2>1, <2>2
  <2> QED
    BY <1>5, <2>1, <2>3 DEF Refreshed, history
<1>6. CASE NotRefreshed(r)
  <2>1. /\ refresh' \in [Refreshes -> RefreshState]
        /\ Moves(r, "publishing", s.leader, [s.credential EXCEPT !.token = 0])
    BY <1>4, <1>6 DEF NotRefreshed
  <2> QED
    BY <1>6, <2>1 DEF NotRefreshed
<1>7. CASE Publish(r)
  <2>. DEFINE w == [s EXCEPT !.at = "leaving"]
  <2>1. w \in RefreshState /\ w.at = "leaving" /\ w.leader = s.leader /\ w.credential = s.credential
    BY <1>0 DEF RefreshState
  <2>2. refresh' = [refresh EXCEPT ![r] = w]
    BY <1>0, <1>7 DEF Publish
  <2> HIDE DEF w
  <2>3. refresh' \in [Refreshes -> RefreshState] /\ Moves(r, w.at, w.leader, w.credential)
    BY <2>1, <2>2, Move
  <2> QED
    BY <1>7, <2>1, <2>3 DEF Publish, history
<1>8. CASE Leave(r)
  <2>. DEFINE w == [s EXCEPT !.at = "returned"]
  <2>1. w \in RefreshState /\ w.at = "returned" /\ w.leader = s.leader /\ w.credential = s.credential
    BY <1>0 DEF RefreshState
  <2>2. refresh' = [refresh EXCEPT ![r] = w]
    BY <1>0, <1>8 DEF Leave
  <2> HIDE DEF w
  <2>3. refresh' \in [Refreshes -> RefreshState] /\ Moves(r, w.at, w.leader, w.credential)
    BY <2>1, <2>2, Move
  <2> QED
    BY <1>8, <2>1, <2>3 DEF Leave, history
<1>9. CASE Wake(r)
  <2>. DEFINE w == [s EXCEPT !.at = "returned", !.credential = refresh[s.leader].credential]
  <2>1. /\ w \in RefreshState /\ w.at = "returned" /\ w.leader = s.leader
        /\ w.credential = refresh[s.leader].credential
    <3>1. s.leader \in Refreshes
      BY <1>9 DEF Wake, FlightInv
    <3>2. refresh[s.leader].credential \in Credential
      BY <1>0, <3>1 DEF RefreshState
    <3> QED
      BY <1>0, <3>2 DEF RefreshState
  <2>2. refresh' = [refresh EXCEPT ![r] = w] /\ s.at = "waiting" /\ refresh[s.leader].at \in Answered
    BY <1>0, <1>9 DEF Wake, Answered
  <2> HIDE DEF w
  <2>3. refresh' \in [Refreshes -> RefreshState] /\ Moves(r, w.at, w.leader, w.credential)
    BY <2>1, <2>2, Move
  <2>4. UNCHANGED <<file, valid, flight, mu, request, history>>
    BY <1>9 DEF Wake
  <2> QED
    BY <2>1, <2>2, <2>3, <2>4 DEF history
<1>10. CASE SaveRefreshed(r)
  <2>. DEFINE w == [s EXCEPT !.at = "over"]
  <2>1. w \in RefreshState /\ w.at = "over" /\ w.leader = s.leader /\ w.credential = s.credential
    BY <1>0 DEF RefreshState
  <2>2. refresh' = [refresh EXCEPT ![r] = w] /\ s.at = "returned"
    BY <1>0, <1>10 DEF SaveRefreshed
  <2> HIDE DEF w
  <2>3. refresh' \in [Refreshes -> RefreshState] /\ Moves(r, w.at, w.leader, w.credential)
    BY <2>1, <2>2, Move
  <2>4. /\ UNCHANGED <<valid, flight, mu, request, lost, edits, crossed>>
        /\ \/ Failed(s.credential) /\ UNCHANGED <<file, stale, chosen>>
           \/ /\ ~Failed(s.credential)
              /\ file' = [file EXCEPT !.token = s.credential.token,
                                      !.profile = s.credential.profile, !.type = Missing]
              /\ stale' = (stale \/ s.credential.token < file.token)
              /\ chosen' = None
    BY <1>10 DEF SaveRefreshed
  <2> QED
    BY <2>1, <2>2, <2>3, <2>4
<1> QED
  BY <1>1, <1>2, <1>3, <1>5, <1>6, <1>7, <1>8, <1>9, <1>10 DEF RefreshAction, RefreshStep

MovesTo(m, at, fresh) ==
  /\ \A q \in Requests : q # m => request'[q] = request[q]
  /\ request'[m].at = at /\ request'[m].fresh = fresh

\* The file that nobody has read yet is a file without a token.
LEMMA BlankIsFile == Blank \in File /\ Blank.token = 0
<1>1. (CHOOSE p \in Profiles : TRUE) \in Profiles
  BY CredentialsAssumption
<1> QED
  BY <1>1 DEF Blank, File

\* What each step of a management request changes, and under which guard.
LEMMA RequestMoves ==
  ASSUME TypeOK, NEW m \in Requests, RequestAction(m)
  PROVE
    LET s == request[m] IN
    /\ request' \in [Requests -> RequestState]
    /\ UNCHANGED <<valid, flight, refresh, lost, edits, crossed>>
    /\ \/ /\ s.at = "idle" /\ mu = None /\ mu' = m
          /\ MovesTo(m, "profile", s.fresh) \/ MovesTo(m, "quota", s.fresh)
          /\ UNCHANGED <<file, stale, chosen>>
       \/ /\ s.at = "profile"
          /\ \E p \in Profiles : MovesTo(m, "saveProfile", [file EXCEPT !.profile = p])
          /\ UNCHANGED <<file, mu, stale, chosen>>
       \/ /\ s.at = "quota" /\ MovesTo(m, "fetch", file)
          /\ UNCHANGED <<file, mu, stale, chosen>>
       \/ /\ s.at = "fetch"
          /\ \E t \in Types : MovesTo(m, "saveQuota", [s.fresh EXCEPT !.type = t])
          /\ UNCHANGED <<file, mu, stale, chosen>>
       \/ /\ s.at \in {"saveProfile", "saveQuota"} /\ MovesTo(m, "over", Blank) /\ mu' = None
          /\ file' = s.fresh
          /\ stale' = (stale \/ s.fresh.token < file.token)
          /\ chosen' = IF s.at = "saveProfile" THEN s.fresh.profile ELSE chosen
       \/ /\ s.at \in Locked /\ MovesTo(m, "over", Blank) /\ mu' = None
          /\ UNCHANGED <<file, stale, chosen>>
<1>. DEFINE s == request[m]
<1>0. /\ request \in [Requests -> RequestState] /\ s \in RequestState /\ s.fresh \in File
      /\ file \in File /\ Blank \in File
  BY BlankIsFile DEF TypeOK, RequestState
<1>w. ASSUME NEW w \in RequestState, request' = [request EXCEPT ![m] = w]
      PROVE  request' \in [Requests -> RequestState] /\ MovesTo(m, w.at, w.fresh)
  BY <1>0, <1>w DEF MovesTo
<1>1. CASE Lock(m)
  <2>1. PICK kind \in {"profile", "quota"} : request' = [request EXCEPT ![m].at = kind]
    BY <1>1 DEF Lock
  <2>. DEFINE w == [s EXCEPT !.at = kind]
  <2>2. w \in RequestState /\ w.at = kind /\ w.fresh = s.fresh
    BY <1>0 DEF RequestState
  <2>3. request' = [request EXCEPT ![m] = w]
    BY <1>0, <2>1
  <2> HIDE DEF w
  <2>4. request' \in [Requests -> RequestState] /\ MovesTo(m, kind, s.fresh)
    BY <1>w, <2>2, <2>3
  <2> QED
    BY <1>1, <2>4 DEF Lock, history
<1>2. ASSUME NEW p \in Profiles, GetForProfile(m, p)
      PROVE  /\ request' \in [Requests -> RequestState]
             /\ MovesTo(m, "saveProfile", [file EXCEPT !.profile = p])
  <2>. DEFINE f == [file EXCEPT !.profile = p]
              w == [at |-> "saveProfile", fresh |-> f]
  <2>1. f \in File
    BY <1>0 DEF File
  <2>2. request' = [request EXCEPT ![m] = w]
    BY <1>2 DEF GetForProfile
  <2> HIDE DEF f
  <2>3. w \in RequestState /\ w.at = "saveProfile" /\ w.fresh = f
    BY <2>1 DEF RequestState
  <2> HIDE DEF w
  <2>4. request' \in [Requests -> RequestState] /\ MovesTo(m, w.at, w.fresh)
    BY <1>w, <2>2, <2>3
  <2> QED
    BY <2>3, <2>4 DEF f
<1>3. CASE GetForQuota(m)
  <2>. DEFINE w == [at |-> "fetch", fresh |-> file]
  <2>1. w \in RequestState /\ w.at = "fetch" /\ w.fresh = file
    BY <1>0 DEF RequestState
  <2>2. request' = [request EXCEPT ![m] = w]
    BY <1>3 DEF GetForQuota
  <2> HIDE DEF w
  <2>3. request' \in [Requests -> RequestState] /\ MovesTo(m, w.at, w.fresh)
    BY <1>w, <2>1, <2>2
  <2> QED
    BY <1>3, <2>1, <2>3 DEF GetForQuota, history
<1>4. ASSUME NEW t \in Types, FetchNew(m, t)
      PROVE  /\ request' \in [Requests -> RequestState]
             /\ MovesTo(m, "saveQuota", [s.fresh EXCEPT !.type = t])
  <2>. DEFINE f == [s.fresh EXCEPT !.type = t]
              w == [s EXCEPT !.at = "saveQuota", !.fresh = f]
  <2>1. f \in File
    BY <1>0 DEF File
  <2>2. request' = [request EXCEPT ![m] = w]
    BY <1>0, <1>4 DEF FetchNew
  <2> HIDE DEF f
  <2>3. w \in RequestState /\ w.at = "saveQuota" /\ w.fresh = f
    BY <1>0, <2>1 DEF RequestState
  <2> HIDE DEF w
  <2>4. request' \in [Requests -> RequestState] /\ MovesTo(m, w.at, w.fresh)
    BY <1>w, <2>2, <2>3
  <2> QED
    BY <2>3, <2>4 DEF f
<1>5. ASSUME Leaves(m)
      PROVE  /\ request' \in [Requests -> RequestState]
             /\ MovesTo(m, "over", Blank) /\ mu' = None
  <2>. DEFINE w == [at |-> "over", fresh |-> Blank]
  <2>1. w \in RequestState /\ w.at = "over" /\ w.fresh = Blank
    BY <1>0 DEF RequestState
  <2>2. request' = [request EXCEPT ![m] = w] /\ mu' = None
    BY <1>5 DEF Leaves
  <2> HIDE DEF w
  <2>3. request' \in [Requests -> RequestState] /\ MovesTo(m, w.at, w.fresh)
    BY <1>w, <2>1, <2>2
  <2> QED
    BY <2>1, <2>2, <2>3
<1>6. CASE Save(m)
  BY <1>5, <1>6 DEF Save, Merged
<1>7. CASE GiveUp(m)
  BY <1>5, <1>7 DEF GiveUp, Locked, history
<1>8. CASE \E p \in Profiles : GetForProfile(m, p)
  BY <1>2, <1>8 DEF GetForProfile, history
<1>9. CASE \E t \in Types : FetchNew(m, t)
  BY <1>4, <1>9 DEF FetchNew, history
<1> QED
  BY <1>1, <1>3, <1>6, <1>7, <1>8, <1>9 DEF RequestAction, RequestStep

----------------------------------------------------------------------------
(* The invariant.                                                           *)

\* The first token is stored and alive, and nobody is at work.
LEMMA InitInv == Init => Inv
<1> SUFFICES ASSUME Init PROVE Inv
  OBVIOUS
<1>. USE CredentialsAssumption
<1>0. /\ file \in File /\ file.token = 1 /\ file.foreign = 0 /\ CredentialOf(file) \in Credential
      /\ CredentialOf(file).token = 1 /\ valid = 1
  BY DEF Init, File, CredentialOf, Credential
<1>1. \A r \in Refreshes : /\ refresh[r] \in RefreshState /\ refresh[r].at = "idle"
                           /\ refresh[r].credential.token = 1
  BY <1>0 DEF Init, RefreshState
<1>2. \A m \in Requests : /\ request[m] \in RequestState /\ request[m].at = "idle"
                          /\ request[m].fresh.token = 0
  BY BlankIsFile DEF Init, RequestState
<1>3. TypeOK
  <2>1. refresh \in [Refreshes -> RefreshState] /\ request \in [Requests -> RequestState]
    BY <1>1, <1>2 DEF Init
  <2>2. lost \in BOOLEAN /\ stale \in BOOLEAN /\ crossed \in BOOLEAN
    BY Zenon DEF Init
  <2>3. /\ valid \in Nat \ {0} /\ flight = None /\ mu = None /\ chosen = None /\ edits \in 0 .. MaxEdits
    BY DEF Init
  <2> QED
    BY <1>0, <2>1, <2>2, <2>3 DEF TypeOK
<1>4. FlightInv
  BY <1>1 DEF Init, FlightInv, Upstream
<1>5. TokenInv /\ TokenLives
  BY <1>0, <1>1, <1>2 DEF Init, TokenInv, TokenLives
<1>6. MutexInv /\ FileKeepsOthersWork
  BY <1>0, <1>2 DEF Init, MutexInv, FileKeepsOthersWork, ProfileStays, HostKeysSurvive, Locked, Reading
<1> QED
  BY <1>3, <1>4, <1>5, <1>6 DEF Inv

\* Every step keeps the types.
LEMMA TypeStep ==
  ASSUME TypeOK, FlightInv, [Next]_vars
  PROVE  TypeOK'
<1>. USE CredentialsAssumption DEF TypeOK
<1>1. ASSUME NEW r \in Refreshes, RefreshAction(r) PROVE TypeOK'
  <2>1. /\ refresh' \in [Refreshes -> RefreshState]
        /\ UNCHANGED <<mu, request, edits, crossed>>
    BY <1>1, RefreshMoves
  <2>2. /\ valid' \in Nat \ {0} /\ flight' \in Refreshes \union {None} /\ lost' \in BOOLEAN
    <3>1. /\ valid' \in {valid, valid + 1} /\ flight' \in {flight, r, None}
          /\ lost' = lost \/ lost' = TRUE
      BY <1>1, RefreshMoves DEF history
    <3>2. lost' \in BOOLEAN
      BY <3>1, Zenon
    <3> QED
      BY <3>1, <3>2
  <2>3. file' \in File /\ chosen' \in Profiles \union {None} /\ stale' \in BOOLEAN
    <3>1. refresh[r].credential \in Credential
      BY DEF RefreshState
    <3>2. \/ UNCHANGED <<file, stale, chosen>>
          \/ /\ file' = [file EXCEPT !.token = refresh[r].credential.token,
                                     !.profile = refresh[r].credential.profile, !.type = Missing]
             /\ stale' = (stale \/ refresh[r].credential.token < file.token)
             /\ chosen' = None
      BY <1>1, RefreshMoves DEF history
    <3> QED
      BY <3>1, <3>2 DEF Credential, File
  <2> QED
    BY <2>1, <2>2, <2>3
<1>2. ASSUME NEW m \in Requests, RequestAction(m) PROVE TypeOK'
  <2>1. /\ request' \in [Requests -> RequestState]
        /\ UNCHANGED <<valid, flight, refresh, lost, edits, crossed>>
    BY <1>2, RequestMoves
  <2>2. mu' \in Requests \union {None}
    BY <1>2, RequestMoves
  <2>3. file' \in File /\ chosen' \in Profiles \union {None} /\ stale' \in BOOLEAN
    <3>1. request[m].fresh \in File /\ request[m].fresh.profile \in Profiles
      BY DEF RequestState, File
    <3>2. \/ UNCHANGED <<file, stale, chosen>>
          \/ /\ file' = request[m].fresh
             /\ stale' = (stale \/ request[m].fresh.token < file.token)
             /\ chosen' \in {request[m].fresh.profile, chosen}
      BY <1>2, RequestMoves
    <3> QED
      BY <3>1, <3>2
  <2> QED
    BY <2>1, <2>2, <2>3
<1>3. CASE HostEdits
  <2>1. edits' = edits + 1 /\ edits' \in 0 .. MaxEdits /\ file' = [file EXCEPT !.foreign = edits']
    BY <1>3 DEF HostEdits
  <2>2. file' \in File
    BY <2>1 DEF File
  <2>3. crossed' \in BOOLEAN
    BY <1>3 DEF HostEdits
  <2> QED
    BY <1>3, <2>1, <2>2, <2>3 DEF HostEdits
<1>4. CASE UNCHANGED vars
  BY <1>4 DEF vars, history
<1> QED
  BY <1>1, <1>2, <1>3, <1>4 DEF Next, Over, RefreshAction, RequestAction

\* Every step keeps the singleflight and those who wait for it in order.
LEMMA FlightStep ==
  ASSUME TypeOK, FlightInv, [Next]_vars
  PROVE  FlightInv'
<1>0. /\ refresh \in [Refreshes -> RefreshState] /\ flight \in Refreshes \union {None}
      /\ None \notin Refreshes
  BY CredentialsAssumption DEF TypeOK
<1>1. ASSUME NEW r \in Refreshes, RefreshAction(r) PROVE FlightInv'
  <2>. DEFINE s == refresh[r]
              t == refresh'[r]
              Leads(w) == w.at \in Upstream \union Answered
  <2>0. /\ \A q \in Refreshes : q # r => refresh'[q] = refresh[q]
        /\ \/ s.at = "idle" /\ t.at = "called" /\ flight' = flight
           \/ s.at = "called" /\ flight = None /\ flight' = r /\ t.at = "asking" /\ t.leader = r
           \/ /\ s.at = "called" /\ flight # None /\ flight' = flight
              /\ t.at = "waiting" /\ t.leader = flight
           \/ s.at = "asking" /\ t.at = "publishing" /\ flight' = flight /\ t.leader = s.leader
           \/ /\ s.at = "publishing" /\ t.at = "leaving" /\ flight' = flight /\ t.leader = s.leader
              /\ t.credential = s.credential
           \/ /\ s.at = "leaving" /\ t.at = "returned" /\ flight' = None /\ t.leader = s.leader
              /\ t.credential = s.credential
           \/ /\ s.at = "waiting" /\ t.at = "returned" /\ flight' = flight /\ t.leader = s.leader
              /\ refresh[s.leader].at \in Answered /\ t.credential = refresh[s.leader].credential
           \/ /\ s.at = "returned" /\ t.at = "over" /\ flight' = flight /\ t.leader = s.leader
              /\ t.credential = s.credential
    <3>1. CASE s.at \in {"idle", "called"}
      BY <1>1, <3>1, RefreshMoves DEF Moves
    <3>2. CASE s.at = "asking"
      BY <1>1, <3>2, RefreshMoves DEF Moves
    <3>3. CASE s.at \in {"publishing", "leaving"}
      BY <1>1, <3>3, RefreshMoves DEF Moves
    <3>4. CASE s.at \in {"waiting", "returned"}
      BY <1>1, <3>4, RefreshMoves DEF Moves
    <3> QED
      BY <1>1, <3>1, <3>2, <3>3, <3>4, RefreshMoves
  <2>1. /\ s.at \in Upstream <=> flight = r
        /\ s.at \in Upstream => s.leader = r
        /\ s.at \in {"waiting", "returned", "over"} =>
             /\ s.leader \in Refreshes
             /\ refresh[s.leader].leader = s.leader /\ Leads(refresh[s.leader])
        /\ s.at \in {"returned", "over"} =>
             refresh[s.leader].at \in Answered /\ s.credential = refresh[s.leader].credential
        /\ flight # None => flight \in Refreshes /\ refresh[flight].at \in Upstream /\ refresh[flight].leader = flight
    BY <1>0 DEF FlightInv
  <2>2. /\ Leads(s) => Leads(t) /\ t.leader = s.leader
        /\ s.at \in Answered => t.at \in Answered /\ t.credential = s.credential
    BY <2>0 DEF Upstream, Answered
  <2>3. /\ t.at \in Upstream <=> flight' = r
        /\ t.at \in Upstream => t.leader = r
        /\ \A q \in Refreshes : q # r => (flight' = q <=> flight = q)
    BY <1>0, <2>0, <2>1 DEF Upstream
  <2>4. t.at \in {"waiting", "returned", "over"} =>
          /\ t.leader \in Refreshes
          /\ t.leader = r => Leads(t)
          /\ t.leader # r => refresh[t.leader].leader = t.leader /\ Leads(refresh[t.leader])
          /\ t.at # "waiting" /\ t.leader = r => t.at \in Answered
          /\ t.at # "waiting" /\ t.leader # r =>
               refresh[t.leader].at \in Answered /\ t.credential = refresh[t.leader].credential
    BY <1>0, <2>0, <2>1 DEF Upstream, Answered
  <2> HIDE DEF s, t, Leads
  <2>5. ASSUME NEW q \in Refreshes, q # r
        PROVE  /\ refresh'[q].at \in Upstream <=> flight' = q
               /\ refresh'[q].at \in Upstream => refresh'[q].leader = q
               /\ refresh'[q].at \in {"waiting", "returned", "over"} =>
                    /\ refresh'[q].leader \in Refreshes
                    /\ refresh'[refresh'[q].leader].leader = refresh'[q].leader
                    /\ refresh'[refresh'[q].leader].at \in Upstream \union Answered
               /\ refresh'[q].at \in {"returned", "over"} =>
                    /\ refresh'[refresh'[q].leader].at \in Answered
                    /\ refresh'[q].credential = refresh'[refresh'[q].leader].credential
    <3>1. refresh'[q] = refresh[q] /\ (flight' = q <=> flight = q)
      BY <2>0, <2>3, <2>5
    <3>2. ASSUME refresh[q].leader = r, refresh[r].at \in Upstream \union Answered
          PROVE  refresh'[r].at \in Upstream \union Answered /\ refresh'[r].leader = refresh[r].leader
      BY <2>2, <3>2 DEF Leads, s, t
    <3>3. ASSUME refresh[r].at \in Answered
          PROVE  refresh'[r].at \in Answered /\ refresh'[r].credential = refresh[r].credential
      BY <2>2, <3>3 DEF s, t
    <3>4. CASE refresh[q].leader = r
      BY <3>1, <3>2, <3>3, <3>4 DEF FlightInv
    <3>5. CASE refresh[q].leader # r
      BY <2>0, <3>1, <3>5 DEF FlightInv
    <3> QED
      BY <3>4, <3>5
  <2>6. /\ refresh'[r].at \in Upstream <=> flight' = r
        /\ refresh'[r].at \in Upstream => refresh'[r].leader = r
        /\ refresh'[r].at \in {"waiting", "returned", "over"} =>
             /\ refresh'[r].leader \in Refreshes
             /\ refresh'[refresh'[r].leader].leader = refresh'[r].leader
             /\ refresh'[refresh'[r].leader].at \in Upstream \union Answered
        /\ refresh'[r].at \in {"returned", "over"} =>
             /\ refresh'[refresh'[r].leader].at \in Answered
             /\ refresh'[r].credential = refresh'[refresh'[r].leader].credential
    <3>1. CASE t.leader = r
      BY <2>3, <2>4, <3>1 DEF t, Leads
    <3>2. CASE t.leader # r
      BY <2>0, <2>3, <2>4, <3>2 DEF t, Leads
    <3> QED
      BY <3>1, <3>2
  <2> QED
    BY <2>5, <2>6 DEF FlightInv
<1>2. CASE UNCHANGED <<refresh, flight>>
  BY <1>2 DEF FlightInv
<1>3. ASSUME NEW m \in Requests, RequestAction(m) PROVE FlightInv'
  BY <1>2, <1>3, RequestMoves
<1>4. CASE HostEdits \/ UNCHANGED vars
  BY <1>2, <1>4 DEF HostEdits, vars
<1> QED
  BY <1>1, <1>3, <1>4 DEF Next, Over, RefreshAction, RequestAction

\* What holds the live token, if the file does not.
Carries(r) ==
  /\ refresh[r].at \in {"publishing", "leaving", "returned"}
  /\ refresh[r].credential.token = valid

\* Every step leaves a dead token in the file only for a reason TokenLives names.
LEMMA TokenStep ==
  ASSUME TypeOK, FlightInv, TokenInv, TokenLives, [Next]_vars
  PROVE  TokenInv' /\ TokenLives'
<1>0. /\ file \in File /\ file.token \in Nat /\ valid \in Nat \ {0}
      /\ \A r \in Refreshes : refresh[r] \in RefreshState /\ refresh[r].credential \in Credential
                             /\ refresh[r].credential.token \in Nat
      /\ \A m \in Requests : request[m] \in RequestState /\ request[m].fresh \in File
                            /\ request[m].fresh.token \in Nat
      /\ lost \in BOOLEAN /\ stale \in BOOLEAN
  BY DEF TypeOK, File, RefreshState, RequestState, Credential
<1>1. ASSUME NEW r \in Refreshes, RefreshAction(r) PROVE TokenInv' /\ TokenLives'
  <2>. DEFINE s == refresh[r]
              token == refresh'[r].credential.token
  <2>0. /\ \A q \in Refreshes : q # r => refresh'[q] = refresh[q]
        /\ UNCHANGED request
    BY <1>1, RefreshMoves DEF Moves
  <2>1. CASE s.at \in {"idle", "called", "publishing", "leaving", "waiting"}
    <3>1. /\ UNCHANGED <<file, valid, lost, stale>>
          /\ refresh'[r].credential \in {s.credential, CredentialOf(file), refresh[s.leader].credential}
          /\ s.at = "waiting" => s.leader \in Refreshes
          /\ s.at \in {"publishing", "leaving"} =>
                refresh'[r].at \in {"leaving", "returned"} /\ refresh'[r].credential = s.credential
          /\ s.at # "waiting" => refresh'[r].credential \in {s.credential, CredentialOf(file)}
      BY <1>1, <2>1, RefreshMoves DEF Moves, FlightInv, history
    <3>2. token <= valid
      BY <1>0, <2>1, <3>1 DEF TokenInv, CredentialOf
    <3>3. \A q \in Refreshes : Carries(q) => Carries(q)'
      BY <2>0, <2>1, <3>1 DEF Carries
    <3> QED
      BY <2>0, <3>1, <3>2, <3>3 DEF TokenInv, TokenLives, Carries
  <2>2. CASE s.at = "asking"
    <3>1. /\ UNCHANGED <<file, stale>> /\ refresh'[r].at = "publishing"
          /\ \/ valid' \in {valid, valid + 1} /\ token = valid' /\ UNCHANGED lost
             \/ valid' = valid /\ token = 0 /\ UNCHANGED lost
             \/ valid' = valid + 1 /\ token = 0 /\ lost' = TRUE
      <4>1. \A n : [s.credential EXCEPT !.token = n].token = n
        BY <1>0 DEF Credential
      <4> QED
        BY <1>1, <2>2, <4>1, RefreshMoves DEF Moves, history
    <3>2. valid' \in Nat \ {0} /\ valid <= valid' /\ token <= valid'
      BY <1>0, <3>1
    <3>3. TokenInv'
      BY <1>0, <2>0, <3>1, <3>2 DEF TokenInv
    <3>4. TokenLives'
      <4>1. CASE token = valid'
        BY <3>1, <4>1 DEF TokenLives
      <4>2. CASE lost' = TRUE
        BY <4>2 DEF TokenLives
      <4>3. CASE valid' = valid /\ UNCHANGED lost
        <5>1. \A q \in Refreshes : Carries(q) => Carries(q)'
          BY <2>0, <2>2, <4>3 DEF Carries
        <5> QED
          BY <3>1, <4>3, <5>1 DEF TokenLives, Carries
      <4> QED
        BY <3>1, <4>1, <4>2, <4>3
    <3> QED
      BY <3>3, <3>4
  <2>3. CASE s.at = "returned"
    <3>1. /\ UNCHANGED <<valid, lost>> /\ refresh'[r].credential = s.credential
          /\ \/ s.credential.token = 0 /\ UNCHANGED <<file, stale>>
             \/ /\ s.credential.token # 0
                /\ file' = [file EXCEPT !.token = s.credential.token,
                                        !.profile = s.credential.profile, !.type = Missing]
                /\ stale' = (stale \/ s.credential.token < file.token)
      BY <1>1, <2>3, RefreshMoves DEF Moves, Failed
    <3>2. \/ s.credential.token = 0 /\ UNCHANGED <<file, stale>>
          \/ /\ s.credential.token # 0 /\ file'.token = s.credential.token
             /\ stale' = (stale \/ s.credential.token < file.token)
      BY <1>0, <3>1 DEF File
    <3>3. TokenInv'
      BY <1>0, <2>0, <3>1, <3>2 DEF TokenInv
    <3>4. \A q \in Refreshes : q # r /\ Carries(q) => Carries(q)'
      BY <2>0, <3>1 DEF Carries
    <3>5. stale => stale'
      BY <3>2, Zenon
    <3>6. CASE s.credential.token = 0
      <4>1. ~Carries(r)
        BY <1>0, <3>6 DEF Carries
      <4>2. UNCHANGED <<file, stale>>
        BY <3>2, <3>6
      <4> QED
        BY <3>1, <3>3, <3>4, <4>1, <4>2 DEF TokenLives, Carries
    <3>7. CASE s.credential.token = valid
      <4>1. file'.token = valid'
        BY <1>0, <3>1, <3>2, <3>7
      <4> QED
        BY <4>1, <3>3 DEF TokenLives
    <3>8. CASE s.credential.token # valid /\ s.credential.token # 0
      <4>1. s.credential.token < valid
        BY <1>0, <3>8 DEF TokenInv
      <4>2. file.token = valid => stale'
        BY <1>0, <3>2, <3>8, <4>1
      <4>3. ~Carries(r)
        BY <3>8 DEF Carries
      <4> QED
        BY <3>1, <3>3, <3>4, <3>5, <4>2, <4>3 DEF TokenLives, Carries
    <3> QED
      BY <3>3, <3>6, <3>7, <3>8
  <2> QED
    BY <1>1, <2>1, <2>2, <2>3, RefreshMoves
<1>2. ASSUME NEW m \in Requests, RequestAction(m) PROVE TokenInv' /\ TokenLives'
  <2>0. /\ UNCHANGED <<valid, refresh, lost>>
        /\ \A q \in Requests : q # m => request'[q] = request[q]
        /\ \/ UNCHANGED <<file, stale>>
           \/ file' = request[m].fresh /\ stale' = (stale \/ request[m].fresh.token < file.token)
    BY <1>2, RequestMoves DEF MovesTo
  <2>1. request'[m].fresh.token \in {request[m].fresh.token, file.token, 0}
    <3>1. /\ \A p \in Profiles : [file EXCEPT !.profile = p].token = file.token
          /\ \A t \in Types : [request[m].fresh EXCEPT !.type = t].token = request[m].fresh.token
      BY <1>0 DEF File
    <3>2. \/ request'[m].fresh \in {request[m].fresh, file, Blank}
          \/ \E p \in Profiles : request'[m].fresh = [file EXCEPT !.profile = p]
          \/ \E t \in Types : request'[m].fresh = [request[m].fresh EXCEPT !.type = t]
      BY <1>2, RequestMoves DEF MovesTo
    <3> QED
      BY <3>1, <3>2, BlankIsFile
  <2>2. TokenInv'
    BY <1>0, <2>0, <2>1 DEF TokenInv
  <2>3. file.token = valid => file'.token = valid \/ stale'
    <3>1. file.token = valid => request[m].fresh.token = valid \/ request[m].fresh.token < file.token
      BY <1>0 DEF TokenInv
    <3>2. request[m].fresh.token < file.token => UNCHANGED <<file, stale>> \/ stale'
      BY <2>0, Zenon
    <3> QED
      BY <2>0, <3>1, <3>2
  <2>4. stale => stale'
    BY <2>0, Zenon
  <2> QED
    BY <2>0, <2>2, <2>3, <2>4 DEF TokenLives
<1>3. CASE HostEdits
  <2>1. file'.token = file.token
    BY <1>0, <1>3 DEF HostEdits, File
  <2> QED
    BY <1>3, <2>1 DEF HostEdits, TokenInv, TokenLives
<1>4. CASE UNCHANGED vars
  BY <1>4 DEF vars, history, TokenInv, TokenLives
<1> QED
  BY <1>1, <1>2, <1>3, <1>4 DEF Next, Over, RefreshAction, RequestAction

\* Every step leaves the mutex to one request, and what it read as it was or void.
LEMMA MutexStep ==
  ASSUME TypeOK, FlightInv, MutexInv, FileKeepsOthersWork, [Next]_vars
  PROVE  MutexInv' /\ FileKeepsOthersWork'
<1>0. /\ file \in File /\ edits \in Nat /\ None \notin Requests /\ None \notin Profiles
      /\ \A m \in Requests : request[m] \in RequestState /\ request[m].fresh \in File
  BY CredentialsAssumption DEF TypeOK, RequestState
<1>. USE DEF ProfileStays, HostKeysSurvive, FileKeepsOthersWork
<1>1. ASSUME NEW r \in Refreshes, RefreshAction(r) PROVE MutexInv' /\ FileKeepsOthersWork'
  <2>1. /\ UNCHANGED <<mu, request, edits, crossed>>
        /\ \/ UNCHANGED <<file, chosen>>
           \/ /\ file' = [file EXCEPT !.token = refresh[r].credential.token,
                                      !.profile = refresh[r].credential.profile, !.type = Missing]
              /\ chosen' = None
    BY <1>1, RefreshMoves DEF history
  <2>2. file'.foreign = file.foreign /\ (UNCHANGED <<file, chosen>> \/ chosen' = None)
    BY <1>0, <2>1 DEF File
  <2> QED
    BY <2>1, <2>2 DEF MutexInv, Reading
<1>2. ASSUME NEW m \in Requests, RequestAction(m) PROVE MutexInv' /\ FileKeepsOthersWork'
  <2>. DEFINE s == request[m]
              f == request'[m].fresh
  <2>0. /\ UNCHANGED <<edits, crossed>>
        /\ \A q \in Requests : q # m => request'[q] = request[q]
    BY <1>2, RequestMoves DEF MovesTo
  <2>1. CASE s.at = "idle"
    <3>1. /\ mu = None /\ mu' = m /\ request'[m].at \in {"profile", "quota"} /\ UNCHANGED <<file, chosen>>
      BY <1>2, <2>1, RequestMoves DEF MovesTo, Locked
    <3>2. \A q \in Requests : q # m => request[q].at \notin Locked
      BY <1>0, <3>1 DEF MutexInv
    <3> QED
      BY <2>0, <3>1, <3>2 DEF MutexInv, Reading, Locked
  <2>2. CASE s.at \in Locked
    <3>1. mu = m /\ \A q \in Requests : q # m => request[q].at \notin Locked
      BY <2>2 DEF MutexInv
    <3>2. CASE mu' = mu /\ UNCHANGED <<file, chosen>> /\ request'[m].at \in Locked
               /\ (request'[m].at \in {"fetch", "saveQuota"} /\ chosen # None => f.profile = chosen)
               /\ (Reading(m)' => f.foreign = edits \/ crossed)
      BY <2>0, <3>1, <3>2 DEF MutexInv, Reading, Locked
    <3>3. ASSUME NEW p \in Profiles, MovesTo(m, "saveProfile", [file EXCEPT !.profile = p]),
                 UNCHANGED <<file, mu, chosen>>
          PROVE  MutexInv' /\ FileKeepsOthersWork'
      <4>1. request'[m].at = "saveProfile" /\ f.foreign = file.foreign
        BY <1>0, <3>3 DEF MovesTo, File
      <4> QED
        BY <3>2, <3>3, <4>1 DEF Locked
    <3>4. ASSUME MovesTo(m, "fetch", file), UNCHANGED <<file, mu, chosen>>
          PROVE  MutexInv' /\ FileKeepsOthersWork'
      BY <3>2, <3>4 DEF MovesTo, Locked
    <3>5. ASSUME NEW t \in Types, MovesTo(m, "saveQuota", [s.fresh EXCEPT !.type = t]), s.at = "fetch",
                 UNCHANGED <<file, mu, chosen>>
          PROVE  MutexInv' /\ FileKeepsOthersWork'
      <4>1. /\ request'[m].at = "saveQuota" /\ f.foreign = s.fresh.foreign
            /\ f.profile = s.fresh.profile
        BY <1>0, <3>5 DEF MovesTo, File
      <4> QED
        BY <3>2, <3>5, <4>1 DEF Locked, MutexInv, Reading
    <3>6. ASSUME MovesTo(m, "over", Blank), mu' = None PROVE MutexInv'
      BY <1>0, <2>0, <3>1, <3>6 DEF MutexInv, MovesTo, Reading, Locked
    <3>7. ASSUME s.at \in {"saveProfile", "saveQuota"}, file' = s.fresh,
                 chosen' = IF s.at = "saveProfile" THEN s.fresh.profile ELSE chosen
          PROVE  FileKeepsOthersWork'
      BY <2>0, <3>7 DEF MutexInv, Reading
    <3>8. ASSUME UNCHANGED <<file, chosen>> PROVE FileKeepsOthersWork'
      BY <2>0, <3>8
    <3> QED
      BY <1>2, <2>2, <3>3, <3>4, <3>5, <3>6, <3>7, <3>8, RequestMoves DEF Locked
  <2> QED
    BY <1>2, <2>1, <2>2, RequestMoves DEF Locked
<1>3. CASE HostEdits
  <2>1. /\ edits' = edits + 1 /\ file' = [file EXCEPT !.foreign = edits'] /\ UNCHANGED <<mu, request, chosen>>
        /\ crossed' = (crossed \/ \E m \in Requests : Reading(m))
    BY <1>3 DEF HostEdits
  <2>2. file'.foreign = edits' /\ file'.profile = file.profile
    BY <1>0, <2>1 DEF File
  <2>3. \A m \in Requests : Reading(m) => crossed'
    BY <2>1, Zenon
  <2> QED
    BY <2>1, <2>2, <2>3 DEF MutexInv, Reading
<1>4. CASE UNCHANGED vars
  BY <1>4 DEF vars, history, MutexInv, Reading
<1> QED
  BY <1>1, <1>2, <1>3, <1>4 DEF Next, Over, RefreshAction, RequestAction

\* The invariant is inductive.
LEMMA StepInv == Inv /\ [Next]_vars => Inv'
  BY TypeStep, FlightStep, TokenStep, MutexStep DEF Inv

----------------------------------------------------------------------------
(* The theorems.                                                            *)

\* Inv holds in every reachable state.
THEOREM Invariance == Spec => []Inv
  BY InitInv, StepInv, PTL DEF Spec

\* The auth file, the flight of refresh.go and the requests of management.go keep their types.
THEOREM TypeCorrect == Spec => []TypeOK
<1>1. Inv => TypeOK
  BY DEF Inv
<1> QED
  BY <1>1, Invariance, PTL

\* However many auth.refresh calls the host starts at once, the refresh token is spent by one
\* at a time (refreshSingleflight).
THEOREM OneAtATime == Spec => []OneRefreshUpstream
<1>1. Inv => OneRefreshUpstream
  <2> SUFFICES ASSUME Inv PROVE OneRefreshUpstream
    OBVIOUS
  <2>. DEFINE asking == {r \in Refreshes : refresh[r].at = "asking"}
  <2>1. \A r \in asking : r = flight
    BY DEF Inv, FlightInv, Upstream
  <2>2. asking = {} \/ asking = {flight}
    BY <2>1
  <2>3. Cardinality({}) = 0 /\ Cardinality({flight}) = 1
    BY FS_EmptySet, FS_Singleton
  <2> HIDE DEF asking
  <2>4. Cardinality(asking) <= 1
    BY <2>2, <2>3
  <2> QED
    BY <2>4 DEF OneRefreshUpstream, asking
<1> QED
  BY <1>1, Invariance, PTL

\* Whoever joined a refresh returns the answer of that very one (refreshSingleflight.Do).
THEOREM JoinedAnswer == Spec => []WaitersGetAnswer
<1>1. Inv => WaitersGetAnswer
  BY DEF Inv, FlightInv, Answered, WaitersGetAnswer
<1> QED
  BY <1>1, Invariance, PTL

\* The file's refresh token is dead only while its successor is on its way, after an answer of
\* the upstream was lost, or because a save brought an older one back.
THEOREM TokenIsLive == Spec => []TokenLives
<1>1. Inv => TokenLives
  BY DEF Inv
<1> QED
  BY <1>1, Invariance, PTL

\* No management request undoes the profile another one has set, and no write of the plugin
\* loses an edit of the host that it could have read (managementService.mu,
\* saveAuthPreservingHostKeys).
THEOREM OthersWorkStays == Spec => []FileKeepsOthersWork
<1>1. Inv => FileKeepsOthersWork
  BY DEF Inv
<1> QED
  BY <1>1, Invariance, PTL

-----------------------------------------------------------------------------
(* The device login *)

\* The poll that asks the token endpoint is the one that holds the transaction's lock, and it
\* asks only for a pending transaction, which has yielded no token.
LockInv ==
  /\ \A p \in Polls : poll[p].at = "asking" <=> lock = p
  /\ lock # NoPoll => status = "pending"
  /\ status = "pending" => tokens = 0
  /\ tokens <= 1

\* Once there is a token, some poll is on its way to the host with it or has arrived, or its
\* user is not known.
OnItsWay ==
  tokens > 0 =>
    \/ ~credential.known
    \/ \E p \in Polls : poll[p].at \in {"profile", "info", "key", "copy", "success"}

\* What a poll that alone completes the credential has written into it.
OwnHalves ==
  \A p \in Polls : (\A q \in Polls \ {p} : ~Completing(q)) =>
    /\ poll[p].at \in {"key", "copy"} => credential.info = p
    /\ poll[p].at = "copy" => credential.key = p
    /\ poll[p].at = "success" => poll[p].saved = [info |-> p, key |-> p]

LoginInv == LoginTypeOK /\ LockInv /\ OnItsWay /\ OwnHalves

-----------------------------------------------------------------------------

\* The transaction as DeviceLogin stores it satisfies the invariant.
LEMMA LoginInitInv == LoginInit => LoginInv
<1> SUFFICES ASSUME LoginInit PROVE LoginInv
  OBVIOUS
<1> USE DeviceLoginAssumption DEF LoginInit
<1>1. LoginTypeOK
  BY DEF LoginTypeOK, Pair, NoPair, Working, Answers
<1>2. LockInv /\ OnItsWay /\ OwnHalves
  BY DEF LockInv, OnItsWay, OwnHalves
<1> QED
  BY <1>1, <1>2 DEF LoginInv

\* Every step keeps the types.
LEMMA LoginStepType == LoginTypeOK /\ LockInv /\ [LoginNext]_loginVars => LoginTypeOK'
<1> SUFFICES ASSUME LoginTypeOK, LockInv, [LoginNext]_loginVars PROVE LoginTypeOK'
  OBVIOUS
<1> USE DEF LoginTypeOK, Pair, Working, Answers, Go
<1>1. ASSUME NEW p \in Polls, Find(p) \/ FindEnded(p) \/ FindExpired(p) \/ Ask(p)
      PROVE  LoginTypeOK'
  <2>1. CASE Find(p) \/ FindEnded(p) \/ Ask(p)
    BY <2>1 DEF Find, FindEnded, Ask
  <2>2. CASE FindExpired(p)
    <3>1. Go(p, "expired") /\ "expired" \in Answers
      BY <2>2 DEF FindExpired
    <3>2. poll' \in [Polls -> [at : {"idle"} \union Working \union Answers, saved : Pair]]
      BY <3>1
    <3>3. status' = "error" /\ stored' = FALSE
          /\ UNCHANGED <<past, lock, credential, user, tokens>>
      BY <2>2 DEF FindExpired
    <3> HIDE DEF Pair, Working, Answers, Go
    <3> QED
      BY <3>2, <3>3
  <2> QED
    BY <1>1, <2>1, <2>2
<1>2. ASSUME NEW p \in Polls, AnswerPending(p) \/ AnswerLost(p)
      PROVE  LoginTypeOK'
  BY <1>2 DEF AnswerPending, AnswerLost
<1>3. ASSUME NEW p \in Polls, AnswerRefused(p) PROVE LoginTypeOK'
  BY <1>3 DEF AnswerRefused, LockInv
<1>4. ASSUME NEW p \in Polls, AnswerToken(p) PROVE LoginTypeOK'
  <2> USE <1>4 DEF AnswerToken, LockInv
  <2>1. credential' \in [known : BOOLEAN, info : Polls \union {NoPoll}, key : Polls \union {NoPoll}]
    OBVIOUS
  <2>2. poll' \in [Polls -> [at : {"idle"} \union Working \union Answers, saved : Pair]]
    OBVIOUS
  <2>3. stored' = FALSE /\ status' = "success" /\ lock' = NoPoll /\ tokens' \in Nat
    OBVIOUS
  <2>4. UNCHANGED <<past, user>>
    OBVIOUS
  <2> QED
    BY <2>1, <2>2, <2>3, <2>4
<1>5. ASSUME NEW p \in Polls,
             FetchProfile(p) \/ NoProfile(p) \/ SetRuntimeInfo(p) \/ SetRuntimeKey(p)
      PROVE  LoginTypeOK'
  <2> USE <1>5 DEF FetchProfile, NoProfile, SetRuntimeInfo, SetRuntimeKey
  <2>1. credential' \in [known : BOOLEAN, info : Polls \union {NoPoll}, key : Polls \union {NoPoll}]
    OBVIOUS
  <2>2. poll' \in [Polls -> [at : {"idle"} \union Working \union Answers, saved : Pair]]
    OBVIOUS
  <2>3. UNCHANGED <<stored, status, past, lock, user, tokens>>
    OBVIOUS
  <2> QED
    BY <2>1, <2>2, <2>3
<1>6. ASSUME NEW p \in Polls, Copy(p) PROVE LoginTypeOK'
  BY <1>6 DEF Copy
<1>7. CASE Decide
  BY <1>7 DEF Decide
<1>8. CASE Expire
  BY <1>8 DEF Expire
<1>9. CASE UNCHANGED loginVars
  BY <1>9 DEF loginVars
<1> QED
  BY <1>1, <1>2, <1>3, <1>4, <1>5, <1>6, <1>7, <1>8, <1>9 DEF LoginNext, PollStep, LoginOver

\* Every step keeps the lock with the poll that asks.
LEMMA LoginStepLock == LoginTypeOK /\ LockInv /\ [LoginNext]_loginVars => LockInv'
<1> SUFFICES ASSUME LoginTypeOK, LockInv, [LoginNext]_loginVars PROVE LockInv'
  OBVIOUS
<1> USE DeviceLoginAssumption DEF LoginTypeOK, LockInv, Go
<1>1. ASSUME NEW p \in Polls, Find(p) \/ FindEnded(p) \/ FindExpired(p) \/ Ask(p)
      PROVE  LockInv'
  BY <1>1 DEF Find, FindEnded, FindExpired, Ask
<1>2. ASSUME NEW p \in Polls, AnswerPending(p) \/ AnswerLost(p) \/ AnswerRefused(p)
      PROVE  LockInv'
  BY <1>2 DEF AnswerPending, AnswerLost, AnswerRefused
<1>3. ASSUME NEW p \in Polls, AnswerToken(p) PROVE LockInv'
  BY <1>3 DEF AnswerToken
<1>4. ASSUME NEW p \in Polls,
             \/ FetchProfile(p) \/ NoProfile(p)
             \/ SetRuntimeInfo(p) \/ SetRuntimeKey(p) \/ Copy(p)
      PROVE  LockInv'
  BY <1>4 DEF FetchProfile, NoProfile, SetRuntimeInfo, SetRuntimeKey, Copy
<1>5. CASE Decide \/ Expire \/ UNCHANGED loginVars
  BY <1>5 DEF Decide, Expire, loginVars
<1> QED
  BY <1>1, <1>2, <1>3, <1>4, <1>5 DEF LoginNext, PollStep, LoginOver

\* Every step leaves a token on its way: a poll gives up only if the user is not known.
LEMMA LoginStepWay == LoginTypeOK /\ OnItsWay /\ [LoginNext]_loginVars => OnItsWay'
<1> SUFFICES ASSUME LoginTypeOK, OnItsWay, [LoginNext]_loginVars PROVE OnItsWay'
  OBVIOUS
<1> USE DEF LoginTypeOK, OnItsWay, Go
<1>1. ASSUME NEW p \in Polls, Find(p) \/ FindEnded(p) \/ FindExpired(p) \/ Ask(p)
      PROVE  OnItsWay'
  BY <1>1 DEF Find, FindEnded, FindExpired, Ask
<1>2. ASSUME NEW p \in Polls, AnswerPending(p) \/ AnswerLost(p) \/ AnswerRefused(p)
      PROVE  OnItsWay'
  BY <1>2 DEF AnswerPending, AnswerLost, AnswerRefused
<1>3. ASSUME NEW p \in Polls, AnswerToken(p) PROVE OnItsWay'
  BY <1>3 DEF AnswerToken
<1>4. ASSUME NEW p \in Polls, NoProfile(p) PROVE OnItsWay'
  BY <1>4 DEF NoProfile
<1>5. ASSUME NEW p \in Polls,
             FetchProfile(p) \/ SetRuntimeInfo(p) \/ SetRuntimeKey(p) \/ Copy(p)
      PROVE  OnItsWay'
  BY <1>5 DEF FetchProfile, SetRuntimeInfo, SetRuntimeKey, Copy
<1>6. CASE Decide \/ Expire \/ UNCHANGED loginVars
  BY <1>6 DEF Decide, Expire, loginVars
<1> QED
  BY <1>1, <1>2, <1>3, <1>4, <1>5, <1>6 DEF LoginNext, PollStep, LoginOver

\* Every step keeps the halves of a poll that is alone: no other one writes them, for a poll
\* that completes the credential never stops being one that did.
LEMMA LoginStepHalves == LoginTypeOK /\ OwnHalves /\ [LoginNext]_loginVars => OwnHalves'
<1> SUFFICES ASSUME LoginTypeOK, OwnHalves, [LoginNext]_loginVars PROVE OwnHalves'
  OBVIOUS
<1> USE DEF LoginTypeOK, OwnHalves, Completing, Go
<1>1. ASSUME NEW p \in Polls, Find(p) \/ FindEnded(p) \/ FindExpired(p) \/ Ask(p)
      PROVE  OwnHalves'
  BY <1>1 DEF Find, FindEnded, FindExpired, Ask
<1>2. ASSUME NEW p \in Polls, AnswerPending(p) \/ AnswerLost(p) \/ AnswerRefused(p)
      PROVE  OwnHalves'
  BY <1>2 DEF AnswerPending, AnswerLost, AnswerRefused
<1>3. ASSUME NEW p \in Polls, AnswerToken(p) PROVE OwnHalves'
  BY <1>3 DEF AnswerToken
<1>4. ASSUME NEW p \in Polls, FetchProfile(p) \/ NoProfile(p) PROVE OwnHalves'
  BY <1>4 DEF FetchProfile, NoProfile
<1>5. ASSUME NEW p \in Polls, SetRuntimeInfo(p) PROVE OwnHalves'
  BY <1>5 DEF SetRuntimeInfo
<1>6. ASSUME NEW p \in Polls, SetRuntimeKey(p) PROVE OwnHalves'
  BY <1>6 DEF SetRuntimeKey
<1>7. ASSUME NEW p \in Polls, Copy(p) PROVE OwnHalves'
  BY <1>7 DEF Copy
<1>8. CASE Decide \/ Expire \/ UNCHANGED loginVars
  BY <1>8 DEF Decide, Expire, loginVars
<1> QED
  BY <1>1, <1>2, <1>3, <1>4, <1>5, <1>6, <1>7, <1>8 DEF LoginNext, PollStep, LoginOver

\* The invariant holds throughout every login.
THEOREM LoginInvariance == LoginSpec => []LoginInv
<1>1. LoginInv /\ [LoginNext]_loginVars => LoginInv'
  BY LoginStepType, LoginStepLock, LoginStepWay, LoginStepHalves DEF LoginInv
<1> QED
  BY <1>1, LoginInitInv, PTL DEF LoginSpec

\* Transaction, credential and polls keep their types, and the store keeps nothing but
\* pending transactions (internal/qoderauth/oauth.go).
THEOREM LoginTypeCorrect == LoginSpec => []LoginTypeOK
<1>1. LoginInv => LoginTypeOK
  BY DEF LoginInv
<1> QED
  BY <1>1, LoginInvariance, PTL

\* PollLogin obtains one token per login, however many polls overlap.
THEOREM SingleToken == LoginSpec => []OneToken
<1>1. LoginInv => OneToken
  <2> SUFFICES ASSUME LoginInv PROVE OneToken
    OBVIOUS
  <2> QED
    BY DEF LoginInv, LockInv, OneToken, LoginTypeOK
<1> QED
  BY <1>1, LoginInvariance, PTL

\* A token whose user is known reaches the host (authService.poll), and whole if one poll
\* alone completed the credential.
THEOREM TokenArrives == LoginSpec => []TokenReachesHost
<1>1. LoginInv => TokenReachesHost
  <2> SUFFICES ASSUME LoginInv PROVE TokenReachesHost
    OBVIOUS
  <2>1. ASSUME tokens > 0, credential.known, \A p \in Polls : poll[p].at \in Answers
        PROVE  \E p \in Polls : poll[p].at = "success"
    BY <2>1 DEF LoginInv, OnItsWay, Answers
  <2>2. ASSUME NEW p \in Polls, poll[p].at = "success",
               \A q \in Polls \ {p} : ~Completing(q)
        PROVE  poll[p].saved = [info |-> p, key |-> p]
    BY <2>2 DEF LoginInv, OwnHalves
  <2> QED
    BY <2>1, <2>2 DEF TokenReachesHost
<1> QED
  BY <1>1, LoginInvariance, PTL

-----------------------------------------------------------------------------
(* Quotas. *)

Told == [limit : Nat, remaining : Nat, exhausted : BOOLEAN, ok : BOOLEAN, nickname : BOOLEAN]

Fetch == [at : {"idle", "usage", "plan", "status", "read", "answered"},
          record : Records \cup {NoRecord}, quota : Told,
          usage : BOOLEAN, status : BOOLEAN, told : BOOLEAN,
          outAll : BOOLEAN, exceededAll : BOOLEAN]

Snapshot == [known : BOOLEAN, remaining : Nat, exhausted : BOOLEAN, from : Fetch]

Row == [key : {entry.key : entry \in Listed},
        label : {entry.label : entry \in Listed} \cup {"nickname"},
        quota : Told]

\* The variables keep their types.
QuotaTypeOK ==
    /\ truth \in Truths
    /\ fetch \in [Fetchers -> Fetch]
    /\ snapshot \in [Records -> Snapshot]
    /\ pc \in {"idle", "record", "fetch", "replied"}
    /\ files \in Seq(Listed)
    /\ rows \in Seq(Row)
    /\ done \in [list : Seq(Listed), noted : SUBSET Records, failed : SUBSET Records]

----------------------------------------------------------------------------
(* The invariant.                                                          *)

\* What a quota tells of exhaustion when it comes from the fetch f.
Tells(f, remaining, exhausted) ==
    /\ f.outAll /\ f.usage => exhausted
    /\ f.exceededAll /\ f.status => exhausted
    /\ exhausted => f.told
    /\ remaining = 0 /\ ~exhausted => ~f.usage \/ f.quota.limit = 0

\* A fetch tells so at every point; what held all through it holds while it
\* still reads, and it knows only what it has read.
Knows(f, t) ==
    /\ Tells(f, f.quota.remaining, f.quota.exhausted)
    /\ f.at \in {"usage", "plan", "status"} =>
           /\ f.outAll => IsOut(t)
           /\ f.exceededAll => t.exceeded
           /\ ~f.status
    /\ f.at = "usage" => ~f.usage /\ ~f.quota.exhausted

FetchInv == \A p \in Fetchers : Knows(fetch[p], truth)

\* How many records of the list are done with, and how many have their row.
Visited == Len(done.list) - Len(files)
Seen == IF pc = "fetch" THEN Visited + 1 ELSE Visited

\* The records still to visit are the last ones of the list.
FilesInv ==
    /\ Len(files) <= Len(done.list)
    /\ \A j \in 1 .. Len(files) : files[j] = done.list[Visited + j]
    /\ pc = "fetch" => files # <<>>
    /\ pc = "replied" => files = <<>>
    /\ pc = "idle" => files = <<>> /\ done.list = <<>> /\ rows = <<>>

\* Each record done with was noted or could not be had, and a note stays.
NotedInv ==
    /\ \A k \in 1 .. Visited : done.list[k].indexed =>
           done.list[k].id \in done.noted \cup done.failed
    /\ \A r \in done.noted : snapshot[r].known

\* The records of a row's account among the first n of a list.
Own(list, row, n) == {k \in 1 .. n : list[k].key = row.key}

\* What a row has of them.
Keeps(list, row, n) ==
    /\ \A k \in Own(list, row, n) :
           list[k].label = "custom" /\ (\A l \in Own(list, row, n) : k <= l) =>
               row.label = "custom"
    /\ row.label = "none" =>
           /\ ~row.quota.nickname
           /\ \A k \in Own(list, row, n) : list[k].label = "none"

\* The rows of the first n records of a list.
RowsOf(rs, list, n) ==
    /\ \A i, j \in DOMAIN rs : rs[i].key = rs[j].key => i = j
    /\ \A k \in 1 .. n : \E i \in DOMAIN rs : rs[i].key = list[k].key
    /\ \A i \in DOMAIN rs : Own(list, rs[i], n) # {} /\ Keeps(list, rs[i], n)

RowsInv == RowsOf(rows, done.list, Seen)

QuotaInv == QuotaTypeOK /\ FetchInv /\ SnapshotTellsExhaustion /\ FilesInv /\ NotedInv /\ RowsInv

----------------------------------------------------------------------------
(* The fetches.                                                            *)

\* What the model starts from has its type.
LEMMA Constants ==
    /\ NoQuota \in Told
    /\ Idle \in Fetch
    /\ NoSnapshot \in Snapshot /\ ~NoSnapshot.known
    /\ \A t \in Truths : t.limit \in Nat /\ t.remaining \in Nat /\ t.exceeded \in BOOLEAN
    /\ \A t \in Truths : IsOut(t) \in BOOLEAN
<1>1. NoQuota \in Told
  BY DEF NoQuota, Told
<1>2. Idle \in Fetch
  BY <1>1 DEF Idle, Fetch
<1>3. NoSnapshot \in Snapshot /\ ~NoSnapshot.known
  BY <1>2 DEF NoSnapshot, Snapshot
<1>4. \A t \in Truths : t.limit \in Nat /\ t.remaining \in Nat /\ t.exceeded \in BOOLEAN
  BY QuotaAssumption
<1>5. \A t \in Truths : IsOut(t) \in BOOLEAN
  BY <1>4 DEF IsOut
<1> QED
  BY <1>1, <1>2, <1>3, <1>4, <1>5

\* An idle fetch knows nothing.
LEMMA IdleKnows == \A t : Knows(Idle, t)
  BY DEF Knows, Tells, Idle, NoQuota

\* A fetch that begins.
LEMMA BegunKnows ==
  ASSUME truth \in Truths, NEW r \in Records \cup {NoRecord}
  PROVE  Begun(r) \in Fetch /\ Knows(Begun(r), truth)
<1> DEFINE f == Begun(r)
<1>1. /\ f.at = "usage" /\ f.quota = NoQuota /\ f.usage = FALSE /\ f.status = FALSE /\ f.told = FALSE
      /\ f.outAll = IsOut(truth) /\ f.exceededAll = truth.exceeded
  BY DEF Begun, Idle
<1>2. f \in Fetch
  BY Constants DEF Begun, Fetch
<1>3. Knows(f, truth)
  <2> HIDE DEF f
  <2> QED
    BY <1>1 DEF Knows, Tells, NoQuota
<1> QED
  BY <1>2, <1>3

\* A change of the quota upstream.
LEMMA StepTruth ==
  ASSUME QuotaTypeOK, FetchInv, TruthChanges
  PROVE  truth' \in Truths /\ fetch' \in [Fetchers -> Fetch] /\ FetchInv'
<1>1. truth' \in Truths
  BY DEF TruthChanges
<1>2. ASSUME NEW p \in Fetchers
      PROVE  fetch'[p] \in Fetch /\ Knows(fetch'[p], truth')
  <2> DEFINE f == fetch[p]
             g == [f EXCEPT !.outAll = @ /\ IsOut(truth'), !.exceededAll = @ /\ truth'.exceeded]
  <2>1. fetch'[p] = g
    BY DEF TruthChanges
  <2>2. f \in Fetch /\ Knows(f, truth)
    BY DEF QuotaTypeOK, FetchInv
  <2>3. /\ g.at = f.at /\ g.record = f.record /\ g.quota = f.quota /\ g.usage = f.usage
        /\ g.status = f.status /\ g.told = f.told
        /\ g.outAll = (f.outAll /\ IsOut(truth')) /\ g.exceededAll = (f.exceededAll /\ truth'.exceeded)
    BY <2>2 DEF Fetch
  <2>4. g \in Fetch
    BY <2>2 DEF Fetch
  <2> HIDE DEF f, g
  <2>5. Knows(g, truth')
    BY <2>2, <2>3 DEF Knows, Tells
  <2> QED
    BY <2>1, <2>4, <2>5
<1>3. fetch' \in [Fetchers -> Fetch]
  <2>1. DOMAIN fetch' = Fetchers /\ fetch' = [p \in Fetchers |-> fetch'[p]]
    BY DEF TruthChanges
  <2> QED
    BY <1>2, <2>1
<1> QED
  BY <1>1, <1>2, <1>3 DEF FetchInv

\* One step of one fetch.
LEMMA StepFetch ==
  ASSUME QuotaTypeOK, FetchInv, NEW p \in Fetchers, NEW f \in Fetch, Knows(f, truth),
         Fetching(p, f), UNCHANGED truth
  PROVE  fetch' \in [Fetchers -> Fetch] /\ FetchInv'
<1>1. fetch' = [fetch EXCEPT ![p] = f] /\ fetch \in [Fetchers -> Fetch]
  BY DEF Fetching, QuotaTypeOK
<1>2. \A q \in Fetchers : fetch'[q] = IF q = p THEN f ELSE fetch[q]
  BY <1>1
<1> QED
  BY <1>1, <1>2 DEF FetchInv

\* The reads.
LEMMA StepRead ==
  ASSUME QuotaTypeOK, FetchInv, NEW p \in Fetchers, ReadUsage(p) \/ ReadPlan(p) \/ ReadStatus(p)
  PROVE  fetch' \in [Fetchers -> Fetch] /\ FetchInv'
<1> DEFINE f == fetch[p]
<1>1. f \in Fetch /\ Knows(f, truth) /\ UNCHANGED truth /\ f.quota \in Told /\ truth \in Truths
  BY DEF QuotaTypeOK, FetchInv, Fetch, ReadUsage, ReadPlan, ReadStatus
<1>2. CASE ReadUsage(p)
  <2> DEFINE q == [f.quota EXCEPT !.limit = truth.limit, !.remaining = truth.remaining,
                                  !.exhausted = IsOut(truth), !.ok = TRUE]
             g == [f EXCEPT !.at = "plan", !.usage = TRUE, !.told = IsOut(truth), !.quota = q]
             h == [f EXCEPT !.at = "plan"]
  <2>1. (Fetching(p, g) \/ Fetching(p, h)) /\ f.at = "usage"
    BY <1>2 DEF ReadUsage
  <2>2. /\ q \in Told /\ q.limit = truth.limit /\ q.remaining = truth.remaining
        /\ q.exhausted = IsOut(truth)
    BY <1>1, Constants DEF Told
  <2>3. g \in Fetch /\ Knows(g, truth)
    <3> HIDE DEF q
    <3>1. g \in Fetch
      BY <1>1, <2>2, Constants DEF Fetch
    <3>2. /\ g.at = "plan" /\ g.usage = TRUE /\ g.status = f.status /\ g.told = IsOut(truth)
          /\ g.outAll = f.outAll /\ g.exceededAll = f.exceededAll /\ g.quota = q
      BY <1>1 DEF Fetch
    <3> HIDE DEF f, g
    <3>3. truth.limit \in Nat /\ truth.remaining \in Nat
      BY <1>1, Constants
    <3>4. Tells(g, g.quota.remaining, g.quota.exhausted)
      <4>1. g.quota.exhausted <=> IsOut(truth)
        BY <2>2, <3>2
      <4>2. f.outAll => IsOut(truth)
        BY <1>1, <2>1 DEF Knows
      <4>3. g.quota.remaining = 0 /\ ~IsOut(truth) => g.quota.limit = 0
        BY <2>2, <3>2, <3>3 DEF IsOut
      <4>4. ~g.status /\ (g.told <=> IsOut(truth)) /\ (g.outAll <=> f.outAll)
        BY <1>1, <2>1, <3>2 DEF Knows
      <4> QED
        BY <4>1, <4>2, <4>3, <4>4 DEF Tells
    <3> QED
      BY <1>1, <2>1, <2>2, <3>1, <3>2, <3>4 DEF Knows
  <2>4. h \in Fetch /\ Knows(h, truth)
    <3>1. h \in Fetch
      BY <1>1 DEF Fetch
    <3>2. /\ h.at = "plan" /\ h.usage = f.usage /\ h.status = f.status /\ h.told = f.told
          /\ h.outAll = f.outAll /\ h.exceededAll = f.exceededAll /\ h.quota = f.quota
      BY <1>1 DEF Fetch
    <3> HIDE DEF f, h
    <3> QED
      BY <1>1, <2>1, <3>1, <3>2 DEF Knows, Tells
  <2> HIDE DEF f, g, h, q
  <2> QED
    BY <1>1, <2>1, <2>3, <2>4, StepFetch
<1>3. CASE ReadPlan(p)
  <2>1. PICK ok \in BOOLEAN : Fetching(p, [f EXCEPT !.at = "status", !.quota.ok = @ \/ ok])
    BY <1>3 DEF ReadPlan
  <2> DEFINE q == [f.quota EXCEPT !.ok = @ \/ ok]
             g == [f EXCEPT !.at = "status", !.quota = q]
  <2>2. Fetching(p, g) /\ f.at = "plan"
    BY <1>3, <2>1 DEF ReadPlan
  <2>3. q \in Told /\ q.limit = f.quota.limit /\ q.remaining = f.quota.remaining
        /\ q.exhausted = f.quota.exhausted
    BY <1>1 DEF Told
  <2>4. g \in Fetch /\ Knows(g, truth)
    <3> HIDE DEF q
    <3>1. g \in Fetch
      BY <1>1, <2>3 DEF Fetch
    <3>2. /\ g.at = "status" /\ g.usage = f.usage /\ g.status = f.status /\ g.told = f.told
          /\ g.outAll = f.outAll /\ g.exceededAll = f.exceededAll /\ g.quota = q
      BY <1>1 DEF Fetch
    <3> HIDE DEF f, g
    <3> QED
      BY <1>1, <2>2, <2>3, <3>1, <3>2 DEF Knows, Tells
  <2> HIDE DEF f, g, q
  <2> QED
    BY <1>1, <2>2, <2>4, StepFetch
<1>4. CASE ReadStatus(p)
  <2>1. CASE Fetching(p, [f EXCEPT !.at = "read"]) /\ f.at = "status"
    <3> DEFINE g == [f EXCEPT !.at = "read"]
    <3>1. g \in Fetch
      BY <1>1 DEF Fetch
    <3>2. /\ g.at = "read" /\ g.usage = f.usage /\ g.status = f.status /\ g.told = f.told
          /\ g.outAll = f.outAll /\ g.exceededAll = f.exceededAll /\ g.quota = f.quota
      BY <1>1 DEF Fetch
    <3> HIDE DEF f
    <3>3. Knows(g, truth)
      <4> HIDE DEF g
      <4> QED
        BY <1>1, <3>2 DEF Knows, Tells
    <3> QED
      BY <1>1, <2>1, <3>1, <3>3, StepFetch
  <2>2. ASSUME NEW nickname \in BOOLEAN, f.at = "status",
               Fetching(p, [f EXCEPT
                 !.at = "read", !.status = TRUE, !.told = @ \/ truth.exceeded,
                 !.quota.exhausted = @ \/ truth.exceeded, !.quota.ok = TRUE,
                 !.quota.nickname = nickname])
        PROVE  fetch' \in [Fetchers -> Fetch] /\ FetchInv'
    <3>1. truth.exceeded \in BOOLEAN
      BY <1>1, Constants
    <3>2. PICK b \in BOOLEAN : b = truth.exceeded
      BY <3>1
    <3> DEFINE q == [f.quota EXCEPT !.exhausted = @ \/ b, !.ok = TRUE, !.nickname = nickname]
               g == [f EXCEPT !.at = "read", !.status = TRUE, !.told = @ \/ b, !.quota = q]
    <3>3. Fetching(p, g)
      BY <2>2, <3>2, Zenon
    <3>4. /\ q \in Told /\ q.limit = f.quota.limit /\ q.remaining = f.quota.remaining
          /\ q.exhausted = (f.quota.exhausted \/ b)
      BY <1>1 DEF Told
    <3> HIDE DEF q
    <3>5. /\ g.at = "read" /\ g.usage = f.usage /\ g.status = TRUE
          /\ g.told = (f.told \/ b) /\ g.quota = q
          /\ g.outAll = f.outAll /\ g.exceededAll = f.exceededAll
      BY <1>1 DEF Fetch
    <3>6. g \in Fetch
      BY <1>1, <3>4 DEF Fetch
    <3> HIDE DEF f, g
    <3>7. Knows(g, truth)
      BY <1>1, <2>2, <3>2, <3>4, <3>5 DEF Knows, Tells
    <3> QED
      BY <1>1, <3>3, <3>6, <3>7, StepFetch
  <2> QED
    BY <1>4, <2>1, <2>2 DEF ReadStatus
<1> QED
  BY <1>2, <1>3, <1>4

----------------------------------------------------------------------------
(* The rows.                                                               *)

\* A record whose account has no row yet.
LEMMA RowAdded ==
  ASSUME NEW list \in Seq(Listed), NEW n \in Nat, n + 1 \in 1 .. Len(list),
         NEW rs \in Seq(Row), RowsOf(rs, list, n),
         \A i \in DOMAIN rs : rs[i].key # list[n + 1].key
  PROVE  /\ Append(rs, NewRow(list[n + 1])) \in Seq(Row)
         /\ RowsOf(Append(rs, NewRow(list[n + 1])), list, n + 1)
<1>1. PICK N \in 1 .. Len(list) : N = n + 1
  OBVIOUS
<1> DEFINE row == NewRow(list[N])
           rs2 == Append(rs, row)
<1>2. list[N] \in Listed
  BY <1>1
<1>3. /\ row.key = list[N].key /\ row.label = list[N].label /\ row.quota.nickname = FALSE
      /\ row \in Row
  BY <1>2, Constants DEF NewRow, Row, NoQuota
<1> HIDE DEF row
<1>4. /\ rs2 \in Seq(Row) /\ Len(rs2) = Len(rs) + 1
      /\ \A i \in 1 .. Len(rs) : rs2[i] = rs[i]
      /\ rs2[Len(rs) + 1] = row
      /\ DOMAIN rs2 = 1 .. (Len(rs) + 1) /\ DOMAIN rs = 1 .. Len(rs)
  BY <1>3
<1> HIDE DEF rs2
<1>5. \A i, j \in DOMAIN rs2 : rs2[i].key = rs2[j].key => i = j
  BY <1>1, <1>3, <1>4 DEF RowsOf
<1>6. \A k \in 1 .. N : \E i \in DOMAIN rs2 : rs2[i].key = list[k].key
  <2>1. Len(rs) + 1 \in DOMAIN rs2 /\ rs2[Len(rs) + 1].key = list[N].key
    BY <1>3, <1>4
  <2>2. ASSUME NEW k \in 1 .. n
        PROVE  \E i \in DOMAIN rs2 : rs2[i].key = list[k].key
    <3>1. PICK i \in DOMAIN rs : rs[i].key = list[k].key
      BY DEF RowsOf
    <3> QED
      BY <1>4, <3>1
  <2> QED
    BY <1>1, <2>1, <2>2
<1>7. ASSUME NEW i \in 1 .. Len(rs)
      PROVE  Own(list, rs2[i], N) # {} /\ Keeps(list, rs2[i], N)
  <2>1. Own(list, rs[i], N) = Own(list, rs[i], n)
    BY <1>1, <1>4 DEF Own
  <2>2. Own(list, rs[i], n) # {} /\ Keeps(list, rs[i], n)
    BY <1>4 DEF RowsOf
  <2> QED
    BY <1>4, <2>1, <2>2 DEF Keeps
<1>8. Own(list, row, N) # {} /\ Keeps(list, row, N)
  <2>1. \A k \in 1 .. n : list[k].key # list[N].key
    BY <1>1 DEF RowsOf
  <2>2. Own(list, row, N) = {N}
    BY <1>1, <1>3, <2>1 DEF Own
  <2> QED
    BY <1>3, <2>2 DEF Keeps
<1>9. \A i \in DOMAIN rs2 : Own(list, rs2[i], N) # {} /\ Keeps(list, rs2[i], N)
  BY <1>4, <1>7, <1>8
<1>10. RowsOf(rs2, list, N)
  BY <1>5, <1>6, <1>9 DEF RowsOf
<1> QED
  BY <1>1, <1>4, <1>10 DEF row, rs2

\* A change of the row i that keeps its key.
LEMMA RowChanged ==
  ASSUME NEW list, NEW n \in Nat, NEW N \in Nat, n <= N, NEW rs \in Seq(Row), RowsOf(rs, list, n),
         NEW i \in DOMAIN rs, NEW row \in Row, row.key = rs[i].key,
         \A k \in n + 1 .. N : list[k].key = rs[i].key,
         Keeps(list, row, N)
  PROVE  /\ [rs EXCEPT ![i] = row] \in Seq(Row)
         /\ RowsOf([rs EXCEPT ![i] = row], list, N)
<1> DEFINE rs2 == [rs EXCEPT ![i] = row]
<1>1. /\ rs2 \in Seq(Row) /\ DOMAIN rs2 = DOMAIN rs
      /\ rs2[i] = row /\ \A j \in DOMAIN rs : j # i => rs2[j] = rs[j]
  OBVIOUS
<1> HIDE DEF rs2
<1>2. \A j \in DOMAIN rs : rs2[j].key = rs[j].key
  BY <1>1
<1>3. \A j, l \in DOMAIN rs2 : rs2[j].key = rs2[l].key => j = l
  BY <1>1, <1>2 DEF RowsOf
<1>4. \A k \in 1 .. N : \E j \in DOMAIN rs2 : rs2[j].key = list[k].key
  <2>1. ASSUME NEW k \in 1 .. n
        PROVE  \E j \in DOMAIN rs2 : rs2[j].key = list[k].key
    <3>1. PICK j \in DOMAIN rs : rs[j].key = list[k].key
      BY DEF RowsOf
    <3> QED
      BY <1>1, <1>2, <3>1
  <2>2. ASSUME NEW k \in n + 1 .. N
        PROVE  \E j \in DOMAIN rs2 : rs2[j].key = list[k].key
    BY <1>1, <1>2
  <2> QED
    BY <2>1, <2>2
<1>5. ASSUME NEW j \in DOMAIN rs
      PROVE  Own(list, rs2[j], N) # {}
  <2>1. PICK k \in 1 .. n : list[k].key = rs[j].key
    BY DEF RowsOf, Own
  <2>2. k \in Own(list, rs2[j], N)
    BY <1>2, <2>1 DEF Own
  <2> QED
    BY <2>2
<1>6. ASSUME NEW j \in DOMAIN rs
      PROVE  Keeps(list, rs2[j], N)
  <2>1. CASE j = i
    BY <1>1, <2>1
  <2>2. CASE j # i
    <3>1. rs[j].key # rs[i].key
      BY <2>2 DEF RowsOf
    <3>2. Own(list, rs[j], N) = Own(list, rs[j], n)
      BY <3>1 DEF Own
    <3> QED
      BY <1>1, <2>2, <3>2 DEF RowsOf, Keeps
  <2> QED
    BY <2>1, <2>2
<1> QED
  BY <1>1, <1>3, <1>4, <1>5, <1>6 DEF RowsOf, rs2

\* A record of an account that has a row may name it.
LEMMA RowLabelled ==
  ASSUME NEW list \in Seq(Listed), NEW n \in Nat, n + 1 \in 1 .. Len(list),
         NEW rs \in Seq(Row), RowsOf(rs, list, n),
         NEW i \in DOMAIN rs, rs[i].key = list[n + 1].key,
         NEW label, label = IF fallbackQoderLabel(rs[i].label) THEN list[n + 1].label ELSE rs[i].label
  PROVE  /\ [rs EXCEPT ![i] = [rs[i] EXCEPT !.label = label]] \in Seq(Row)
         /\ RowsOf([rs EXCEPT ![i] = [rs[i] EXCEPT !.label = label]], list, n + 1)
<1>1. PICK N \in 1 .. Len(list) : N = n + 1
  OBVIOUS
<1> DEFINE row == [rs[i] EXCEPT !.label = label]
<1>2. rs[i] \in Row /\ list[N] \in Listed
  BY <1>1
<1>3. /\ row \in Row /\ row.key = rs[i].key /\ row.quota = rs[i].quota
      /\ row.label = IF rs[i].label = "none" THEN list[N].label ELSE rs[i].label
  BY <1>1, <1>2 DEF Row, fallbackQoderLabel
<1> HIDE DEF row
<1>4. Own(list, row, N) = Own(list, rs[i], n) \cup {N}
  BY <1>1, <1>3 DEF Own
<1>5. Own(list, rs[i], n) # {} /\ Own(list, rs[i], n) \subseteq 1 .. n /\ Keeps(list, rs[i], n)
  BY DEF RowsOf, Own
<1>6. Keeps(list, row, N)
  <2>1. ASSUME NEW k \in Own(list, row, N), list[k].label = "custom",
               \A l \in Own(list, row, N) : k <= l
        PROVE  row.label = "custom"
    <3>1. k \in Own(list, rs[i], n)
      BY <1>1, <1>4, <1>5, <2>1
    <3>2. rs[i].label = "custom"
      BY <1>4, <1>5, <2>1, <3>1 DEF Keeps
    <3> QED
      BY <1>3, <3>2
  <2>2. ASSUME row.label = "none"
        PROVE  ~row.quota.nickname /\ \A k \in Own(list, row, N) : list[k].label = "none"
    <3>1. rs[i].label = "none" /\ list[N].label = "none"
      BY <1>3, <2>2
    <3>2. ~rs[i].quota.nickname /\ \A k \in Own(list, rs[i], n) : list[k].label = "none"
      BY <1>5, <3>1 DEF Keeps
    <3> QED
      BY <1>3, <1>4, <3>1, <3>2
  <2> QED
    BY <2>1, <2>2 DEF Keeps
<1>7. \A k \in n + 1 .. N : list[k].key = rs[i].key
  BY <1>1
<1>8. [rs EXCEPT ![i] = row] \in Seq(Row) /\ RowsOf([rs EXCEPT ![i] = row], list, N)
  <2>1. N \in Nat /\ n <= N
    BY <1>1
  <2> QED
    BY <1>3, <1>6, <1>7, <2>1, RowChanged
<1> QED
  BY <1>1, <1>8 DEF row

\* The quota and the nickname of a row.
LEMMA RowApplied ==
  ASSUME NEW list, NEW n \in Nat, NEW rs \in Seq(Row), RowsOf(rs, list, n), NEW i \in DOMAIN rs,
         NEW q \in Told, NEW label,
         label = IF q.nickname /\ isFallbackIdentity(rs[i].label) THEN "nickname" ELSE rs[i].label
  PROVE  /\ [rs EXCEPT ![i] = [rs[i] EXCEPT !.quota = q, !.label = label]] \in Seq(Row)
         /\ RowsOf([rs EXCEPT ![i] = [rs[i] EXCEPT !.quota = q, !.label = label]], list, n)
<1> DEFINE row == [rs[i] EXCEPT !.quota = q, !.label = label]
<1>1. rs[i] \in Row
  OBVIOUS
<1>2. row \in Row /\ row.key = rs[i].key /\ row.quota = q /\ row.label = label
  BY <1>1 DEF Row
<1> HIDE DEF row
<1>3. Own(list, row, n) = Own(list, rs[i], n)
  BY <1>2 DEF Own
<1>4. Keeps(list, rs[i], n)
  BY DEF RowsOf
<1>5. rs[i].label = "custom" => row.label = "custom"
  BY <1>2 DEF isFallbackIdentity
<1>6. row.label = "none" => rs[i].label = "none" /\ ~row.quota.nickname
  BY <1>2 DEF isFallbackIdentity
<1>7. Keeps(list, row, n)
  BY <1>3, <1>4, <1>5, <1>6 DEF Keeps
<1>8. n <= n /\ \A k \in n + 1 .. n : list[k].key = rs[i].key
  OBVIOUS
<1>9. [rs EXCEPT ![i] = row] \in Seq(Row) /\ RowsOf([rs EXCEPT ![i] = row], list, n)
  BY <1>2, <1>7, <1>8, RowChanged
<1> QED
  BY <1>9 DEF row

----------------------------------------------------------------------------
(* The notes.                                                              *)

\* What a snapshot says of its account.
Right(s) == s.known => Tells(s.from, s.remaining, s.exhausted)

\* A note keeps what its fetch knows, and no record loses its note.
LEMMA NoteTells ==
  ASSUME QuotaTypeOK, FetchInv, SnapshotTellsExhaustion,
         NEW p \in Fetchers, NEW record \in Records \cup {NoRecord}, NEW s, s = Noted(record, p)
  PROVE  /\ s \in [Records -> Snapshot]
         /\ \A r \in Records : Right(s[r])
         /\ \A r \in Records : snapshot[r].known \/ r = record => s[r].known
<1>1. /\ snapshot \in [Records -> Snapshot]
      /\ \A r \in Records : Right(snapshot[r])
  BY DEF QuotaTypeOK, SnapshotTellsExhaustion, Right, Tells
<1>2. CASE record = NoRecord
  <2>1. s = snapshot /\ \A r \in Records : r # record
    BY <1>2, QuotaAssumption DEF Noted
  <2> QED
    BY <1>1, <2>1
<1>3. CASE record \in Records
  <2> DEFINE f == fetch[p]
             g == Source(f)
             new == [known |-> TRUE, remaining |-> f.quota.remaining,
                     exhausted |-> f.quota.exhausted, from |-> g]
  <2>1. /\ f \in Fetch /\ f.quota \in Told
        /\ Tells(f, f.quota.remaining, f.quota.exhausted)
    BY DEF QuotaTypeOK, FetchInv, Knows, Fetch
  <2>2. /\ g \in Fetch /\ g.usage = f.usage /\ g.told = f.told /\ g.status = f.status
        /\ g.outAll = f.outAll /\ g.exceededAll = f.exceededAll
        /\ g.quota.limit = f.quota.limit
    <3> DEFINE q == [NoQuota EXCEPT !.limit = f.quota.limit]
               h == [Idle EXCEPT !.usage = f.usage, !.status = f.status, !.told = f.told,
                          !.outAll = f.outAll, !.exceededAll = f.exceededAll, !.quota = q]
    <3>1. g = h
      BY DEF Source, Idle
    <3>2. q \in Told /\ q.limit = f.quota.limit
      BY <2>1 DEF NoQuota, Told
    <3> HIDE DEF q
    <3>3. /\ h \in Fetch /\ h.usage = f.usage /\ h.told = f.told /\ h.status = f.status
          /\ h.outAll = f.outAll /\ h.exceededAll = f.exceededAll
          /\ h.quota = q
      BY <2>1, <3>2 DEF Idle, Fetch
    <3> HIDE DEF g, h
    <3> QED
      BY <3>1, <3>2, <3>3
  <2>3. s = [snapshot EXCEPT ![record] = new]
    BY <1>3, QuotaAssumption DEF Noted
  <2> HIDE DEF f, g
  <2>4. /\ new \in Snapshot /\ new.known = TRUE /\ new.from = g
        /\ new.remaining = f.quota.remaining /\ new.exhausted = f.quota.exhausted
    BY <2>1, <2>2 DEF Snapshot, Told
  <2> HIDE DEF new
  <2>5. Tells(g, f.quota.remaining, f.quota.exhausted)
    BY <2>1, <2>2 DEF Tells
  <2>6. Right(new)
    BY <2>4, <2>5 DEF Right
  <2>7. \A r \in Records : s[r] = IF r = record THEN new ELSE snapshot[r]
    BY <1>1, <2>3
  <2> QED
    BY <1>1, <1>3, <2>3, <2>4, <2>6, <2>7
<1> QED
  BY <1>2, <1>3

----------------------------------------------------------------------------
(* The steps.                                                              *)

\* A step of the fetches alone.
LEMMA StepElsewhere ==
  ASSUME QuotaInv, UNCHANGED <<snapshot, pc, files, rows, done>>, truth' \in Truths,
         fetch' \in [Fetchers -> Fetch], FetchInv'
  PROVE  QuotaInv'
<1>1. QuotaTypeOK'
  BY DEF QuotaInv, QuotaTypeOK
<1>2. SnapshotTellsExhaustion'
  BY DEF QuotaInv, SnapshotTellsExhaustion
<1>3. FilesInv'
  BY DEF QuotaInv, FilesInv, Visited
<1>4. NotedInv'
  BY DEF QuotaInv, NotedInv, Visited
<1>5. RowsInv'
  BY DEF QuotaInv, RowsInv, Visited, Seen
<1> QED
  BY <1>1, <1>2, <1>3, <1>4, <1>5 DEF QuotaInv

\* The host asks.
LEMMA StepCall ==
  ASSUME QuotaInv, NEW p \in HostCalls, CallFetch(p)
  PROVE  QuotaInv'
<1>1. PICK r \in Records \cup {NoRecord} : Fetching(p, Begun(r))
  BY DEF CallFetch
<1>2. p \in Fetchers /\ UNCHANGED truth /\ truth \in Truths /\ QuotaTypeOK /\ FetchInv
  BY DEF CallFetch, Fetchers, QuotaInv, QuotaTypeOK
<1>3. Begun(r) \in Fetch /\ Knows(Begun(r), truth)
  BY <1>2, BegunKnows
<1>4. fetch' \in [Fetchers -> Fetch] /\ FetchInv'
  BY <1>1, <1>2, <1>3, StepFetch
<1> QED
  BY <1>2, <1>4, StepElsewhere DEF CallFetch

\* The host is answered.
LEMMA StepAnswer ==
  ASSUME QuotaInv, NEW p \in HostCalls, handleQuotaFetch(p)
  PROVE  QuotaInv'
<1> DEFINE f == [Idle EXCEPT !.at = "answered"]
<1>1. /\ p \in Fetchers /\ UNCHANGED <<truth, pc, files, rows, done>> /\ truth \in Truths
      /\ QuotaTypeOK /\ FetchInv /\ SnapshotTellsExhaustion /\ Fetching(p, f)
      /\ fetch[p] \in Fetch
  BY DEF handleQuotaFetch, Fetchers, QuotaInv, QuotaTypeOK
<1>2. f \in Fetch
  BY Constants DEF Fetch
<1>3. Knows(f, truth)
  BY DEF Idle, NoQuota, Knows, Tells
<1> HIDE DEF f
<1>4. fetch' \in [Fetchers -> Fetch] /\ FetchInv'
  BY <1>1, <1>2, <1>3, StepFetch
<1>5. /\ snapshot' \in [Records -> Snapshot]
      /\ \A r \in Records : Right(snapshot'[r])
      /\ \A r \in Records : snapshot[r].known => snapshot'[r].known
  <2>1. CASE fetch[p].quota.ok
    <3>1. fetch[p].record \in Records \cup {NoRecord}
      BY <1>1 DEF Fetch
    <3>2. PICK s : s = Noted(fetch[p].record, p)
      OBVIOUS
    <3>3. snapshot' = s
      BY <2>1, <3>2 DEF handleQuotaFetch
    <3>4. /\ s \in [Records -> Snapshot]
          /\ \A r \in Records : Right(s[r])
          /\ \A r \in Records : snapshot[r].known \/ r = fetch[p].record => s[r].known
      BY <1>1, <3>1, <3>2, NoteTells
    <3> QED
      BY <3>3, <3>4
  <2>2. CASE ~fetch[p].quota.ok
    <3>1. snapshot' = snapshot
      BY <2>2 DEF handleQuotaFetch
    <3> QED
      BY <1>1, <3>1 DEF QuotaTypeOK, SnapshotTellsExhaustion, Right, Tells
  <2> QED
    BY <2>1, <2>2
<1>6. QuotaTypeOK'
  BY <1>1, <1>4, <1>5 DEF QuotaTypeOK
<1>7. SnapshotTellsExhaustion'
  BY <1>5 DEF SnapshotTellsExhaustion, Right, Tells
<1>8. FilesInv'
  BY <1>1 DEF QuotaInv, FilesInv, Visited
<1>9. NotedInv'
  <2>1. done.noted \subseteq Records
    BY <1>1 DEF QuotaTypeOK
  <2> QED
    BY <1>1, <1>5, <2>1 DEF QuotaInv, NotedInv, Visited
<1>10. RowsInv'
  BY <1>1 DEF QuotaInv, RowsInv, Visited, Seen
<1> QED
  BY <1>4, <1>6, <1>7, <1>8, <1>9, <1>10 DEF QuotaInv

\* The panel asks.
LEMMA StepAsks ==
  ASSUME QuotaInv, Asks
  PROVE  QuotaInv'
<1>1. /\ pc = "idle" /\ pc' = "record" /\ files' \in Lists /\ done' = [done EXCEPT !.list = files']
      /\ UNCHANGED <<truth, fetch, snapshot, rows>>
  BY DEF Asks
<1>2. files' \in Seq(Listed)
  BY <1>1, QuotaAssumption
<1>3. /\ done' \in [list : Seq(Listed), noted : SUBSET Records, failed : SUBSET Records]
      /\ done'.list = files' /\ done'.noted = done.noted /\ done'.failed = done.failed
  BY <1>1, <1>2 DEF QuotaInv, QuotaTypeOK
<1>4. rows' = <<>>
  BY <1>1 DEF QuotaInv, FilesInv
<1>5. Visited' = 0 /\ Seen' = 0
  BY <1>1, <1>2, <1>3 DEF Visited, Seen
<1>6. QuotaTypeOK'
  BY <1>1, <1>2, <1>3 DEF QuotaInv, QuotaTypeOK
<1>7. SnapshotTellsExhaustion' /\ FetchInv'
  BY <1>1 DEF QuotaInv, SnapshotTellsExhaustion, FetchInv
<1>8. FilesInv'
  BY <1>1, <1>2, <1>3, <1>5 DEF FilesInv
<1>9. NotedInv'
  BY <1>1, <1>3, <1>5 DEF QuotaInv, NotedInv
<1>10. RowsInv'
  BY <1>4, <1>5 DEF RowsInv, RowsOf
<1> QED
  BY <1>6, <1>7, <1>8, <1>9, <1>10 DEF QuotaInv

\* Where the panel's visit is.
LEMMA Position ==
  ASSUME QuotaTypeOK, FilesInv, files # <<>>
  PROVE  /\ Visited \in Nat /\ Visited + 1 \in 1 .. Len(done.list)
         /\ Head(files) = done.list[Visited + 1]
         /\ Head(files) \in Listed /\ Tail(files) \in Seq(Listed)
         /\ Len(Tail(files)) = Len(files) - 1
         /\ \A j \in 1 .. Len(Tail(files)) : Tail(files)[j] = done.list[Visited + 1 + j]
<1>1. /\ files \in Seq(Listed) /\ done.list \in Seq(Listed)
      /\ Len(files) \in Nat /\ Len(files) > 0 /\ Len(done.list) \in Nat
  BY DEF QuotaTypeOK
<1>2. Visited \in Nat /\ Visited + 1 \in 1 .. Len(done.list)
  BY <1>1 DEF Visited, FilesInv
<1>3. /\ Head(files) = files[1] /\ 1 \in 1 .. Len(files)
      /\ Len(Tail(files)) = Len(files) - 1
      /\ Tail(files) \in Seq(Listed)
      /\ \A j \in 1 .. Len(Tail(files)) : Tail(files)[j] = files[j + 1]
  BY <1>1
<1>4. Head(files) = done.list[Visited + 1]
  BY <1>3 DEF FilesInv
<1>5. ASSUME NEW j \in 1 .. Len(Tail(files))
      PROVE  Tail(files)[j] = done.list[Visited + 1 + j]
  <2>1. PICK k \in 1 .. Len(files) : k = j + 1
    BY <1>1, <1>3
  <2>2. files[k] = done.list[Visited + k]
    BY DEF FilesInv
  <2>3. Visited + k = Visited + 1 + j
    BY <1>2, <2>1
  <2> QED
    BY <1>3, <2>1, <2>2, <2>3
<1> QED
  BY <1>1, <1>2, <1>3, <1>4, <1>5

\* What the panel does with the next record.
LEMMA StepVisit ==
  ASSUME QuotaInv, VisitRecord
  PROVE  QuotaInv'
<1> DEFINE n == Visited
           entry == Head(files)
           list == done.list
<1>1. /\ pc = "record" /\ files # <<>> /\ UNCHANGED <<truth, snapshot>>
      /\ QuotaTypeOK /\ FetchInv /\ SnapshotTellsExhaustion /\ FilesInv /\ NotedInv
      /\ rows \in Seq(Row) /\ list \in Seq(Listed) /\ files \in Seq(Listed)
  BY DEF VisitRecord, QuotaInv, QuotaTypeOK
<1>2. /\ n \in Nat /\ n + 1 \in 1 .. Len(list) /\ entry = list[n + 1] /\ entry \in Listed
      /\ Tail(files) \in Seq(Listed) /\ Len(Tail(files)) = Len(files) - 1
      /\ \A j \in 1 .. Len(Tail(files)) : Tail(files)[j] = list[n + 1 + j]
  BY <1>1, Position
<1>3. RowsOf(rows, list, n) /\ n = Len(list) - Len(files) /\ Len(files) \in Nat
  BY <1>1 DEF QuotaInv, RowsInv, Seen, Visited
<1>4. rows' \in Seq(Row) /\ RowsOf(rows', list, n + 1)
  <2>1. CASE ~HasRow(entry.key)
    <3>1. rows' = Append(rows, NewRow(entry))
      BY <2>1 DEF VisitRecord
    <3>2. \A i \in DOMAIN rows : rows[i].key # list[n + 1].key
      BY <1>2, <2>1 DEF HasRow
    <3> HIDE DEF n, list, entry
    <3>3. /\ Append(rows, NewRow(list[n + 1])) \in Seq(Row)
          /\ RowsOf(Append(rows, NewRow(list[n + 1])), list, n + 1)
      BY <1>1, <1>2, <1>3, <3>2, RowAdded
    <3> QED
      BY <1>2, <3>1, <3>3
  <2>2. CASE HasRow(entry.key)
    <3>1. PICK i : i = RowOf(entry.key)
      OBVIOUS
    <3>2. i \in DOMAIN rows /\ rows[i].key = list[n + 1].key
      BY <1>2, <2>2, <3>1 DEF HasRow, RowOf
    <3>3. PICK label : label = IF fallbackQoderLabel(rows[i].label) THEN entry.label ELSE rows[i].label
      OBVIOUS
    <3>4. rows' = [rows EXCEPT ![i] = [rows[i] EXCEPT !.label = label]]
      BY <2>2, <3>1, <3>3 DEF VisitRecord
    <3> HIDE DEF n, list, entry
    <3>5. label = IF fallbackQoderLabel(rows[i].label) THEN list[n + 1].label ELSE rows[i].label
      BY <1>2, <3>3
    <3>6. /\ [rows EXCEPT ![i] = [rows[i] EXCEPT !.label = label]] \in Seq(Row)
          /\ RowsOf([rows EXCEPT ![i] = [rows[i] EXCEPT !.label = label]], list, n + 1)
      BY <1>1, <1>2, <1>3, <3>2, <3>5, RowLabelled
    <3> QED
      BY <3>4, <3>6
  <2> QED
    BY <2>1, <2>2
<1>5. CASE /\ pc' = "fetch" /\ Fetching(Panel, Begun(entry.id)) /\ UNCHANGED <<files, done>>
  <2>1. Begun(entry.id) \in Fetch /\ Knows(Begun(entry.id), truth)
    BY <1>1, <1>2, QuotaAssumption, BegunKnows DEF QuotaTypeOK
  <2>2. fetch' \in [Fetchers -> Fetch] /\ FetchInv'
    BY <1>1, <1>5, <2>1, StepFetch DEF Fetchers
  <2>3. QuotaTypeOK'
    BY <1>1, <1>4, <1>5, <2>2 DEF QuotaTypeOK
  <2>4. SnapshotTellsExhaustion' /\ NotedInv' /\ FilesInv'
    BY <1>1, <1>5 DEF SnapshotTellsExhaustion, NotedInv, FilesInv, Visited
  <2>5. Seen' = n + 1 /\ done'.list = list
    BY <1>5 DEF Seen, Visited
  <2>6. RowsInv'
    BY <1>4, <2>5 DEF RowsInv
  <2> QED
    BY <2>2, <2>3, <2>4, <2>6 DEF QuotaInv
<1>6. CASE /\ files' = Tail(files)
           /\ done' = IF entry.indexed THEN [done EXCEPT !.failed = @ \cup {entry.id}] ELSE done
           /\ UNCHANGED <<pc, fetch>>
  <2>1. entry.id \in Records
    BY <1>2, QuotaAssumption
  <2>2. /\ done' \in [list : Seq(Listed), noted : SUBSET Records, failed : SUBSET Records]
        /\ done'.list = list /\ done'.noted = done.noted /\ done.failed \subseteq done'.failed
        /\ entry.indexed => entry.id \in done'.failed
    BY <1>1, <1>6, <2>1 DEF QuotaTypeOK
  <2> HIDE DEF n, list, entry
  <2>3. Visited' = n + 1 /\ Seen' = n + 1
    <3>1. Len(list) \in Nat
      BY <1>1
    <3>2. Visited' = Len(list) - Len(Tail(files))
      BY <1>6, <2>2 DEF Visited
    <3>3. Visited' = n + 1
      BY <1>2, <1>3, <3>1, <3>2
    <3>4. pc' = "record"
      BY <1>1, <1>6
    <3> QED
      BY <3>3, <3>4 DEF Seen
  <2>4. QuotaTypeOK'
    BY <1>1, <1>2, <1>4, <1>6, <2>2 DEF QuotaTypeOK
  <2>5. SnapshotTellsExhaustion' /\ FetchInv'
    BY <1>1, <1>6 DEF SnapshotTellsExhaustion, FetchInv
  <2>6. FilesInv'
    BY <1>1, <1>2, <1>3, <1>6, <2>2, <2>3 DEF FilesInv
  <2>7. NotedInv'
    <3>1. \A k \in 1 .. n : list[k].indexed => list[k].id \in done.noted \cup done.failed
      BY <1>1 DEF NotedInv, n, list
    <3>2. \A k \in 1 .. n + 1 : list[k].indexed => list[k].id \in done'.noted \cup done'.failed
      BY <1>2, <2>2, <3>1
    <3>3. \A r \in done'.noted : snapshot'[r].known
      BY <1>1, <2>2 DEF NotedInv
    <3> QED
      BY <2>2, <2>3, <3>2, <3>3 DEF NotedInv
  <2>8. RowsInv'
    BY <1>4, <2>2, <2>3 DEF RowsInv
  <2> QED
    BY <2>4, <2>5, <2>6, <2>7, <2>8 DEF QuotaInv
<1> QED
  BY <1>5, <1>6 DEF VisitRecord

\* The quota arrives.
LEMMA StepApply ==
  ASSUME QuotaInv, ApplyQuota
  PROVE  QuotaInv'
<1> DEFINE n == Visited
           entry == Head(files)
           list == done.list
           q == fetch[Panel].quota
<1>1. /\ pc = "fetch" /\ files' = Tail(files) /\ pc' = "record" /\ UNCHANGED truth
      /\ Fetching(Panel, Idle) /\ files # <<>>
      /\ QuotaTypeOK /\ FetchInv /\ SnapshotTellsExhaustion /\ FilesInv /\ NotedInv
      /\ rows \in Seq(Row) /\ list \in Seq(Listed) /\ files \in Seq(Listed)
      /\ Panel \in Fetchers /\ truth \in Truths /\ done.noted \subseteq Records
  BY DEF ApplyQuota, QuotaInv, QuotaTypeOK, FilesInv, Fetchers
<1>2. /\ n \in Nat /\ n + 1 \in 1 .. Len(list) /\ entry = list[n + 1] /\ entry \in Listed
      /\ Tail(files) \in Seq(Listed) /\ Len(Tail(files)) = Len(files) - 1
      /\ \A j \in 1 .. Len(Tail(files)) : Tail(files)[j] = list[n + 1 + j]
  BY <1>1, Position
<1>3. RowsOf(rows, list, n + 1) /\ n = Len(list) - Len(files) /\ Len(files) \in Nat
  BY <1>1 DEF QuotaInv, RowsInv, Seen, Visited
<1>4. q \in Told /\ entry.id \in Records
  BY <1>1, <1>2, QuotaAssumption DEF QuotaTypeOK, Fetch
<1>5. fetch' \in [Fetchers -> Fetch] /\ FetchInv'
  BY <1>1, Constants, IdleKnows, StepFetch
<1>6. rows' \in Seq(Row) /\ RowsOf(rows', list, n + 1)
  <2>1. PICK i : i = RowOf(entry.key)
    OBVIOUS
  <2>2. \E j \in DOMAIN rows : rows[j].key = entry.key
    <3>1. PICK N \in 1 .. n + 1 : N = n + 1
      BY <1>2
    <3> HIDE DEF n, list, entry
    <3> QED
      BY <1>2, <1>3, <3>1 DEF RowsOf
  <2>3. i \in DOMAIN rows
    BY <2>1, <2>2 DEF RowOf
  <2>4. PICK label : label = IF q.nickname /\ isFallbackIdentity(rows[i].label) THEN "nickname" ELSE rows[i].label
    OBVIOUS
  <2>5. rows' = [rows EXCEPT ![i].quota = q, ![i].label = label]
    BY <2>1, <2>3, <2>4 DEF ApplyQuota
  <2>6. rows' = [rows EXCEPT ![i] = [rows[i] EXCEPT !.quota = q, !.label = label]]
    BY <1>1, <2>3, <2>5
  <2>7. PICK N \in Nat : N = n + 1
    BY <1>2
  <2> HIDE DEF n, list, entry, q
  <2>8. /\ [rows EXCEPT ![i] = [rows[i] EXCEPT !.quota = q, !.label = label]] \in Seq(Row)
        /\ RowsOf([rows EXCEPT ![i] = [rows[i] EXCEPT !.quota = q, !.label = label]], list, N)
    BY <1>1, <1>3, <1>4, <2>3, <2>4, <2>7, RowApplied
  <2> QED
    BY <2>6, <2>7, <2>8
<1>7. /\ snapshot' \in [Records -> Snapshot]
      /\ \A r \in Records : Right(snapshot'[r])
      /\ \A r \in Records : snapshot[r].known \/ (q.ok /\ r = entry.id) => snapshot'[r].known
  <2>1. CASE q.ok
    <3>1. PICK s : s = Noted(entry.id, Panel)
      OBVIOUS
    <3>2. snapshot' = s
      BY <2>1, <3>1 DEF ApplyQuota
    <3>3. /\ s \in [Records -> Snapshot]
          /\ \A r \in Records : Right(s[r])
          /\ \A r \in Records : snapshot[r].known \/ r = entry.id => s[r].known
      BY <1>1, <1>4, <3>1, NoteTells
    <3> QED
      BY <2>1, <3>2, <3>3
  <2>2. CASE ~q.ok
    <3>1. snapshot' = snapshot
      BY <2>2 DEF ApplyQuota
    <3> QED
      BY <1>1, <2>2, <3>1 DEF QuotaTypeOK, SnapshotTellsExhaustion, Right, Tells
  <2> QED
    BY <2>1, <2>2
<1>8. done' = IF q.ok THEN [done EXCEPT !.noted = @ \cup {entry.id}]
                      ELSE [done EXCEPT !.failed = @ \cup {entry.id}]
  BY DEF ApplyQuota
<1>9. /\ done' \in [list : Seq(Listed), noted : SUBSET Records, failed : SUBSET Records]
      /\ done'.list = list /\ done.noted \subseteq done'.noted /\ done.failed \subseteq done'.failed
      /\ entry.id \in done'.noted \cup done'.failed
      /\ done'.noted \subseteq IF q.ok THEN done.noted \cup {entry.id} ELSE done.noted
  <2>1. CASE q.ok
    BY <1>1, <1>4, <1>8, <2>1 DEF QuotaTypeOK
  <2>2. CASE ~q.ok
    BY <1>1, <1>4, <1>8, <2>2 DEF QuotaTypeOK
  <2> QED
    BY <2>1, <2>2
<1> HIDE DEF n, list, entry, q
<1>10. Visited' = n + 1 /\ Seen' = n + 1
  BY <1>1, <1>2, <1>3, <1>9 DEF Visited, Seen
<1>11. QuotaTypeOK'
  BY <1>1, <1>2, <1>5, <1>6, <1>7, <1>9 DEF QuotaTypeOK
<1>12. SnapshotTellsExhaustion'
  BY <1>7 DEF SnapshotTellsExhaustion, Right, Tells
<1>13. FilesInv'
  <2>1. Len(files') <= Len(done'.list)
    BY <1>1, <1>2, <1>3, <1>9
  <2>2. \A j \in 1 .. Len(files') : files'[j] = done'.list[Visited' + j]
    BY <1>1, <1>2, <1>9, <1>10
  <2>3. pc' # "fetch" /\ pc' # "replied" /\ pc' # "idle"
    BY <1>1
  <2> QED
    BY <2>1, <2>2, <2>3 DEF FilesInv
<1>14. NotedInv'
  <2>1. \A k \in 1 .. n : list[k].indexed => list[k].id \in done.noted \cup done.failed
    BY <1>1 DEF NotedInv, n, list
  <2>2. \A k \in 1 .. n + 1 : list[k].indexed => list[k].id \in done'.noted \cup done'.failed
    BY <1>2, <1>9, <2>1
  <2>3. \A r \in done'.noted : snapshot'[r].known
    BY <1>1, <1>4, <1>7, <1>9 DEF NotedInv
  <2> QED
    BY <1>9, <1>10, <2>2, <2>3 DEF NotedInv
<1>15. RowsInv'
  BY <1>6, <1>9, <1>10 DEF RowsInv
<1> QED
  BY <1>5, <1>11, <1>12, <1>13, <1>14, <1>15 DEF QuotaInv

\* Every step keeps the invariant.
LEMMA QuotaStepInv == QuotaInv /\ [QuotaNext]_quotaVars => QuotaInv'
<1> SUFFICES ASSUME QuotaInv, [QuotaNext]_quotaVars
             PROVE  QuotaInv'
  OBVIOUS
<1>1. QuotaTypeOK /\ FetchInv /\ truth \in Truths
  BY DEF QuotaInv, QuotaTypeOK
<1>2. CASE TruthChanges
  <2>1. truth' \in Truths /\ fetch' \in [Fetchers -> Fetch] /\ FetchInv'
    BY <1>1, <1>2, StepTruth
  <2> QED
    BY <1>2, <2>1, StepElsewhere DEF TruthChanges
<1>3. ASSUME NEW p \in Fetchers, ReadUsage(p) \/ ReadPlan(p) \/ ReadStatus(p)
      PROVE  QuotaInv'
  <2>1. fetch' \in [Fetchers -> Fetch] /\ FetchInv'
    BY <1>1, <1>3, StepRead
  <2>2. UNCHANGED <<truth, snapshot, pc, files, rows, done>>
    BY <1>3 DEF ReadUsage, ReadPlan, ReadStatus
  <2> QED
    BY <1>1, <2>1, <2>2, StepElsewhere
<1>4. ASSUME NEW p \in HostCalls, CallFetch(p) \/ handleQuotaFetch(p)
      PROVE  QuotaInv'
  BY <1>4, StepCall, StepAnswer
<1>5. CASE Replies
  <2>1. /\ UNCHANGED <<truth, fetch, snapshot, files, rows, done>>
        /\ pc = "record" /\ pc' = "replied" /\ files = <<>>
    BY <1>5 DEF Replies
  <2>2. QuotaTypeOK' /\ FetchInv' /\ SnapshotTellsExhaustion'
    BY <2>1 DEF QuotaInv, QuotaTypeOK, FetchInv, SnapshotTellsExhaustion
  <2>3. FilesInv' /\ NotedInv' /\ RowsInv'
    BY <2>1 DEF QuotaInv, FilesInv, NotedInv, RowsInv, Visited, Seen
  <2> QED
    BY <2>2, <2>3 DEF QuotaInv
<1>6. CASE UNCHANGED quotaVars
  <2>1. UNCHANGED <<truth, fetch, snapshot, pc, files, rows, done>>
    BY <1>6 DEF quotaVars
  <2>2. FetchInv'
    BY <1>1, <2>1 DEF FetchInv
  <2> QED
    BY <1>1, <2>1, <2>2, StepElsewhere DEF QuotaTypeOK
<1> QED
  BY <1>2, <1>3, <1>4, <1>5, <1>6, StepAsks, StepVisit, StepApply DEF QuotaNext

\* No fetch is under way and nothing is known.
LEMMA QuotaInitInv == QuotaInit => QuotaInv
<1> SUFFICES ASSUME QuotaInit
             PROVE  QuotaInv
  OBVIOUS
<1>1. QuotaTypeOK
  BY Constants DEF QuotaInit, QuotaTypeOK
<1>2. FetchInv
  BY IdleKnows DEF QuotaInit, FetchInv
<1>3. SnapshotTellsExhaustion
  BY Constants DEF QuotaInit, SnapshotTellsExhaustion
<1>4. Visited = 0 /\ Seen = 0
  BY DEF QuotaInit, Visited, Seen
<1>5. FilesInv /\ NotedInv /\ RowsInv
  BY <1>4 DEF QuotaInit, FilesInv, NotedInv, RowsInv, RowsOf
<1> QED
  BY <1>1, <1>2, <1>3, <1>5 DEF QuotaInv

----------------------------------------------------------------------------
(* What holds of every behaviour.                                          *)

\* Every reachable state satisfies the invariant.
THEOREM QuotaInvariance == QuotaSpec => []QuotaInv
<1> QED
  BY QuotaInitInv, QuotaStepInv, PTL DEF QuotaSpec

\* The variables keep their types.
THEOREM QuotaTypeCorrect == QuotaSpec => []QuotaTypeOK
<1>1. QuotaInv => QuotaTypeOK
  BY DEF QuotaInv
<1> QED
  BY <1>1, QuotaInvariance, PTL

\* What the scheduler is told of exhaustion is what the reads that succeeded
\* said, however the host's fetches, the panel's and the account's use overlap.
THEOREM ToldRight == QuotaSpec => []SnapshotTellsExhaustion
<1>1. QuotaInv => SnapshotTellsExhaustion
  BY DEF QuotaInv
<1> QED
  BY <1>1, QuotaInvariance, PTL

\* When the panel has its rows, each record with an index was noted, or its own
\* credential or quota could not be had.
THEOREM AllNoted == QuotaSpec => []EveryRecordNoted
<1>1. QuotaInv => EveryRecordNoted
  <2> SUFFICES ASSUME QuotaInv, pc = "replied", NEW entry \in Range(done.list), entry.indexed
               PROVE  \/ entry.id \in done.noted /\ snapshot[entry.id].known
                      \/ entry.id \in done.failed
    BY DEF EveryRecordNoted
  <2>1. PICK k \in DOMAIN done.list : entry = done.list[k]
    BY DEF Range
  <2>2. done.list \in Seq(Listed) /\ files = <<>>
    BY DEF QuotaInv, QuotaTypeOK, FilesInv
  <2>3. Visited = Len(done.list) /\ DOMAIN done.list = 1 .. Len(done.list)
    BY <2>2 DEF Visited
  <2> QED
    BY <2>1, <2>3 DEF QuotaInv, NotedInv
<1> QED
  BY <1>1, QuotaInvariance, PTL

\* The panel has one row for each account it listed, the label the user gave the
\* account's first record is never lost, and only an account without any name is
\* nameless.
THEOREM IdentitiesKept == QuotaSpec => []RowsKeepIdentity
<1>1. QuotaInv => RowsKeepIdentity
  <2> SUFFICES ASSUME QuotaInv
               PROVE  RowsKeepIdentity
    OBVIOUS
  <2>1. done.list \in Seq(Listed) /\ RowsOf(rows, done.list, Seen)
    BY DEF QuotaInv, QuotaTypeOK, RowsInv
  <2>2. pc = "replied" => Seen = Len(done.list)
    BY <2>1 DEF QuotaInv, FilesInv, Seen, Visited
  <2>3. DOMAIN done.list = 1 .. Len(done.list)
    BY <2>1
  <2>4. pc = "replied" => \A k \in DOMAIN done.list : HasRow(done.list[k].key)
    BY <2>1, <2>2, <2>3 DEF RowsOf, HasRow
  <2>5. ASSUME pc = "replied", NEW i \in DOMAIN rows
        PROVE  LET own == {k \in DOMAIN done.list : done.list[k].key = rows[i].key}
               IN  /\ \A k \in own : done.list[k].label = "custom" /\ (\A l \in own : k <= l) =>
                          rows[i].label = "custom"
                   /\ rows[i].label = "none" =>
                          /\ ~rows[i].quota.nickname
                          /\ \A k \in own : done.list[k].label = "none"
    BY <2>1, <2>2, <2>3, <2>5 DEF RowsOf, Keeps, Own
  <2> QED
    BY <2>1, <2>4, <2>5 DEF RowsOf, RowsKeepIdentity
<1> QED
  BY <1>1, QuotaInvariance, PTL
=============================================================================
