--------------------------- MODULE CampaignsProofs ---------------------------
(***************************************************************************)
(* The daily claim for any number of accounts, campaigns and requests and  *)
(* any length of the day.  The three promises rest on three invariants     *)
(* that have nothing to do with each other: RoundInv counts what a round   *)
(* has asked for, GrantInv says who may have been granted what an actor is *)
(* about to claim, and SlotInv where the loop is in the calendar.          *)
(***************************************************************************)
EXTENDS Campaigns, SequenceTheorems, TLAPS

\* Every account of the list was either visited, which asks for its credential once, or is
\* still ahead.
RoundInv ==
    /\ pc \in {"sleep", "list"} =>
         listed = {} /\ seen = {} /\ \A a \in Accounts : tried[a] = 0
    /\ pc = "credential" => acct \in seen /\ tried[acct] = 0
    /\ \A a \in Accounts : a \notin seen => tried[a] = 0
    /\ \A a \in seen : tried[a] = 1 \/ (tried[a] = 0 /\ pc = "credential" /\ a = acct)
    /\ pc \in {"file", "credential", "fetch", "claim"} =>
         listed \subseteq seen \cup {files[i].auth : i \in {i \in DOMAIN files : files[i].qoder}}
    /\ pc = "plan" => listed \subseteq seen

\* What the loop, or the request that holds the mutex, saw as CLAIMABLE was granted since, if at
\* all, to somebody else.
GrantInv ==
    /\ pc = "claim" =>
         \A c \in todo : status[acct][c] = "CLAIMED" => by[acct][c] # Claimer
    /\ \A r \in Requests : req[r].at \in {"resolve", "fetch", "claim"} => mu = r
    /\ \A r \in Requests :
         req[r].at = "claim" =>
           /\ req[r].kind = "claim"
           /\ req[r].shown = "CLAIMABLE" /\ status[req[r].acct][req[r].offer] = "CLAIMED"
                => by[req[r].acct][req[r].offer] \notin Requests

SlotStart(d) == d * DayLen + ClaimHour

\* The loop sleeps until the slot that comes next, and a slot that has begun is excused, was
\* used, or is the one it sleeps until.
SlotInv ==
    /\ pc = "sleep" =>
         /\ now <= next
         /\ \E d \in Nat, j \in Jitters : next = SlotStart(d) + j /\ SlotStart(d - 1) <= now
    /\ \A d \in Nat : SlotStart(d) <= now =>
         \/ d \in ran \cup excused
         \/ pc = "sleep" /\ \E j \in Jitters : next = SlotStart(d) + j

Inv == TypeOK /\ RoundInv /\ GrantInv /\ SlotInv /\ ReplayComesFromOutside

----------------------------------------------------------------------------
(* The calendar.                                                            *)

\* A moment is so many whole days and a rest of less than one.
LEMMA DivMod ==
    ASSUME NEW t \in Nat
    PROVE  /\ DayOf(t) \in Nat /\ t % DayLen \in 0 .. DayLen - 1
           /\ t = DayOf(t) * DayLen + (t % DayLen)
<1>1. DayLen \in Nat \ {0}
  BY CampaignsAssumption
<1> HIDE DEF CampaignsAssumption
<1>2. t % DayLen \in 0 .. DayLen - 1
  BY <1>1
<1>3. t \div DayLen \in Nat
  BY <1>1
<1>4. t = (t \div DayLen) * DayLen + (t % DayLen)
  BY <1>1
<1> QED
  BY <1>1, <1>2, <1>3, <1>4 DEF DayOf

\* Whole days compare as their numbers do.
LEMMA Product ==
    ASSUME NEW d \in Int
    PROVE  /\ d * DayLen \in Int /\ (d + 1) * DayLen = d * DayLen + DayLen
           /\ (d - 1) * DayLen = d * DayLen - DayLen
           /\ d \in Nat => d * DayLen \in Nat
  BY CampaignsAssumption

\* A later day begins at least DayLen later.
LEMMA DayOrder ==
    ASSUME NEW d \in Int, NEW e \in Int, NEW x \in 0 .. DayLen - 1, NEW y \in 0 .. DayLen - 1,
           d * DayLen + x <= e * DayLen + y
    PROVE  d <= e
<1> SUFFICES ASSUME d >= e + 1 PROVE FALSE
  OBVIOUS
<1>1. PICK k \in Nat : d = (e + 1) + k
  BY d - (e + 1) \in Nat, d = (e + 1) + (d - (e + 1))
<1>2. d * DayLen = (e + 1) * DayLen + k * DayLen
  BY <1>1, CampaignsAssumption
<1>3. k * DayLen \in Nat /\ (e + 1) * DayLen = e * DayLen + DayLen
  BY Product
<1> QED
  BY <1>2, <1>3, CampaignsAssumption, Product

\* Which day a moment belongs to.
LEMMA DayIs ==
    ASSUME NEW d \in Nat, NEW x \in 0 .. DayLen - 1, NEW t \in Nat, t = d * DayLen + x
    PROVE  DayOf(t) = d /\ t % DayLen = x
<1>1. DayOf(t) \in Nat /\ t % DayLen \in 0 .. DayLen - 1
      /\ t = DayOf(t) * DayLen + (t % DayLen)
  BY DivMod
<1>. DEFINE e == DayOf(t)
            y == t % DayLen
<1> HIDE DEF e, y
<1>2. e \in Nat /\ y \in 0 .. DayLen - 1 /\ d * DayLen + x = e * DayLen + y
  BY <1>1 DEF e, y
<1>3. d * DayLen \in Int /\ e * DayLen \in Int
  BY <1>2, Product
<1>4. d <= e
  BY <1>2, <1>3, DayOrder
<1>5. e <= d
  BY <1>2, <1>3, DayOrder
<1>6. d = e
  BY <1>2, <1>4, <1>5
<1>7. x = y
  BY <1>2, <1>3, <1>6
<1> QED
  BY <1>6, <1>7 DEF e, y

\* The slots of a day lie within it.
LEMMA SlotFacts ==
    ASSUME NEW d \in Int, NEW j \in Jitters
    PROVE  /\ ClaimHour \in 0 .. DayLen - 1 /\ ClaimHour + j \in 0 .. DayLen - 1 /\ j \in Nat
           /\ SlotStart(d) \in Int /\ SlotStart(d) + j = d * DayLen + (ClaimHour + j)
           /\ SlotStart(d) = d * DayLen + ClaimHour
           /\ SlotStart(d - 1) + DayLen = SlotStart(d)
           /\ d \in Nat => SlotStart(d) \in Nat /\ SlotStart(d) > 0
  BY CampaignsAssumption, Product DEF SlotStart

\* The slots of later days begin later.
LEMMA SlotOrder ==
    ASSUME NEW d \in Int, NEW e \in Int, SlotStart(e) < SlotStart(d)
    PROVE  e < d
<1>1. ClaimHour \in 0 .. DayLen - 1 /\ ClaimHour \in Nat
  <2>1. PICK j \in Jitters : TRUE
    BY CampaignsAssumption
  <2> QED
    BY <2>1, CampaignsAssumption
<1>2. d * DayLen \in Int /\ e * DayLen \in Int
  BY Product
<1>3. e * DayLen + ClaimHour < d * DayLen + ClaimHour
  BY DEF SlotStart
<1>4. e <= d
  BY <1>1, <1>2, <1>3, DayOrder
<1>5. e # d
  <2> SUFFICES ASSUME e = d PROVE FALSE
    OBVIOUS
  <2>1. SlotStart(d) \in Int
    BY <1>1, <1>2 DEF SlotStart
  <2>2. SlotStart(e) = SlotStart(d)
    OBVIOUS
  <2> QED
    BY <2>1, <2>2
<1> QED
  BY <1>4, <1>5

\* The slot that is planned is one of the days', it is ahead, and the slot of the day before
\* has begun.
LEMMA NextSlot ==
    ASSUME NEW t \in Nat, NEW j \in Jitters
    PROVE  /\ nextClaimAt(t, j) \in Nat /\ t < nextClaimAt(t, j)
           /\ \E d \in Nat : nextClaimAt(t, j) = SlotStart(d) + j /\ SlotStart(d - 1) <= t
<1>. DEFINE e == DayOf(t)
            x == t % DayLen
            start == e * DayLen
<1>1. e \in Nat /\ x \in 0 .. DayLen - 1 /\ t = start + x
  BY DivMod
<1> HIDE DEF e, x
<1>2. start \in Nat /\ (e + 1) * DayLen = start + DayLen
  BY <1>1, Product
<1>3. /\ ClaimHour + j \in 0 .. DayLen - 1 /\ j \in Nat /\ ClaimHour \in Nat /\ DayLen \in Nat
      /\ SlotStart(e) = start + ClaimHour /\ SlotStart(e - 1) + DayLen = SlotStart(e)
      /\ SlotStart(e - 1) \in Int
      /\ SlotStart(e + 1) = start + DayLen + ClaimHour
  <2>1. e + 1 \in Int /\ e \in Int /\ ClaimHour \in Nat /\ DayLen \in Nat
    BY <1>1, CampaignsAssumption
  <2>2. SlotStart(e + 1) = (e + 1) * DayLen + ClaimHour
    BY <2>1, SlotFacts
  <2>3. /\ ClaimHour + j \in 0 .. DayLen - 1 /\ j \in Nat /\ SlotStart(e) = start + ClaimHour
        /\ SlotStart(e - 1) + DayLen = SlotStart(e)
    BY <2>1, SlotFacts
  <2>4. SlotStart(e - 1) \in Int
    <3>1. e - 1 \in Int
      BY <2>1
    <3> QED
      BY <3>1, SlotFacts
  <2> QED
    BY <1>2, <2>1, <2>2, <2>3, <2>4
<1>4. nextClaimAt(t, j) = IF start + ClaimHour + j > t THEN start + ClaimHour + j
                                                       ELSE start + ClaimHour + j + DayLen
  BY DEF nextClaimAt, e
<1> HIDE DEF start
<1>5. CASE start + ClaimHour + j > t
  <2>1. nextClaimAt(t, j) = SlotStart(e) + j /\ SlotStart(e - 1) <= t
    BY <1>1, <1>2, <1>3, <1>4, <1>5
  <2> QED
    BY <1>1, <1>2, <1>3, <1>4, <1>5, <2>1
<1>6. CASE ~(start + ClaimHour + j > t)
  <2>1. nextClaimAt(t, j) = SlotStart(e + 1) + j /\ SlotStart((e + 1) - 1) <= t /\ e + 1 \in Nat
    BY <1>1, <1>2, <1>3, <1>4, <1>6
  <2> QED
    BY <1>1, <1>2, <1>3, <1>4, <1>6, <2>1
<1> QED
  BY <1>5, <1>6

----------------------------------------------------------------------------
(* Types.                                                                   *)

\* Only a grant is a grant, and it is one of something that was to be had.
LEMMA AnswerFacts ==
    ASSUME NEW s \in Statuses, NEW answer \in Answers(s)
    PROVE  /\ answer.grant \in BOOLEAN
           /\ answer.grant => s = "CLAIMABLE"
           /\ answer.outcome = "replayed" => s = "CLAIMED"
<1>. DEFINE failed == [outcome |-> "failed", grant |-> FALSE]
            rejected == [outcome |-> "rejected", grant |-> FALSE]
            claimed == [outcome |-> "claimed", grant |-> TRUE]
            lost == [outcome |-> "failed", grant |-> TRUE]
            hidden == [outcome |-> "rejected", grant |-> TRUE]
            replayed == [outcome |-> "replayed", grant |-> FALSE]
            expired == [outcome |-> "expired", grant |-> FALSE]
<1>. DEFINE Holds(w) == /\ w.grant \in BOOLEAN /\ (w.grant => s = "CLAIMABLE")
                        /\ (w.outcome = "replayed" => s = "CLAIMED")
<1>0. Holds(failed) /\ Holds(rejected) /\ Holds(expired)
      /\ (s = "CLAIMABLE" => Holds(claimed) /\ Holds(lost) /\ Holds(hidden))
      /\ (s = "CLAIMED" => Holds(replayed))
  OBVIOUS
<1> HIDE DEF failed, rejected, claimed, lost, hidden, replayed, expired, Holds
<1>1. CASE s = "CLAIMABLE"
  <2>1. Answers(s) = {failed, rejected} \cup {claimed, lost, hidden}
    BY <1>1 DEF Answers, failed, rejected, claimed, lost, hidden
  <2>2. Holds(answer)
    BY <1>0, <1>1, <2>1
  <2> QED
    BY <2>2 DEF Holds
<1>2. CASE s = "CLAIMED"
  <2>1. Answers(s) = {failed, rejected} \cup {replayed}
    BY <1>2 DEF Answers, failed, rejected, replayed
  <2>2. Holds(answer)
    BY <1>0, <1>2, <2>1
  <2> QED
    BY <2>2 DEF Holds
<1>3. CASE s = "EXPIRED"
  <2>1. Answers(s) = {failed, rejected} \cup {expired}
    BY <1>3 DEF Answers, failed, rejected, expired
  <2>2. Holds(answer)
    BY <1>0, <1>3, <2>1
  <2> QED
    BY <2>2 DEF Holds
<1> QED
  BY <1>1, <1>2, <1>3 DEF Statuses

\* What a claim changes: the entry claimed, and the actor's own rival.
LEMMA PostFacts ==
    ASSUME TypeOK, NEW p \in Requests \cup {Claimer}, NEW a \in Accounts, NEW c \in Offers,
           NEW answer \in Answers(status[a][c]), Post(p, a, c, answer)
    PROVE  /\ status' \in [Accounts -> [Offers -> Statuses]]
           /\ by' \in [Accounts -> [Offers -> Grantees]]
           /\ rival' \in [Requests \cup {Claimer} -> Grantees]
           /\ \A b \in Accounts, e \in Offers :
                \/ status'[b][e] = status[b][e] /\ by'[b][e] = by[b][e]
                \/ b = a /\ e = c /\ by'[b][e] = p
           /\ \A q \in Requests \cup {Claimer} :
                \/ rival'[q] = rival[q]
                \/ q = p /\ status[a][c] = "CLAIMED" /\ rival'[q] = by[a][c]
<1>1. /\ status \in [Accounts -> [Offers -> Statuses]]
      /\ by \in [Accounts -> [Offers -> Grantees]]
      /\ rival \in [Requests \cup {Claimer} -> Grantees]
  BY DEF TypeOK
<1>2. answer.grant \in BOOLEAN /\ (answer.outcome = "replayed" => status[a][c] = "CLAIMED")
  BY <1>1, AnswerFacts
<1>3. "CLAIMED" \in Statuses /\ p \in Grantees /\ by[a][c] \in Grantees
  BY <1>1 DEF Statuses, Grantees
<1>4. /\ rival' \in [Requests \cup {Claimer} -> Grantees]
      /\ \A q \in Requests \cup {Claimer} :
           \/ rival'[q] = rival[q]
           \/ q = p /\ status[a][c] = "CLAIMED" /\ rival'[q] = by[a][c]
  <2>1. CASE answer.outcome = "replayed"
    <3>1. rival' = [rival EXCEPT ![p] = by[a][c]]
      BY <2>1 DEF Post
    <3> QED
      BY <2>1, <3>1, <1>1, <1>2, <1>3
  <2>2. CASE answer.outcome # "replayed"
    BY <2>2, <1>1 DEF Post
  <2> QED
    BY <2>1, <2>2
<1>5. CASE answer.grant
  <2>1. /\ status' = [status EXCEPT ![a] = [status[a] EXCEPT ![c] = "CLAIMED"]]
        /\ by' = [by EXCEPT ![a] = [by[a] EXCEPT ![c] = p]]
    BY <1>5 DEF Post
  <2>2. /\ status' \in [Accounts -> [Offers -> Statuses]]
        /\ by' \in [Accounts -> [Offers -> Grantees]]
    BY <2>1, <1>1, <1>3
  <2>3. \A b \in Accounts, e \in Offers :
           \/ status'[b][e] = status[b][e] /\ by'[b][e] = by[b][e]
           \/ b = a /\ e = c /\ by'[b][e] = p
    BY <2>1, <1>1, <1>3
  <2> QED
    BY <2>2, <2>3, <1>4
<1>6. CASE ~answer.grant
  <2>1. status' = status /\ by' = by
    BY <1>6 DEF Post
  <2> QED
    BY <2>1, <1>1, <1>4
<1> QED
  BY <1>2, <1>5, <1>6

\* The calendar's part of the types, of which every other part is independent.
LEMMA InitTypes == Init => TypeOK
  BY CampaignsAssumption DEF Init, TypeOK, Idle, RequestState, Statuses, Grantees

\* A request only takes steps within its type.
LEMMA RequestTypes ==
    ASSUME TypeOK, NEW r \in Requests, Manage(r)
    PROVE  /\ req' \in [Requests -> RequestState] /\ mu' \in Requests \cup {Nobody}
           /\ \A q \in Requests : req'[q].at \in {"resolve", "fetch", "claim"} /\ req'[q].kind = "claim"
                                    => req'[q].acct \in Accounts /\ req'[q].offer \in Offers
<1>. DEFINE Ready(w) == w.at \in {"resolve", "fetch", "claim"} /\ w.kind = "claim"
                           => w.acct \in Accounts /\ w.offer \in Offers
<1>1. /\ req \in [Requests -> RequestState] /\ mu \in Requests \cup {Nobody}
      /\ \A q \in Requests : Ready(req[q])
  BY DEF TypeOK
<1>2. SUFFICES /\ mu' \in Requests \cup {Nobody}
               /\ \E w \in RequestState : Ready(w) /\ req' = [req EXCEPT ![r] = w]
  BY <1>1
<1>3. Done \in RequestState /\ Ready(Done)
  BY DEF Done, Idle, RequestState, Statuses
<1>4. CASE Arrives(r)
  <2>1. [Idle EXCEPT !.at = "waits"] \in RequestState /\ Ready([Idle EXCEPT !.at = "waits"])
    BY DEF Idle, RequestState, Statuses
  <2> QED
    BY <1>1, <1>3, <1>4, <2>1 DEF Arrives, Goes
<1>5. CASE Lock(r)
  <2>1. ASSUME NEW kind \in {"list", "activity"}
        PROVE  /\ [Idle EXCEPT !.at = "resolve", !.kind = kind] \in RequestState
               /\ Ready([Idle EXCEPT !.at = "resolve", !.kind = kind])
    BY DEF Idle, RequestState, Statuses
  <2>2. ASSUME NEW a \in Accounts, NEW c \in Offers
        PROVE  /\ [Idle EXCEPT !.at = "resolve", !.kind = "claim", !.acct = a, !.offer = c] \in RequestState
               /\ Ready([Idle EXCEPT !.at = "resolve", !.kind = "claim", !.acct = a, !.offer = c])
    BY DEF Idle, RequestState, Statuses
  <2> QED
    BY <1>1, <1>5, <2>1, <2>2 DEF Lock, Goes
<1>6. CASE resolveCredential(r)
  <2>1. req[r].at = "resolve" => /\ [req[r] EXCEPT !.at = "fetch"] \in RequestState
                                 /\ Ready([req[r] EXCEPT !.at = "fetch"])
    BY <1>1 DEF RequestState
  <2> QED
    BY <1>1, <1>3, <1>6, <2>1 DEF resolveCredential, Reply, Goes
<1>7. CASE FetchForClaim(r)
  <2>. DEFINE shown == status[req[r].acct][req[r].offer]
  <2>1. /\ req[r].at = "fetch" /\ req[r].kind = "claim"
        /\ \/ mu' = Nobody /\ req' = [req EXCEPT ![r] = Done]
           \/ mu' = mu /\ req' = [req EXCEPT ![r] = [req[r] EXCEPT !.at = "claim", !.shown = shown]]
    BY <1>7 DEF FetchForClaim, Reply, Goes
  <2>2. shown \in Statuses
    BY <1>1, <2>1 DEF TypeOK
  <2> HIDE DEF shown
  <2>3. /\ [req[r] EXCEPT !.at = "claim", !.shown = shown] \in RequestState
        /\ Ready([req[r] EXCEPT !.at = "claim", !.shown = shown])
    BY <1>1, <2>1, <2>2 DEF RequestState
  <2> QED
    BY <1>1, <1>3, <2>1, <2>3
<1>8. CASE FetchAndReply(r) \/ ClaimLocally(r) \/ ClaimUpstream(r)
  BY <1>3, <1>8 DEF FetchAndReply, ClaimLocally, ClaimUpstream, Reply, Goes
<1> QED
  BY <1>4, <1>5, <1>6, <1>7, <1>8 DEF Manage

\* Every step of the loop, of a request and upstream keeps the types.
LEMMA TypeStep ==
    ASSUME TypeOK, GrantInv, [Next]_vars
    PROVE  TypeOK'
<1>. USE CampaignsAssumption DEF TypeOK
<1>0. \A j \in Jitters : nextClaimAt(now, j) \in Nat
  BY NextSlot
<1>1. CASE Plan
  BY <1>0, <1>1 DEF Plan, NoRound, dayVars, reqVars, Grantees
<1>2. CASE WakeUp
  <2>1. DayOf(now) \in Nat
    BY DivMod
  <2> QED
    BY <1>2, <2>1 DEF WakeUp, reqVars
<1>3. CASE ListAuth
  <2>1. PICK list \in FileLists :
          files' = list /\ listed' = {list[i].auth : i \in {i \in DOMAIN list : list[i].qoder}} \ {NoIndex}
    BY <1>3 DEF ListAuth
  <2>2. list \in Seq([auth : Accounts \cup {NoIndex}, qoder : BOOLEAN])
    OBVIOUS
  <2>3. \A i \in DOMAIN list : list[i] \in [auth : Accounts \cup {NoIndex}, qoder : BOOLEAN]
    <3>. DEFINE File == [auth : Accounts \cup {NoIndex}, qoder : BOOLEAN]
    <3> HIDE DEF TypeOK, File
    <3>1. list \in Seq(File)
      BY <2>2 DEF File
    <3>2. \A i \in DOMAIN list : list[i] \in File
      BY <3>1, ElementOfSeq
    <3> QED
      BY <3>2 DEF File
  <2>4. listed' \subseteq Accounts
    BY <2>1, <2>3
  <2> QED
    BY <1>3, <2>1, <2>2, <2>4 DEF ListAuth, dayVars, reqVars
<1>4. CASE ListFails
  BY <1>4 DEF ListFails, dayVars, reqVars
<1>5. CASE NextFile
  <2>1. /\ files' \in Seq([auth : Accounts \cup {NoIndex}, qoder : BOOLEAN])
        /\ Head(files) \in [auth : Accounts \cup {NoIndex}, qoder : BOOLEAN]
    BY <1>5, HeadTailProperties DEF NextFile
  <2>2. CASE Skips(Head(files))
    BY <1>5, <2>1, <2>2 DEF NextFile, dayVars, reqVars
  <2>3. CASE ~Skips(Head(files))
    <3>1. Head(files).auth \in Accounts
      BY <2>1, <2>3 DEF Skips
    <3> QED
      BY <1>5, <2>1, <2>3, <3>1 DEF NextFile, dayVars, reqVars
  <2> QED
    BY <2>2, <2>3
<1>6. CASE RoundEnds
  BY <1>6 DEF RoundEnds, dayVars, reqVars
<1>7. CASE AskCredential
  BY <1>7 DEF AskCredential, dayVars, reqVars
<1>8. CASE FetchCampaigns
  BY <1>8 DEF FetchCampaigns, Claimable, dayVars, reqVars
<1>9. CASE ClaimNext
  <2>0. PICK c \in todo : /\ \E answer \in Answers(status[acct][c]) : Post(Claimer, acct, c, answer)
                          /\ todo' = todo \ {c}
    BY <1>9 DEF ClaimNext
  <2>1. PICK answer \in Answers(status[acct][c]) : Post(Claimer, acct, c, answer)
    BY <2>0
  <2>2. acct \in Accounts /\ c \in Offers
    BY <1>9 DEF ClaimNext
  <2>3. /\ status' \in [Accounts -> [Offers -> Statuses]]
        /\ by' \in [Accounts -> [Offers -> Grantees]]
        /\ rival' \in [Requests \cup {Claimer} -> Grantees]
    BY <2>1, <2>2, PostFacts
  <2> QED
    BY <1>9, <2>0, <2>3 DEF ClaimNext, dayVars, reqVars
<1>10. CASE AccountDone
  BY <1>10 DEF AccountDone, dayVars, reqVars
<1>11. ASSUME NEW r \in Requests, Manage(r) PROVE TypeOK'
  <2>1. /\ req' \in [Requests -> RequestState] /\ mu' \in Requests \cup {Nobody}
        /\ \A q \in Requests : req'[q].at \in {"resolve", "fetch", "claim"} /\ req'[q].kind = "claim"
                                 => req'[q].acct \in Accounts /\ req'[q].offer \in Offers
    BY <1>11, RequestTypes
  <2>2. CASE ~ClaimUpstream(r)
    BY <1>11, <2>1, <2>2
    DEF Manage, Arrives, Lock, resolveCredential, FetchAndReply, FetchForClaim, ClaimLocally,
        loopVars, dayVars
  <2>3. CASE ClaimUpstream(r)
    <3>1. PICK answer \in Answers(status[req[r].acct][req[r].offer]) :
            Post(r, req[r].acct, req[r].offer, answer)
      BY <2>3 DEF ClaimUpstream
    <3>2. req[r].acct \in Accounts /\ req[r].offer \in Offers
      BY <2>3 DEF ClaimUpstream, GrantInv
    <3>3. /\ status' \in [Accounts -> [Offers -> Statuses]]
          /\ by' \in [Accounts -> [Offers -> Grantees]]
          /\ rival' \in [Requests \cup {Claimer} -> Grantees]
      BY <3>1, <3>2, PostFacts
    <3> QED
      BY <2>1, <2>3, <3>3 DEF ClaimUpstream, loopVars, dayVars
  <2> QED
    BY <2>2, <2>3
<1>12. ASSUME NEW a \in Accounts, NEW c \in Offers, UserClaims(a, c) \/ RunsOut(a, c)
       PROVE  TypeOK'
  <2>. DEFINE SetTo(s) == [status EXCEPT ![a] = [status[a] EXCEPT ![c] = s]]
  <2>0. /\ "CLAIMED" \in Statuses /\ "EXPIRED" \in Statuses /\ User \in Grantees
        /\ status[a] \in [Offers -> Statuses] /\ by[a] \in [Offers -> Grantees]
    BY DEF Statuses, Grantees
  <2>1. status' \in [Accounts -> [Offers -> Statuses]]
    <3>1. status' = SetTo("CLAIMED") \/ status' = SetTo("EXPIRED")
      BY <1>12 DEF UserClaims, RunsOut
    <3>2. \A s \in Statuses : SetTo(s) \in [Accounts -> [Offers -> Statuses]]
      BY <2>0
    <3> QED
      <4> HIDE DEF SetTo, TypeOK
      <4> QED
        BY <2>0, <3>1, <3>2
  <2>2. by' \in [Accounts -> [Offers -> Grantees]]
    <3>. DEFINE taken == [by[a] EXCEPT ![c] = User]
    <3>1. by' = by \/ by' = [by EXCEPT ![a] = taken]
      BY <1>12 DEF UserClaims, RunsOut
    <3>2. taken \in [Offers -> Grantees] /\ by \in [Accounts -> [Offers -> Grantees]]
      BY <2>0
    <3> HIDE DEF taken, TypeOK
    <3> QED
      BY <3>1, <3>2
  <2> QED
    BY <1>12, <2>1, <2>2 DEF UserClaims, RunsOut, loopVars, dayVars, reqVars
<1>13. CASE Tick
  <2>1. now' \in Nat /\ now' = now + 1
    BY <1>13 DEF Tick
  <2>2. DayOf(now') \in Nat
    BY <2>1, DivMod
  <2>3. status' \in [Accounts -> [Offers -> Statuses]]
    BY <1>13 DEF Tick, Statuses
  <2>4. by' \in [Accounts -> [Offers -> Grantees]]
    BY <1>13 DEF Tick, Grantees
  <2>5. excused' \subseteq Nat
    BY <1>13, <2>2 DEF Tick
  <2> QED
    BY <1>13, <2>1, <2>3, <2>4, <2>5 DEF Tick, loopVars, reqVars
<1>14. CASE Restart
  <2>1. DayOf(now) \in Nat
    BY DivMod
  <2>2. Idle \in RequestState /\ Idle.at = "idle"
    BY DEF Idle, RequestState, Statuses
  <2>3. excused' \subseteq Nat
    BY <1>14, <2>1 DEF Restart
  <2>4. req' = [q \in Requests |-> Idle]
    BY <1>14 DEF Restart
  <2>5. /\ req' \in [Requests -> RequestState]
        /\ \A q \in Requests : req'[q].at \in {"resolve", "fetch", "claim"} /\ req'[q].kind = "claim"
                                 => req'[q].acct \in Accounts /\ req'[q].offer \in Offers
    BY <2>2, <2>4
  <2>6. rival' \in [Requests \cup {Claimer} -> Grantees]
    BY <1>14 DEF Restart, NoRound, Grantees
  <2> QED
    BY <1>14, <2>3, <2>5, <2>6 DEF Restart, NoRound
<1>15. CASE UNCHANGED vars
  BY <1>15 DEF vars, loopVars, dayVars, reqVars
<1> QED
  BY <1>1, <1>2, <1>3, <1>4, <1>5, <1>6, <1>7, <1>8, <1>9, <1>10, <1>11, <1>12, <1>13, <1>14, <1>15
  DEF Next, Loop, claimAll

----------------------------------------------------------------------------
(* A round.                                                                 *)

\* The accounts ahead are the next file's and those behind it.
LEMMA Ahead ==
    ASSUME NEW fs \in Seq([auth : Accounts \cup {NoIndex}, qoder : BOOLEAN]), fs # <<>>,
           NEW i \in DOMAIN fs, fs[i].qoder
    PROVE  \/ fs[i] = Head(fs)
           \/ \E k \in DOMAIN Tail(fs) : Tail(fs)[k].qoder /\ Tail(fs)[k].auth = fs[i].auth
<1>1. CASE i = 1
  BY <1>1
<1>2. CASE i # 1
  <2>1. i - 1 \in 1 .. Len(Tail(fs)) /\ Tail(fs)[i - 1] = fs[i]
    BY <1>2, HeadTailProperties
  <2>2. DOMAIN Tail(fs) = 1 .. Len(Tail(fs))
    BY HeadTailProperties, LenProperties
  <2> QED
    BY <2>1, <2>2
<1> QED
  BY <1>1, <1>2

\* Every step keeps count of the accounts of a round (claimAll).
LEMMA RoundStep ==
    ASSUME TypeOK, RoundInv, [Next]_vars
    PROVE  RoundInv'
<1>0. /\ files \in Seq([auth : Accounts \cup {NoIndex}, qoder : BOOLEAN])
      /\ seen \subseteq Accounts /\ listed \subseteq Accounts /\ tried \in [Accounts -> Nat]
      /\ pc \in {"credential", "fetch", "claim"} => acct \in Accounts
      /\ pc \in {"plan", "sleep", "list", "file", "credential", "fetch", "claim"}
      /\ NoIndex \notin Accounts
  BY CampaignsAssumption DEF TypeOK
<1>. USE DEF RoundInv
<1>1. CASE Plan
  BY <1>1 DEF Plan, NoRound
<1>2. CASE WakeUp
  BY <1>2 DEF WakeUp
<1>3. CASE ListAuth
  BY <1>3 DEF ListAuth
<1>4. CASE ListFails
  BY <1>4 DEF ListFails
<1>5. CASE NextFile
  <2>0. pc = "file" /\ files # <<>> /\ files' = Tail(files) /\ tried' = tried /\ listed' = listed
    BY <1>5 DEF NextFile
  <2>1. ASSUME NEW a \in listed, a \notin seen
        PROVE  \/ Head(files).qoder /\ Head(files).auth = a
               \/ \E k \in DOMAIN Tail(files) : Tail(files)[k].qoder /\ Tail(files)[k].auth = a
    <3>1. PICK i \in DOMAIN files : files[i].qoder /\ files[i].auth = a
      BY <2>0, <2>1
    <3> QED
      BY <1>0, <2>0, <3>1, Ahead
  <2>2. CASE Skips(Head(files))
    <3>1. pc' = pc /\ acct' = acct /\ seen' = seen
      BY <1>5, <2>2 DEF NextFile
    <3>2. \A a \in listed : a \in seen
            \/ \E k \in DOMAIN Tail(files) : Tail(files)[k].qoder /\ Tail(files)[k].auth = a
      BY <1>0, <2>1, <2>2 DEF Skips
    <3> QED
      BY <2>0, <3>1, <3>2
  <2>3. CASE ~Skips(Head(files))
    <3>1. pc' = "credential" /\ acct' = Head(files).auth /\ seen' = seen \cup {acct'}
      BY <1>5, <2>3 DEF NextFile
    <3>2. Head(files) \in [auth : Accounts \cup {NoIndex}, qoder : BOOLEAN]
      BY <1>0, <2>0, HeadTailProperties
    <3>3. Head(files).auth \in Accounts /\ Head(files).auth \notin seen
      BY <2>3, <3>2 DEF Skips
    <3>4. \A a \in listed : a \in seen'
            \/ \E k \in DOMAIN Tail(files) : Tail(files)[k].qoder /\ Tail(files)[k].auth = a
      BY <2>1, <3>1
    <3> QED
      BY <1>0, <2>0, <3>1, <3>3, <3>4
  <2> QED
    BY <2>2, <2>3
<1>6. CASE RoundEnds
  BY <1>6 DEF RoundEnds
<1>7. CASE AskCredential
  BY <1>0, <1>7 DEF AskCredential
<1>8. CASE FetchCampaigns
  BY <1>8 DEF FetchCampaigns
<1>9. CASE AccountDone
  BY <1>9 DEF AccountDone
<1>10. CASE Restart
  BY <1>10 DEF Restart, NoRound
<1>11. CASE UNCHANGED <<pc, files, seen, acct, tried, listed>>
  BY <1>11
<1>12. CASE ClaimNext \/ Tick \/ UNCHANGED vars
  BY <1>11, <1>12 DEF ClaimNext, Tick, vars, loopVars
<1>13. ASSUME NEW r \in Requests, Manage(r) PROVE RoundInv'
  BY <1>11, <1>13
  DEF Manage, Arrives, Lock, resolveCredential, FetchAndReply, FetchForClaim, ClaimLocally,
      ClaimUpstream, loopVars
<1>14. ASSUME NEW a \in Accounts, NEW c \in Offers, UserClaims(a, c) \/ RunsOut(a, c)
       PROVE  RoundInv'
  BY <1>11, <1>14 DEF UserClaims, RunsOut, loopVars
<1> QED
  BY <1>1, <1>2, <1>3, <1>4, <1>5, <1>6, <1>7, <1>8, <1>9, <1>10, <1>12, <1>13, <1>14
  DEF Next, Loop, claimAll

----------------------------------------------------------------------------
(* Who was granted what.                                                    *)

\* Only the loop and the holder of the mutex post a claim, and neither is recorded as granted
\* what it has still to claim; so what a replayed claim meets is somebody else's.
LEMMA GrantStep ==
    ASSUME TypeOK, GrantInv, ReplayComesFromOutside, [Next]_vars
    PROVE  GrantInv' /\ ReplayComesFromOutside'
<1>0. /\ Claimer \notin Requests /\ User \notin Requests \cup {Claimer}
      /\ Nobody \notin Requests \cup {Claimer, User} /\ Benefits \subseteq Offers
  BY CampaignsAssumption
<1>t. /\ status \in [Accounts -> [Offers -> Statuses]] /\ by \in [Accounts -> [Offers -> Grantees]]
      /\ rival \in [Requests \cup {Claimer} -> Grantees] /\ todo \subseteq Benefits
      /\ pc \in {"credential", "fetch", "claim"} => acct \in Accounts
      /\ req \in [Requests -> RequestState]
      /\ \A r \in Requests : req[r].at \in {"resolve", "fetch", "claim"} /\ req[r].kind = "claim"
                            => req[r].acct \in Accounts /\ req[r].offer \in Offers
  BY DEF TypeOK
<1>. USE DEF GrantInv, ReplayComesFromOutside
<1>1. CASE UNCHANGED <<status, by, mu, req>> /\ pc' # "claim"
           /\ (rival' = rival \/ rival' = [rival EXCEPT ![Claimer] = Nobody])
  BY <1>1, <1>0, <1>t
<1>2. CASE Plan \/ WakeUp \/ ListAuth \/ ListFails \/ NextFile \/ RoundEnds \/ AskCredential \/ AccountDone
  BY <1>1, <1>2
  DEF Plan, WakeUp, ListAuth, ListFails, NextFile, RoundEnds, AskCredential, AccountDone, NoRound, reqVars
<1>3. CASE FetchCampaigns
  BY <1>3, <1>t DEF FetchCampaigns, Claimable, reqVars
<1>4. CASE ClaimNext
  <2>0. PICK c \in todo : /\ \E answer \in Answers(status[acct][c]) : Post(Claimer, acct, c, answer)
                          /\ todo' = todo \ {c}
    BY <1>4 DEF ClaimNext
  <2>1. PICK answer \in Answers(status[acct][c]) : Post(Claimer, acct, c, answer)
    BY <2>0
  <2>2. acct \in Accounts /\ c \in Offers /\ pc = "claim"
    BY <1>0, <1>t, <1>4 DEF ClaimNext
  <2>3. /\ \A b \in Accounts, e \in Offers :
             \/ status'[b][e] = status[b][e] /\ by'[b][e] = by[b][e]
             \/ b = acct /\ e = c /\ by'[b][e] = Claimer
        /\ \A q \in Requests \cup {Claimer} :
             \/ rival'[q] = rival[q]
             \/ q = Claimer /\ status[acct][c] = "CLAIMED" /\ rival'[q] = by[acct][c]
    BY <2>1, <2>2, PostFacts
  <2>4. UNCHANGED <<pc, acct, mu, req>>
    BY <1>4 DEF ClaimNext, reqVars
  <2>5. rival'[Claimer] # Claimer /\ \A r \in Requests : rival'[r] \notin Requests
    BY <1>0, <2>0, <2>2, <2>3
  <2>6. pc' = "claim" => \A e \in todo' : status'[acct'][e] = "CLAIMED" => by'[acct'][e] # Claimer
    BY <1>0, <1>t, <2>0, <2>2, <2>3, <2>4
  <2>7. ASSUME NEW r \in Requests, req[r].at = "claim"
        PROVE  /\ req[r].kind = "claim"
               /\ req[r].shown = "CLAIMABLE" /\ status'[req[r].acct][req[r].offer] = "CLAIMED"
                    => by'[req[r].acct][req[r].offer] \notin Requests
    <3>1. req[r].kind = "claim" /\ req[r].acct \in Accounts /\ req[r].offer \in Offers
      BY <1>t, <2>7
    <3> QED
      BY <1>0, <2>3, <2>7, <3>1
  <2> QED
    BY <2>4, <2>5, <2>6, <2>7
<1>5. ASSUME NEW r \in Requests, Manage(r) PROVE GrantInv' /\ ReplayComesFromOutside'
  <2>0. UNCHANGED <<pc, acct, todo>>
    BY <1>5
    DEF Manage, Arrives, Lock, resolveCredential, FetchAndReply, FetchForClaim, ClaimLocally,
        ClaimUpstream, loopVars
  <2>a. Done.at = "done"
    BY DEF Done, Idle
  <2>1. CASE Arrives(r)
    <3>1. [Idle EXCEPT !.at = "waits"].at = "waits"
      BY DEF Idle
    <3> QED
      BY <1>t, <2>0, <2>1, <2>a, <3>1 DEF Arrives, Goes
  <2>2. CASE Lock(r)
    <3>1. PICK w : w.at = "resolve" /\ req' = [req EXCEPT ![r] = w]
      BY <2>2 DEF Lock, Goes, Idle
    <3>2. \A q \in Requests : q # r => req[q].at \notin {"resolve", "fetch", "claim"}
      BY <1>0, <2>2 DEF Lock
    <3> QED
      BY <1>t, <2>0, <2>2, <3>1, <3>2 DEF Lock
  <2>3. CASE resolveCredential(r)
    <3>1. [req[r] EXCEPT !.at = "fetch"].at = "fetch"
      BY <1>t DEF RequestState
    <3> QED
      BY <1>t, <2>0, <2>3, <2>a, <3>1 DEF resolveCredential, Reply, Goes
  <2>4. CASE FetchAndReply(r) \/ ClaimLocally(r)
    BY <1>t, <2>0, <2>4, <2>a DEF FetchAndReply, ClaimLocally, Reply, Goes
  <2>5. CASE FetchForClaim(r)
    <3>. DEFINE w == [req[r] EXCEPT !.at = "claim", !.shown = status[req[r].acct][req[r].offer]]
    <3>1. /\ w.at = "claim" /\ w.kind = req[r].kind /\ w.acct = req[r].acct /\ w.offer = req[r].offer
          /\ w.shown = status[req[r].acct][req[r].offer]
      BY <1>t DEF RequestState
    <3>2. /\ req[r].at = "fetch" /\ req[r].kind = "claim" /\ UNCHANGED <<status, by, rival>>
          /\ \/ mu' = Nobody /\ req' = [req EXCEPT ![r] = Done]
             \/ mu' = mu /\ req' = [req EXCEPT ![r] = w]
      BY <2>5 DEF FetchForClaim, Reply, Goes
    <3> HIDE DEF w
    <3>3. ASSUME mu' = mu, req' = [req EXCEPT ![r] = w] PROVE GrantInv'
      <4>1. \A q \in Requests : q # r => req'[q] = req[q]
        BY <1>t, <3>3
      <4>2. req'[r] = w
        BY <1>t, <3>3
      <4>3. w.shown = "CLAIMABLE" => status[w.acct][w.offer] # "CLAIMED"
        BY <3>1
      <4> QED
        BY <1>t, <2>0, <3>1, <3>2, <3>3, <4>1, <4>2, <4>3
    <3>4. ASSUME mu' = Nobody, req' = [req EXCEPT ![r] = Done] PROVE GrantInv'
      BY <1>t, <2>0, <2>a, <3>2, <3>4
    <3> QED
      BY <3>2, <3>3, <3>4
  <2>6. CASE ClaimUpstream(r)
    <3>. DEFINE a == req[r].acct
                c == req[r].offer
    <3>1. PICK answer \in Answers(status[a][c]) : Post(r, a, c, answer)
      BY <2>6 DEF ClaimUpstream
    <3>2. /\ a \in Accounts /\ c \in Offers
          /\ status[a][c] = "CLAIMED" => by[a][c] \notin Requests
      BY <1>t, <2>6 DEF ClaimUpstream
    <3>3. /\ \A b \in Accounts, e \in Offers :
               \/ status'[b][e] = status[b][e] /\ by'[b][e] = by[b][e]
               \/ b = a /\ e = c /\ by'[b][e] = r
          /\ \A q \in Requests \cup {Claimer} :
               \/ rival'[q] = rival[q]
               \/ q = r /\ status[a][c] = "CLAIMED" /\ rival'[q] = by[a][c]
      BY <3>1, <3>2, PostFacts
    <3>4. mu' = Nobody /\ req' = [req EXCEPT ![r] = Done] /\ mu = r
      BY <2>6 DEF ClaimUpstream, Reply, Goes
    <3>5. \A q \in Requests : req'[q].at \notin {"resolve", "fetch", "claim"}
      BY <1>t, <2>a, <3>4
    <3>6. pc' = "claim" => \A e \in todo' : status'[acct'][e] = "CLAIMED" => by'[acct'][e] # Claimer
      BY <1>0, <1>t, <2>0, <3>3
    <3>7. rival'[Claimer] # Claimer /\ \A q \in Requests : rival'[q] \notin Requests
      BY <1>0, <3>2, <3>3
    <3> QED
      BY <3>5, <3>6, <3>7
  <2> QED
    BY <1>5, <2>1, <2>2, <2>3, <2>4, <2>5, <2>6 DEF Manage
<1>6. ASSUME NEW a \in Accounts, NEW c \in Offers, UserClaims(a, c) \/ RunsOut(a, c)
      PROVE  GrantInv' /\ ReplayComesFromOutside'
  <2>1. \A b \in Accounts, e \in Offers :
          \/ status'[b][e] = status[b][e] /\ by'[b][e] = by[b][e]
          \/ status'[b][e] = "EXPIRED" \/ by'[b][e] = User
    BY <1>6, <1>t DEF UserClaims, RunsOut
  <2>2. UNCHANGED <<pc, acct, todo, mu, req, rival>>
    BY <1>6 DEF UserClaims, RunsOut, loopVars, reqVars
  <2>3. \A b \in Accounts, e \in Offers :
           status'[b][e] = "CLAIMED" => \/ status[b][e] = "CLAIMED" /\ by'[b][e] = by[b][e]
                                       \/ by'[b][e] \notin Requests \cup {Claimer}
    BY <1>0, <2>1
  <2> QED
    BY <1>0, <1>t, <2>2, <2>3
<1>7. CASE Tick
  <2>1. \/ status' = status /\ by' = by
        \/ \A a \in Accounts, c \in Offers : status'[a][c] = "CLAIMABLE"
    BY <1>7 DEF Tick
  <2>2. UNCHANGED <<pc, acct, todo, mu, req, rival>>
    BY <1>7 DEF Tick, loopVars, reqVars
  <2> QED
    BY <1>0, <1>t, <2>1, <2>2
<1>8. CASE Restart
  <2>1. Idle.at = "idle"
    BY DEF Idle
  <2> QED
    BY <1>0, <1>t, <1>8, <2>1 DEF Restart, NoRound
<1>9. CASE UNCHANGED vars
  BY <1>9 DEF vars, loopVars, reqVars
<1> QED
  BY <1>2, <1>3, <1>4, <1>5, <1>6, <1>7, <1>8, <1>9 DEF Next, Loop, claimAll

----------------------------------------------------------------------------
(* Where the loop is in the calendar.                                       *)

\* The day and the hour of a moment within a slot.
LEMMA InSlot ==
    ASSUME NEW d \in Nat, NEW j \in Jitters, NEW t \in Nat,
           SlotStart(d) <= t, t <= SlotStart(d) + j
    PROVE  DayOf(t) = d /\ t % DayLen = t - d * DayLen /\ t % DayLen >= ClaimHour
<1>. DEFINE start == d * DayLen
            x == t - start
<1>1. /\ start \in Nat /\ ClaimHour \in Nat /\ ClaimHour + j \in 0 .. DayLen - 1 /\ j \in Nat
      /\ SlotStart(d) = start + ClaimHour
  BY Product, SlotFacts, CampaignsAssumption
<1> HIDE DEF start
<1>2. x \in 0 .. DayLen - 1 /\ x >= ClaimHour /\ t = start + x
  BY <1>1, CampaignsAssumption
<1> HIDE DEF x
<1>3. t = d * DayLen + x
  BY <1>2 DEF start
<1>4. DayOf(t) = d /\ t % DayLen = x
  BY <1>2, <1>3, DayIs
<1> QED
  BY <1>2, <1>4 DEF x, start

\* Every step keeps the loop's place in the calendar (startCampaignsOps).
LEMMA SlotStep ==
    ASSUME TypeOK, SlotInv, [Next]_vars
    PROVE  SlotInv'
<1>0. /\ now \in Nat /\ next \in Nat /\ ClaimHour \in Nat /\ DayLen \in Nat /\ Jitters \subseteq Nat
      /\ \A d \in Int : SlotStart(d) \in Int
  <2>1. \A d \in Int : SlotStart(d) \in Int
    BY Product, CampaignsAssumption DEF SlotStart
  <2> QED
    BY <2>1, CampaignsAssumption DEF TypeOK
<1>1. CASE Plan
  <2>1. PICK j \in Jitters : next' = nextClaimAt(now, j)
    BY <1>1 DEF Plan
  <2>2. /\ now < next'
        /\ \E d \in Nat : next' = SlotStart(d) + j /\ SlotStart(d - 1) <= now
    BY <1>0, <2>1, NextSlot
  <2> QED
    BY <1>0, <1>1, <2>1, <2>2 DEF Plan, SlotInv, dayVars
<1>2. CASE WakeUp
  <2>1. pc = "sleep" /\ pc' = "list" /\ now' = now /\ excused' = excused /\ now = next
    BY <1>0, <1>2 DEF WakeUp, SlotInv
  <2>2. ASSUME NEW d \in Nat, SlotStart(d) <= now PROVE d \in ran' \cup excused'
    <3>1. CASE d \in ran \cup excused
      BY <1>2, <2>1, <3>1 DEF WakeUp
    <3>2. CASE \E j \in Jitters : next = SlotStart(d) + j
      <4>1. PICK j \in Jitters : next = SlotStart(d) + j
        BY <3>2
      <4>2. now <= SlotStart(d) + j
        BY <1>0, <2>1, <4>1
      <4>3. DayOf(now) = d
        BY <1>0, <2>2, <4>2, InSlot
      <4> QED
        BY <1>2, <4>3 DEF WakeUp
    <3> QED
      BY <2>2, <3>1, <3>2 DEF SlotInv
  <2> QED
    BY <2>1, <2>2 DEF SlotInv
<1>3. CASE /\ UNCHANGED <<now, ran, excused>>
           /\ (pc # "sleep" /\ pc' # "sleep") \/ UNCHANGED <<pc, next>>
  BY <1>3 DEF SlotInv
<1>4. CASE Tick
  <2>1. now' = now + 1 /\ UNCHANGED <<pc, next, ran>> /\ excused \subseteq excused' /\ now' \in Nat
    BY <1>0, <1>4 DEF Tick, loopVars
  <2>2. pc = "sleep" => now' <= next
    BY <1>0, <1>4, <2>1 DEF Tick
  <2>3. pc = "sleep" => \E d \in Nat, j \in Jitters : next = SlotStart(d) + j /\ SlotStart(d - 1) <= now'
    BY <1>0, <2>1 DEF SlotInv
  <2>4. ASSUME NEW d \in Nat, SlotStart(d) <= now', ~(SlotStart(d) <= now)
        PROVE  \/ d \in excused'
               \/ pc = "sleep" /\ \E j \in Jitters : next = SlotStart(d) + j
    <3>0. SlotStart(d) = now' /\ SlotStart(d) > now
      BY <1>0, <2>1, <2>4
    <3>1. CASE pc = "sleep"
      <4>1. PICK e \in Nat, j \in Jitters : next = SlotStart(e) + j /\ SlotStart(e - 1) <= now
        BY <3>1 DEF SlotInv
      <4>2. SlotStart(e - 1) < SlotStart(d)
        BY <1>0, <3>0, <4>1
      <4>3. e - 1 < d
        BY <4>2, SlotOrder
      <4>4. SlotStart(d) <= SlotStart(e) + j
        BY <2>2, <3>0, <3>1, <4>1
      <4>5. d <= e
        <5>1. d * DayLen + ClaimHour <= e * DayLen + (ClaimHour + j)
          BY <1>0, <4>4, Product DEF SlotStart
        <5>2. ClaimHour \in 0 .. DayLen - 1 /\ ClaimHour + j \in 0 .. DayLen - 1
          BY CampaignsAssumption
        <5> QED
          BY <5>1, <5>2, DayOrder
      <4>6. d = e
        BY <4>3, <4>5
      <4> QED
        BY <3>1, <4>1, <4>6
    <3>2. CASE pc # "sleep"
      <4>1. PICK j \in Jitters : TRUE
        BY CampaignsAssumption
      <4>2. j \in Nat /\ SlotStart(d) <= now' /\ now' <= SlotStart(d) + j
        BY <1>0, <2>1, <3>0
      <4>3. DayOf(now') = d /\ now' % DayLen = now' - d * DayLen
        BY <2>1, <4>2, InSlot
      <4>4. now' % DayLen = ClaimHour
        BY <1>0, <3>0, <4>3, Product DEF SlotStart
      <4> QED
        BY <1>4, <3>2, <4>3, <4>4 DEF Tick
    <3> QED
      BY <3>1, <3>2
  <2>5. ASSUME NEW d \in Nat, SlotStart(d) <= now'
        PROVE  \/ d \in ran \cup excused'
               \/ pc = "sleep" /\ \E j \in Jitters : next = SlotStart(d) + j
    BY <2>1, <2>4, <2>5 DEF SlotInv
  <2> QED
    BY <2>1, <2>2, <2>3, <2>5 DEF SlotInv
<1>5. CASE Restart
  <2>1. /\ pc' = "plan" /\ UNCHANGED <<now, ran>>
        /\ excused' = IF now % DayLen >= ClaimHour THEN excused \cup {DayOf(now)} ELSE excused
    BY <1>5 DEF Restart
  <2>2. ASSUME NEW d \in Nat, SlotStart(d) <= now PROVE d \in ran \cup excused'
    <3>1. CASE d \in ran \cup excused
      BY <2>1, <3>1
    <3>2. CASE pc = "sleep" /\ \E j \in Jitters : next = SlotStart(d) + j
      <4>1. PICK j \in Jitters : next = SlotStart(d) + j
        BY <3>2
      <4>2. now <= SlotStart(d) + j
        BY <3>2, <4>1 DEF SlotInv
      <4>3. DayOf(now) = d /\ now % DayLen >= ClaimHour
        BY <1>0, <2>2, <4>2, InSlot
      <4> QED
        BY <2>1, <4>3
    <3> QED
      BY <2>2, <3>1, <3>2 DEF SlotInv
  <2> QED
    BY <2>1, <2>2 DEF SlotInv
<1>6. CASE claimAll
  BY <1>3, <1>6
  DEF claimAll, ListAuth, ListFails, NextFile, RoundEnds, AskCredential, FetchCampaigns, ClaimNext,
      AccountDone, dayVars
<1>7. ASSUME NEW r \in Requests, Manage(r) PROVE SlotInv'
  BY <1>3, <1>7
  DEF Manage, Arrives, Lock, resolveCredential, FetchAndReply, FetchForClaim, ClaimLocally,
      ClaimUpstream, loopVars, dayVars
<1>8. ASSUME NEW a \in Accounts, NEW c \in Offers, UserClaims(a, c) \/ RunsOut(a, c)
      PROVE  SlotInv'
  BY <1>3, <1>8 DEF UserClaims, RunsOut, loopVars, dayVars
<1>9. CASE UNCHANGED vars
  BY <1>3, <1>9 DEF vars, loopVars, dayVars
<1> QED
  BY <1>1, <1>2, <1>4, <1>5, <1>6, <1>7, <1>8, <1>9 DEF Next, Loop

----------------------------------------------------------------------------
(* The invariant and the theorems.                                          *)

\* The plugin starts with a slot ahead that no round has used.
LEMMA InitInv == Init => Inv
<1> SUFFICES ASSUME Init PROVE Inv
  OBVIOUS
<1>1. TypeOK
  BY InitTypes
<1>2. RoundInv
  BY DEF Init, RoundInv
<1>3. GrantInv /\ ReplayComesFromOutside
  BY CampaignsAssumption DEF Init, Idle, GrantInv, ReplayComesFromOutside
<1>4. SlotInv
  <2>1. \A d \in Nat : SlotStart(d) > 0 /\ SlotStart(d) \in Int
    BY Product, CampaignsAssumption DEF SlotStart
  <2> QED
    BY <2>1 DEF Init, SlotInv
<1> QED
  BY <1>1, <1>2, <1>3, <1>4 DEF Inv

\* The invariant is inductive.
LEMMA StepInv == Inv /\ [Next]_vars => Inv'
  BY TypeStep, RoundStep, GrantStep, SlotStep DEF Inv

\* Inv holds in every reachable state, restarts of the plugin included.
THEOREM Invariance == Spec => []Inv
  BY InitInv, StepInv, PTL DEF Spec

\* The clock, the loop of ops_campaigns.go, the requests and the status upstream keep their types.
THEOREM TypeCorrect == Spec => []TypeOK
<1>1. Inv => TypeOK
  BY DEF Inv
<1> QED
  BY <1>1, Invariance, PTL

\* However long the list, whatever it repeats and whatever fails: a round that has ended asked
\* for the credential of every listed account, once (claimAll).
THEOREM NobodyIsSkipped == Spec => []EveryAccountTried
<1>1. Inv => EveryAccountTried
  <2> SUFFICES ASSUME Inv PROVE EveryAccountTried
    OBVIOUS
  <2>1. \A a \in Accounts : tried[a] = 0 \/ tried[a] = 1
    BY DEF Inv, RoundInv
  <2>2. pc = "plan" => \A a \in listed : tried[a] = 1
    BY DEF Inv, RoundInv
  <2> QED
    BY <2>1, <2>2 DEF EveryAccountTried
<1> QED
  BY <1>1, Invariance, PTL

\* With any number of management requests beside the loop, a claim that is answered "already
\* claimed" met neither the actor's own grant nor, for a request, another request's
\* (managementService.mu).
THEOREM ReplaysAreOthers == Spec => []ReplayComesFromOutside
<1>1. Inv => ReplayComesFromOutside
  BY DEF Inv
<1> QED
  BY <1>1, Invariance, PTL

\* For any length of the day, hour and jitter that stay within it: no slot passes without a
\* round if the loop was asleep when it began (nextClaimAt, startCampaignsOps).
THEOREM EveryDayHasItsRound == Spec => []NoDayMissed
<1>1. Inv => NoDayMissed
  <2> SUFFICES ASSUME Inv, NEW d \in 0 .. DayOf(now),
                      \A j \in Jitters : now > d * DayLen + ClaimHour + j
               PROVE  d \in ran \cup excused
    BY DEF NoDayMissed
  <2>. DayOf(now) \in Nat
    BY DivMod DEF Inv, TypeOK
  <2>0. /\ d \in Nat /\ now \in Nat /\ Jitters \subseteq Nat /\ ClaimHour \in Nat
        /\ d * DayLen \in Nat /\ SlotStart(d) = d * DayLen + ClaimHour
    BY Product, CampaignsAssumption DEF Inv, TypeOK, SlotStart
  <2>1. PICK j \in Jitters : TRUE
    BY CampaignsAssumption
  <2>2. SlotStart(d) <= now /\ \A i \in Jitters : now > SlotStart(d) + i
    BY <2>0, <2>1
  <2>3. ~(pc = "sleep" /\ \E i \in Jitters : next = SlotStart(d) + i)
    <3> SUFFICES ASSUME pc = "sleep", NEW i \in Jitters, next = SlotStart(d) + i PROVE FALSE
      OBVIOUS
    <3>1. now <= next /\ next \in Nat
      BY DEF Inv, SlotInv, TypeOK
    <3> QED
      BY <2>0, <2>2, <3>1
  <2> QED
    BY <2>0, <2>2, <2>3 DEF Inv, SlotInv
<1> QED
  BY <1>1, Invariance, PTL

============================================================================
