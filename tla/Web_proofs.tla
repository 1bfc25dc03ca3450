----------------------------- MODULE Web_proofs -----------------------------
(***************************************************************************)
(* What the screens promise, for every number of clicks, sends and lost    *)
(* answers.  Each part is about one screen; the last combines them.        *)
(***************************************************************************)
EXTENDS Web, TLAPS

(***************************************************************************)
(* Joining.                                                                *)
(***************************************************************************)

\* An account the API has recorded whole.
Whole(email) == \E a \in accounts : a.email = email /\ a.tier # None

SignupStep == {"sent", "exists", "account", "created", "failed"}
Request == [id : Nat, email : Email, tier : Joining!Tier, step : SignupStep]

JoinTypeOK ==
    /\ accounts \subseteq [email : Email, tier : Joining!Tier \cup {None}]
    /\ draft \in [email : Email \cup {None}, fits : BOOLEAN, accepted : BOOLEAN,
                  tier : Joining!Tier \cup {None}]
    /\ requests \subseteq Request
    /\ sends \in Nat
    /\ history \subseteq Joining!Screen

\* Where a request is says what the API holds of its email; the receipt is of an
\* account that is whole; the screens between are earned.
JoinInv ==
    /\ JoinTypeOK
    /\ \A r \in requests :
           /\ r.step = "account" => \E a \in accounts : a.email = r.email
           /\ r.step = "created" => Whole(r.email)
    /\ created # None => Whole(created)
    /\ route = "done" => created # None
    /\ route \in Joining!Step \ {"done"} =>
           Joining!Before(route) \cap Joining!Incomplete(draft) = {}

LEMMA StepsBefore ==
    /\ Joining!Before("account") = {}
    /\ Joining!Before("emergency") = {"account"}
    /\ Joining!Before("waiver") = {"account", "emergency"}
    /\ Joining!Before("tier") = {"account", "emergency", "waiver"}
BY DEF Joining!Before

LEMMA InitJoin ==
    ASSUME Joining!Init
    PROVE  JoinInv
<1>1. JoinTypeOK
    BY DEF Joining!Init, JoinTypeOK, Joining!Fresh, Joining!Tier, Joining!Screen, Joining!Step
<1>2. QED
    BY <1>1, StepsBefore DEF Joining!Init, JoinInv, Joining!Step

\* The first step a draft leaves out is the first there is to fill in.
LEMMA FirstIncompleteIsEarned ==
    ASSUME NEW d
    PROVE  /\ Joining!FirstIncompleteStep(d) \in Joining!Step \ {"done"}
           /\ Joining!Before(Joining!FirstIncompleteStep(d)) \cap Joining!Incomplete(d) = {}
<1>1. Joining!Incomplete(d) \subseteq {"account", "emergency", "waiver", "tier"}
    BY DEF Joining!Incomplete
<1>2. CASE Joining!Incomplete(d) = {}
    BY <1>2 DEF Joining!FirstIncompleteStep, Joining!Step
<1>3. CASE Joining!Incomplete(d) # {}
    <2>1. \E s \in Joining!Incomplete(d) : Joining!Before(s) \cap Joining!Incomplete(d) = {}
        BY <1>1, <1>3, StepsBefore
    <2>2. Joining!FirstIncompleteStep(d) \in Joining!Incomplete(d)
          /\ Joining!Before(Joining!FirstIncompleteStep(d)) \cap Joining!Incomplete(d) = {}
        BY <1>3, <2>1 DEF Joining!FirstIncompleteStep
    <2>3. QED
        BY <1>1, <2>2 DEF Joining!Step
<1>4. QED
    BY <1>2, <1>3

\* Wherever somebody goes, the guard shows a screen they earned.
LEMMA GuardIsEarned ==
    ASSUME NEW to \in Joining!Screen, NEW d, NEW account, NEW member, NEW arrived,
           arrived = Joining!JoinGuard(to, d, account, member)
    PROVE  /\ arrived \in Joining!Screen
           /\ arrived = "done" => account # None
           /\ arrived \in Joining!Step \ {"done"} =>
                  Joining!Before(arrived) \cap Joining!Incomplete(d) = {}
BY FirstIncompleteIsEarned DEF Joining!JoinGuard, Joining!Screen, Joining!Step

\* Going somewhere, with what the rest of the invariant says of the state then.
LEMMA GoingIsEarned ==
    ASSUME JoinInv, NEW to \in Joining!Screen, Joining!Goes(to)
    PROVE  /\ history' \subseteq Joining!Screen
           /\ route' = "done" => created' # None
           /\ route' \in Joining!Step \ {"done"} =>
                  Joining!Before(route') \cap Joining!Incomplete(draft') = {}
BY GuardIsEarned DEF JoinInv, JoinTypeOK, Joining!Goes

\* A statement of the API's moves one request on.
LEMMA AdvanceMovesOne ==
    ASSUME requests \subseteq Request, NEW r \in requests, NEW step \in SignupStep,
           Joining!Advance(r, step)
    PROVE  /\ requests' \subseteq Request
           /\ \A q \in requests' : q \in requests \/ (q.step = step /\ q.email = r.email)
BY DEF Request, Joining!Advance

LEMMA NextJoin ==
    ASSUME JoinInv, Joining!Next
    PROVE  JoinInv'
<1>1. CASE Joining!Edit
    <2>1. JoinTypeOK'
        BY <1>1 DEF JoinInv, JoinTypeOK, Joining!Edit
    <2>2. Joining!Before(route)' \cap Joining!Incomplete(draft') = {}
        BY <1>1, StepsBefore DEF JoinInv, JoinTypeOK, Joining!Edit, Joining!Incomplete, Joining!Step
    <2>3. QED
        BY <1>1, <2>1, <2>2 DEF JoinInv, Joining!Edit, Whole
<1>2. ASSUME NEW to \in Joining!Screen, Joining!Moves(to)
      PROVE  JoinInv'
    BY <1>2, GoingIsEarned DEF JoinInv, JoinTypeOK, Joining!Moves, Whole
<1>3. CASE Joining!CarryOn
    BY <1>2, <1>3 DEF Joining!CarryOn, Joining!After, Joining!Screen, Joining!Step
<1>4. CASE Joining!GoBack
    BY <1>2, <1>4 DEF Joining!GoBack, Joining!Previous, Joining!Screen, Joining!Step
<1>5. CASE Joining!Browse
    BY <1>2, <1>5 DEF Joining!Browse, JoinInv, JoinTypeOK
<1>6. CASE Joining!Reload
    <2>1. PICK to \in Joining!Screen : Joining!Goes(to)
        BY <1>6 DEF Joining!Reload
    <2>2. QED
        BY <1>6, <2>1, GoingIsEarned DEF JoinInv, JoinTypeOK, Joining!Reload, Joining!Fresh, Whole
<1>7. CASE Joining!SubmitJoin
    <2>1. draft.email \in Email /\ draft.tier \in Joining!Tier
        BY <1>7 DEF Joining!SubmitJoin, Joining!Incomplete, JoinInv, JoinTypeOK
    <2>2. QED
        BY <1>7, <2>1 DEF JoinInv, JoinTypeOK, Request, SignupStep, Joining!SubmitJoin, Whole
<1>8. ASSUME NEW r \in requests, Joining!SignUpEmail(r)
      PROVE  JoinInv'
    <2>1. UNCHANGED <<route, history, draft, created, sends>>
        BY <1>8 DEF Joining!SignUpEmail, Joining!page
    <2>2. CASE \E a \in accounts : a.email = r.email
        <3>1. Joining!Advance(r, "exists") /\ UNCHANGED accounts
            BY <1>8, <2>2 DEF Joining!SignUpEmail
        <3>2. /\ requests' \subseteq Request
              /\ \A q \in requests' : q \in requests \/ q.step = "exists"
            BY <3>1, AdvanceMovesOne DEF JoinInv, JoinTypeOK, SignupStep
        <3>3. QED
            BY <2>1, <3>1, <3>2 DEF JoinInv, JoinTypeOK, Whole
    <2>3. CASE ~ \E a \in accounts : a.email = r.email
        <3>1. /\ Joining!Advance(r, "account")
              /\ accounts' = accounts \cup {[email |-> r.email, tier |-> None]}
            BY <1>8, <2>3 DEF Joining!SignUpEmail
        <3>2. /\ requests' \subseteq Request
              /\ \A q \in requests' : q \in requests \/ (q.step = "account" /\ q.email = r.email)
            BY <3>1, AdvanceMovesOne DEF JoinInv, JoinTypeOK, SignupStep
        <3>3. JoinTypeOK'
            BY <2>1, <3>1, <3>2 DEF JoinInv, JoinTypeOK, Request
        <3>4. accounts \subseteq accounts' /\ \E a \in accounts' : a.email = r.email
            <4>1. [email |-> r.email, tier |-> None] \in accounts'
                BY <3>1
            <4>2. QED
                BY <3>1, <4>1
        <3>5. \A q \in requests' :
                  /\ q.step = "account" => \E a \in accounts' : a.email = q.email
                  /\ q.step = "created" => Whole(q.email)'
            BY <3>2, <3>4 DEF JoinInv, Whole
        <3>6. created' # None => Whole(created)'
            BY <2>1, <3>4 DEF JoinInv, Whole
        <3>7. QED
            BY <2>1, <3>3, <3>5, <3>6 DEF JoinInv
    <2>4. QED
        BY <2>2, <2>3
<1>9. ASSUME NEW r \in requests, Joining!RecordMemberAndWaiver(r)
      PROVE  JoinInv'
    <2>1. UNCHANGED <<route, history, draft, created, sends>>
        BY <1>9 DEF Joining!RecordMemberAndWaiver, Joining!page
    <2>2. r \in Request /\ r.tier # None
        BY TierAssumption DEF JoinInv, JoinTypeOK, Request
    <2>3. /\ requests' \subseteq Request
          /\ \A q \in requests' : q \in requests \/ (q.step = "created" /\ q.email = r.email)
        BY <1>9, AdvanceMovesOne DEF JoinInv, JoinTypeOK, SignupStep, Joining!RecordMemberAndWaiver
    <2>4. ASSUME NEW a \in accounts
          PROVE  \E b \in accounts' :
                     /\ b.email = a.email
                     /\ (a.tier # None \/ a.email = r.email) => b.tier # None
        <3> DEFINE b == IF a.email = r.email THEN [a EXCEPT !.tier = r.tier] ELSE a
        <3>1. a \in [email : Email, tier : Joining!Tier \cup {None}]
            BY DEF JoinInv, JoinTypeOK
        <3>2. b \in accounts'
            BY <1>9 DEF Joining!RecordMemberAndWaiver
        <3>3. b.email = a.email /\ ((a.tier # None \/ a.email = r.email) => b.tier # None)
            BY <2>2, <3>1
        <3> HIDE DEF b
        <3>4. QED
            BY <3>2, <3>3
    <2>5. JoinTypeOK'
        BY <1>9, <2>1, <2>2, <2>3 DEF JoinInv, JoinTypeOK, Request, Joining!RecordMemberAndWaiver
    <2>6. \A e : Whole(e) => Whole(e)'
        BY <2>4 DEF Whole
    <2>7. Whole(r.email)'
        <3>1. PICK a \in accounts : a.email = r.email
            BY <1>9 DEF JoinInv, Joining!RecordMemberAndWaiver
        <3>2. PICK b \in accounts' : b.email = r.email /\ b.tier # None
            BY <2>4, <3>1
        <3>3. QED
            BY <3>2 DEF Whole
    <2>8. \A q \in requests' :
              /\ q.step = "account" => \E a \in accounts' : a.email = q.email
              /\ q.step = "created" => Whole(q.email)'
        BY <2>3, <2>4, <2>6, <2>7 DEF JoinInv
    <2>9. QED
        BY <2>1, <2>5, <2>6, <2>8 DEF JoinInv
<1>10. ASSUME NEW r \in requests, Joining!SignupFails(r)
       PROVE  JoinInv'
    <2>1. UNCHANGED <<accounts, route, history, draft, created, sends>>
        BY <1>10 DEF Joining!SignupFails, Joining!page
    <2>2. /\ requests' \subseteq Request
          /\ \A q \in requests' : q \in requests \/ q.step = "failed"
        BY <1>10, AdvanceMovesOne DEF JoinInv, JoinTypeOK, SignupStep, Joining!SignupFails
    <2>3. QED
        BY <2>1, <2>2 DEF JoinInv, JoinTypeOK, Whole
<1>11. ASSUME NEW r \in requests, NEW outcome, Joining!SignupEnded(r, outcome),
              outcome = "created" => r.step = "created"
       PROVE  JoinInv'
    <2>1. CASE outcome = "created"
        <3>1. r.email # None /\ Whole(r.email) /\ created' = r.email
            BY <1>11, <2>1, NoneAssumption DEF JoinInv, JoinTypeOK, Request, Joining!SignupEnded
        <3>2. "done" \in Joining!Screen /\ Joining!Goes("done")
            BY <1>11, <2>1 DEF Joining!SignupEnded, Joining!Screen, Joining!Step
        <3>3. QED
            BY <1>11, <3>1, <3>2, GoingIsEarned DEF JoinInv, JoinTypeOK, Joining!SignupEnded, Whole
    <2>2. CASE outcome # "created"
        BY <1>11, <2>2 DEF JoinInv, JoinTypeOK, Joining!SignupEnded, Whole
    <2>3. QED
        BY <2>1, <2>2
<1>12. ASSUME NEW r \in requests, Joining!SignupCutOff(r)
       PROVE  JoinInv'
    BY <1>12 DEF JoinInv, JoinTypeOK, Joining!SignupCutOff, Whole
<1>13. QED
    BY <1>1, <1>3, <1>4, <1>5, <1>6, <1>7, <1>8, <1>9, <1>10, <1>11, <1>12
       DEF Joining!Next, Joining!SignupAnswered, Joining!SignupUnanswered

(***************************************************************************)
(* The members application.                                                *)
(***************************************************************************)

IsRequest(r) ==
    r = [id |-> r.id, kind |-> r.kind, who |-> r.who, cookie |-> r.cookie, step |-> r.step,
         answer |-> r.answer]

\* What a GET /api/me finds is about the cookie it carries.  Unless the cookie changed
\* under it that is the one the browser holds, so the member shown once it has settled
\* holds it; and one that is answered alone with the newest cookie puts all right again.
FindsItsOwner(r) == r.kind = "me" => r.answer \in {None, MembersApplication!Owner(r.cookie)}
AsksAboutTheCookie(r) == r.kind = "me" => r.cookie = cookie

SessionInv ==
    /\ \A r \in requests : IsRequest(r) /\ FindsItsOwner(r)
    /\ inFlight # None => \E r \in requests : r.id = inFlight /\ r.kind = "me"
    /\ ~overtaken => \A r \in requests : AsksAboutTheCookie(r)
    /\ state = [status |-> state.status, me |-> state.me]
    /\ state.status # "loading" /\ state.me # None =>
           overtaken \/ MembersApplication!Owner(cookie) = state.me

\* What a request is when it is sent.
LEMMA SentRequest ==
    ASSUME NEW id, NEW kind, NEW who, NEW jar, NEW r, r = MembersApplication!Request(id, kind, who, jar)
    PROVE  IsRequest(r) /\ r.id = id /\ r.kind = kind /\ r.cookie = jar /\ r.answer = None
BY DEF MembersApplication!Request, IsRequest

LEMMA InitSession ==
    ASSUME MembersApplication!Init
    PROVE  SessionInv
<1>1. /\ requests = {MembersApplication!Request(0, "me", None, cookie)} /\ inFlight = 0
      /\ state = [status |-> "loading", me |-> None]
    BY DEF MembersApplication!Init
<1>2. QED
    BY <1>1, SentRequest DEF SessionInv, AsksAboutTheCookie, FindsItsOwner

\* A click sends something that asks about no session.
LEMMA ClickKeepsSession ==
    ASSUME SessionInv, NEW kind, kind # "me", NEW who, MembersApplication!Click(kind, who)
    PROVE  SessionInv'
<1>1. /\ requests' = requests \cup {MembersApplication!Request(MembersApplication!NewId, kind, who, cookie)}
      /\ UNCHANGED <<state, inFlight, overtaken, cookie>>
    BY DEF MembersApplication!Click, MembersApplication!session
<1>2. QED
    BY <1>1, SentRequest DEF SessionInv, AsksAboutTheCookie, FindsItsOwner

\* The API's answer to a GET /api/me is about the cookie it came with.
LEMMA HandleKeepsSession ==
    ASSUME SessionInv, NEW r \in requests, MembersApplication!Handle(r)
    PROVE  SessionInv'
<1>1. UNCHANGED <<cookie, state, inFlight, overtaken>>
    BY DEF MembersApplication!Handle, MembersApplication!session
<1>2. PICK answer, answered :
          /\ answered = [r EXCEPT !.step = "answered", !.answer = answer]
          /\ requests' = (requests \ {r}) \cup {answered}
          /\ r.kind = "me" => answer = MembersApplication!SignedIn(r)
    BY DEF MembersApplication!Handle
<1>3. /\ IsRequest(answered) /\ answered.id = r.id /\ answered.kind = r.kind
      /\ answered.cookie = r.cookie /\ answered.answer = answer
    <2>1. IsRequest(r)
        BY DEF SessionInv
    <2>2. answered = [r EXCEPT !.step = "answered", !.answer = answer]
        BY <1>2
    <2>3. QED
        <3>1. ASSUME NEW id, NEW kind, NEW who, NEW jar, NEW step, NEW old,
                     r = [id |-> id, kind |-> kind, who |-> who, cookie |-> jar, step |-> step,
                          answer |-> old]
              PROVE  answered = [id |-> id, kind |-> kind, who |-> who, cookie |-> jar,
                                 step |-> "answered", answer |-> answer]
            BY <2>2, <3>1
        <3>2. answered = [id |-> r.id, kind |-> r.kind, who |-> r.who, cookie |-> r.cookie,
                          step |-> "answered", answer |-> answer]
            BY <2>1, <3>1 DEF IsRequest
        <3>3. QED
            BY <3>2 DEF IsRequest
<1>4. FindsItsOwner(answered)
    BY <1>2, <1>3 DEF FindsItsOwner, MembersApplication!SignedIn
<1>5. QED
    BY <1>1, <1>2, <1>3, <1>4 DEF SessionInv, AsksAboutTheCookie, FindsItsOwner

\* Sending a GET /api/me, or joining the one in flight, when this cookie is the one the
\* requests that are left ask about, or it changed under one that is on its way.
LEMMA RefreshKeepsSession ==
    ASSUME SessionInv, NEW left, left \subseteq requests, NEW waiter,
           (requests \ left) \cap MembersApplication!Asking("me") = {},
           MembersApplication!RefreshSession(left, cookie', waiter),
           overtaken => overtaken',
           ~overtaken' => cookie' = cookie \/ MembersApplication!Asking("me") = {}
    PROVE  SessionInv'
<1>1. CASE inFlight # None
    <2>1. requests' = left /\ UNCHANGED <<state, inFlight>>
        BY <1>1 DEF MembersApplication!RefreshSession, MembersApplication!session
    <2>2. MembersApplication!Asking("me") # {}
        BY <1>1 DEF SessionInv, MembersApplication!Asking
    <2>3. QED
        BY <1>1, <2>1, <2>2 DEF SessionInv, AsksAboutTheCookie, FindsItsOwner, MembersApplication!Asking
<1>2. CASE inFlight = None
    <2>1. /\ requests' = left \cup {MembersApplication!Request(MembersApplication!NewId, "me", None, cookie')}
          /\ state' = [state EXCEPT !.status = "loading"]
          /\ inFlight' = MembersApplication!NewId
        BY <1>2 DEF MembersApplication!RefreshSession
    <2>2. state' = [status |-> "loading", me |-> state.me]
        BY <2>1 DEF SessionInv
    <2>3. \A r \in left : ~overtaken' /\ r.kind = "me" => cookie' = cookie
        BY DEF MembersApplication!Asking
    <2>4. \A r \in left : ~overtaken' => AsksAboutTheCookie(r)'
        BY <2>3 DEF SessionInv, AsksAboutTheCookie, FindsItsOwner
    <2>5. QED
        BY <2>1, <2>2, <2>4, SentRequest DEF SessionInv, AsksAboutTheCookie, FindsItsOwner
<1>3. QED
    BY <1>1, <1>2

\* What an answer to GET /api/me publishes.
LEMMA MeEndedKeepsSession ==
    ASSUME SessionInv, NEW r \in requests, r.kind = "me", NEW member,
           MembersApplication!MeEnded(r, member),
           member \in {None, MembersApplication!Owner(r.cookie)}
    PROVE  SessionInv'
<1>1. /\ state' = MembersApplication!Published(member) /\ inFlight' = None
      /\ requests' = requests \ {r} /\ UNCHANGED cookie
      /\ overtaken' = (overtaken /\ (r.cookie # cookie \/ MembersApplication!Asking("me") # {r}))
    BY DEF MembersApplication!MeEnded
<1>2. ASSUME ~overtaken'
      PROVE  r.cookie = cookie /\ \A q \in requests \ {r} : AsksAboutTheCookie(q)
    BY <1>1, <1>2 DEF SessionInv, AsksAboutTheCookie, MembersApplication!Asking
<1>3. QED
    BY <1>1, <1>2 DEF SessionInv, AsksAboutTheCookie, FindsItsOwner, MembersApplication!Published

LEMMA NextSession ==
    ASSUME SessionInv, MembersApplication!Next
    PROVE  SessionInv'
<1>1. ASSUME UNCHANGED <<requests, state, inFlight, overtaken, cookie>>
      PROVE  SessionInv'
    BY <1>1 DEF SessionInv, AsksAboutTheCookie, FindsItsOwner
<1>2. ASSUME NEW to \in MembersApplication!Route, MembersApplication!Navigate(to)
      PROVE  SessionInv'
    BY <1>1, <1>2 DEF MembersApplication!Navigate, MembersApplication!session
<1>3. ASSUME NEW screenShown, NEW kind, kind # "me", NEW who,
             MembersApplication!Submit(screenShown, kind, who)
      PROVE  SessionInv'
    BY <1>3, ClickKeepsSession DEF MembersApplication!Submit
<1>4. CASE MembersApplication!Leave
    BY <1>4, ClickKeepsSession DEF MembersApplication!Leave
<1>5. CASE MembersApplication!SessionEnds
    BY <1>1, <1>5 DEF MembersApplication!SessionEnds, MembersApplication!session
<1>6. ASSUME NEW r \in requests, MembersApplication!Ends(r)
      PROVE  SessionInv'
    <2>1. CASE MembersApplication!SignInAnswered(r)
        <3>1. CASE r.answer = None
            BY <2>1, <3>1 DEF MembersApplication!SignInAnswered, MembersApplication!session,
                              SessionInv, AsksAboutTheCookie, FindsItsOwner, MembersApplication!Asking
        <3>2. CASE r.answer # None
            <4>1. /\ r.kind = "sign-in" /\ cookie' = r.answer /\ overtaken' = MembersApplication!Outlived
                  /\ MembersApplication!RefreshSession(requests \ {r}, cookie',
                                                       [handler |-> "sign-in", id |-> r.id])
                BY <2>1, <3>2 DEF MembersApplication!SignInAnswered, MembersApplication!Asking
            <4>2. (requests \ (requests \ {r})) \cap MembersApplication!Asking("me") = {}
                BY <4>1 DEF MembersApplication!Asking
            <4>3. QED
                BY <4>1, <4>2, RefreshKeepsSession DEF MembersApplication!Outlived
        <3>3. QED
            BY <3>1, <3>2
    <2>2. CASE MembersApplication!SignOutEnded(r)
        <3>1. /\ requests' = requests \ {r} /\ r.kind = "sign-out"
              /\ overtaken' = MembersApplication!Outlived
              /\ state' = MembersApplication!Idle /\ inFlight' = None
            BY <2>2 DEF MembersApplication!SignOutEnded, MembersApplication!Asking
        <3>2. ~overtaken' => ~overtaken /\ (cookie' = cookie \/ \A q \in requests : q.kind # "me")
            BY <3>1 DEF MembersApplication!Outlived, MembersApplication!Asking
        <3>3. QED
            BY <3>1, <3>2 DEF SessionInv, AsksAboutTheCookie, FindsItsOwner, MembersApplication!Idle
    <2>3. CASE MembersApplication!SaveAnswered(r)
        <3>1. r.kind = "save" /\ UNCHANGED <<cookie, overtaken>>
            BY <2>3 DEF MembersApplication!SaveAnswered, MembersApplication!Asking
        <3>2. CASE r.answer = None
            BY <2>3, <3>1, <3>2 DEF MembersApplication!SaveAnswered, MembersApplication!session,
                                    SessionInv, AsksAboutTheCookie, FindsItsOwner
        <3>3. CASE r.answer # None
            <4>1. MembersApplication!RefreshSession(requests \ {r}, cookie',
                                                    [handler |-> "save", id |-> r.id])
                BY <2>3, <3>1, <3>3 DEF MembersApplication!SaveAnswered
            <4>2. (requests \ (requests \ {r})) \cap MembersApplication!Asking("me") = {}
                BY <3>1 DEF MembersApplication!Asking
            <4>3. QED
                BY <3>1, <4>1, <4>2, RefreshKeepsSession
        <3>4. QED
            BY <3>2, <3>3
    <2>4. CASE MembersApplication!MeAnswered(r)
        BY <2>4, MeEndedKeepsSession DEF MembersApplication!MeAnswered, MembersApplication!Asking,
                                         SessionInv, AsksAboutTheCookie, FindsItsOwner
    <2>5. CASE MembersApplication!MeFailed(r)
        BY <2>5, MeEndedKeepsSession DEF MembersApplication!MeFailed, MembersApplication!Asking
    <2>6. ASSUME requests' = requests \ {r}, UNCHANGED <<cookie, state, overtaken>>,
                 inFlight' = None \/ (r.kind # "me" /\ UNCHANGED inFlight)
          PROVE  SessionInv'
        BY <2>6 DEF SessionInv, AsksAboutTheCookie, FindsItsOwner
    <2>7. CASE MembersApplication!MeCutOff(r)
        BY <2>6, <2>7 DEF MembersApplication!MeCutOff, MembersApplication!Crash
    <2>8. CASE MembersApplication!SaveCutOff(r)
        BY <2>6, <2>8 DEF MembersApplication!SaveCutOff, MembersApplication!Crash, MembersApplication!Asking
    <2>9. CASE MembersApplication!Settled(r)
        BY <2>6, <2>9 DEF MembersApplication!Settled, MembersApplication!session
    <2>10. CASE MembersApplication!SignInCutOff(r)
        BY <2>10 DEF MembersApplication!SignInCutOff, MembersApplication!session,
                     MembersApplication!Asking, SessionInv, AsksAboutTheCookie, FindsItsOwner
    <2>11. QED
        BY <1>6, <2>10, <2>1, <2>2, <2>3, <2>4, <2>5, <2>7, <2>8, <2>9 DEF MembersApplication!Ends
<1>7. QED
    BY <1>2, <1>3, <1>4, <1>5, <1>6, HandleKeepsSession
       DEF MembersApplication!Next, MembersApplication!SubmitSignIn, MembersApplication!SaveProfile,
           MembersApplication!RequestPasswordReset, MembersApplication!ResetPassword

(***************************************************************************)
(* The members' door.                                                      *)
(***************************************************************************)

IsReading(reading) == reading \in [stale : BOOLEAN, age : Nat]

\* A request has not outlived its timeout, and what it was answered with was fresh then.
InTime(r) ==
    /\ r = [id |-> r.id, kind |-> r.kind, age |-> r.age, answer |-> r.answer]
    /\ r.age \in 0..Timeout
    /\ r.kind # "control" /\ r.answer # None =>
           /\ IsReading(r.answer)
           /\ ~r.answer.stale => r.answer.age <= Stale + r.age

\* What is drawn is no older than the time since it was asked for allows, or a poll is on
\* its way that was sent when that was so.
DrawnInTime ==
    \/ door.age + phase <= Stale + Timeout + Poll
    \/ \E q \in requests : q.kind = "poll" /\ door.age <= Stale + Timeout + Poll + q.age

DoorInv ==
    /\ reported \in Nat
    /\ \A r \in requests : InTime(r)
    /\ phase = None \/ phase \in 0..Poll
    /\ pending <=> phase = None
    /\ ~error
    /\ pending => door = None /\ \A r \in requests : r.kind = "load"
    /\ door # None => IsReading(door)
    /\ door # None /\ ~door.stale /\ ~cutOff => DrawnInTime

LEMMA Durations == Poll \in Nat /\ Timeout \in Nat /\ Stale \in Nat
BY BoundsAssumption

LEMMA InitDoor ==
    ASSUME DoorControls!Init, app = "members"
    PROVE  DoorInv
BY Durations, NoneAssumption DEF DoorControls!Init, DoorInv, InTime

\* What was drawn in time may be looked at for as long as the screen promises.
LEMMA DrawnInTimeIsRecent ==
    ASSUME DoorInv, app = "members"
    PROVE  DoorControls!TilesAreRecent
BY Durations DEF DoorInv, DrawnInTime, InTime, IsReading, DoorControls!TilesAreRecent, DoorControls!Live,
                 DoorControls!Oldest

\* Time makes a reading one older, or leaves it.
LEMMA AgedReading ==
    ASSUME NEW reading, reading # None, IsReading(reading)
    PROVE  /\ IsReading(DoorControls!Aged(reading))
           /\ DoorControls!Aged(reading).stale = reading.stale
           /\ DoorControls!Aged(reading).age \in {reading.age, reading.age + 1}
BY DEF IsReading, DoorControls!Aged

LEMMA SentDoorRequest ==
    ASSUME NEW left, NEW kind, DoorControls!Sends(left, kind)
    PROVE  \E q : requests' = left \cup {q} /\ InTime(q) /\ q.kind = kind /\ q.age = 0
<1>1. PICK id : requests' = left \cup {[id |-> id, kind |-> kind, age |-> 0, answer |-> None]}
    BY DEF DoorControls!Sends
<1>2. PICK q : q = [id |-> id, kind |-> kind, age |-> 0, answer |-> None]
    OBVIOUS
<1>3. q.id = id /\ q.kind = kind /\ q.age = 0 /\ q.answer = None
    BY <1>2
<1>4. InTime(q)
    BY <1>2, <1>3, Durations DEF InTime
<1>5. QED
    BY <1>1, <1>2, <1>3, <1>4

\* A request that ended leaves the others, and what was drawn in time is, if it was no poll.
LEMMA NextDoor ==
    ASSUME DoorInv, app = "members", DoorControls!Next
    PROVE  DoorInv'
<1>1. \A r \in requests : InTime(r)
    BY DEF DoorInv
<1>2. CASE DoorControls!Report
    BY <1>2 DEF DoorControls!Report, DoorControls!panel, DoorInv, DrawnInTime, InTime
<1>3. CASE DoorControls!PollNow
    <2>1. phase = 0 /\ phase' = Poll /\ UNCHANGED <<reported, door, pending, error, cutOff>>
        BY <1>3 DEF DoorControls!PollNow, DoorControls!panel
    <2>2. PICK q : requests' = requests \cup {q} /\ InTime(q) /\ q.kind = "poll" /\ q.age = 0
        BY <1>3, SentDoorRequest DEF DoorControls!PollNow
    <2>3. ~pending
        BY <2>1, NoneAssumption DEF DoorInv
    <2>4. door # None /\ ~door.stale /\ ~cutOff => DrawnInTime'
        BY <2>1, <2>2, Durations DEF DoorInv, DrawnInTime, IsReading
    <2>5. QED
        BY <2>1, <2>2, <2>3, <2>4, Durations, NoneAssumption DEF DoorInv, InTime
<1>4. ASSUME NEW left, left \subseteq requests, \A q \in requests : q.kind = "poll" => q \in left,
             NEW q, requests' = left \cup {q}, InTime(q), ~pending,
             UNCHANGED <<reported, door, pending, error, cutOff, phase>>
      PROVE  DoorInv'
    BY <1>4 DEF DoorInv, DrawnInTime, InTime
<1>5. CASE DoorControls!Send
    <2>1. PICK q : requests' = requests \cup {q} /\ InTime(q)
        BY <1>5, SentDoorRequest DEF DoorControls!Send
    <2>2. QED
        BY <1>4, <1>5, <2>1 DEF DoorControls!Send, DoorControls!Live, DoorControls!panel
<1>6. CASE DoorControls!Retry
    BY <1>6 DEF DoorControls!Retry, DoorInv
<1>7. CASE DoorControls!Tick
    <2> DEFINE ticked(r) == [r EXCEPT !.age = @ + 1,
                                      !.answer = IF r.kind = "control" THEN @ ELSE DoorControls!Aged(@)]
    <2>1. /\ \A r \in requests : r.age < Timeout
          /\ requests' = {ticked(r) : r \in requests}
          /\ UNCHANGED <<pending, error, cutOff>>
        BY <1>7 DEF DoorControls!Tick
    <2>2. /\ reported' \in Nat /\ door' = DoorControls!Aged(door)
          /\ phase # 0
          /\ phase = None => phase' = None
          /\ phase # None => phase' = phase - 1
        <3>1. /\ reported' = IF reported > Stale THEN reported ELSE reported + 1
              /\ door' = DoorControls!Aged(door)
              /\ phase' = IF phase = None THEN None ELSE phase - 1
              /\ phase # 0
            BY <1>7 DEF DoorControls!Tick
        <3>2. QED
            BY <3>1, Durations DEF DoorInv
    <2>3. ASSUME NEW r \in requests
          PROVE  InTime(ticked(r)) /\ ticked(r).kind = r.kind /\ ticked(r).age = r.age + 1
        <3>1. ticked(r) = [id |-> r.id, kind |-> r.kind, age |-> r.age + 1,
                           answer |-> IF r.kind = "control" THEN r.answer
                                      ELSE DoorControls!Aged(r.answer)]
            <4>1. PICK t, answer : /\ t = [r EXCEPT !.age = @ + 1, !.answer = answer]
                                   /\ answer = IF r.kind = "control" THEN r.answer
                                               ELSE DoorControls!Aged(r.answer)
                OBVIOUS
            <4>2. t = ticked(r)
                BY <4>1
            <4>3. ASSUME NEW id, NEW kind, NEW age, NEW old,
                         r = [id |-> id, kind |-> kind, age |-> age, answer |-> old]
                  PROVE  t = [id |-> id, kind |-> kind, age |-> age + 1, answer |-> answer]
                BY <4>1, <4>3
            <4>4. QED
                BY <1>1, <4>1, <4>2, <4>3 DEF InTime
        <3> HIDE DEF ticked
        <3>2. /\ ticked(r).id = r.id /\ ticked(r).kind = r.kind /\ ticked(r).age = r.age + 1
              /\ r.kind # "control" => ticked(r).answer = DoorControls!Aged(r.answer)
            BY <3>1
        <3>3. ticked(r) = [id |-> ticked(r).id, kind |-> ticked(r).kind, age |-> ticked(r).age,
                           answer |-> ticked(r).answer]
            BY <3>1
        <3>4. r.kind # "control" /\ r.answer = None => ticked(r).answer = None
            BY <3>2 DEF DoorControls!Aged
        <3>5. ticked(r).age \in 0..Timeout
            BY <1>1, <2>1, <3>2, Durations DEF InTime
        <3>6. r.kind # "control" /\ r.answer # None =>
                  /\ IsReading(ticked(r).answer)
                  /\ ~ticked(r).answer.stale => ticked(r).answer.age <= Stale + ticked(r).age
            BY <1>1, <3>2, AgedReading, Durations DEF InTime, IsReading
        <3>7. QED
            BY <3>2, <3>3, <3>4, <3>5, <3>6 DEF InTime
    <2> HIDE DEF ticked
    <2>4. \A q \in requests' : InTime(q)
        BY <2>1, <2>3
    <2>5. pending => \A q \in requests' : q.kind = "load"
        BY <2>1, <2>3 DEF DoorInv
    <2>6. door = None => door' = None
        BY <2>2 DEF DoorControls!Aged
    <2>7. door # None => /\ IsReading(door') /\ door'.stale = door.stale
                         /\ door'.age \in {door.age, door.age + 1}
        BY <2>2, AgedReading DEF DoorInv
    <2>8. phase # None => phase' = phase - 1 /\ phase' \in 0..Poll
        BY <2>2, Durations DEF DoorInv
    <2>9. door' # None /\ ~door'.stale /\ ~cutOff' => DrawnInTime'
        <3>1. SUFFICES ASSUME door' # None, ~door'.stale, ~cutOff'
                       PROVE  DrawnInTime'
            OBVIOUS
        <3>2. door # None /\ DrawnInTime /\ phase # None
            BY <2>1, <2>6, <2>7, <3>1 DEF DoorInv
        <3>3. CASE door.age + phase <= Stale + Timeout + Poll
            BY <2>7, <2>8, <3>2, <3>3, Durations DEF DrawnInTime, IsReading, DoorInv
        <3>4. ASSUME NEW q \in requests, q.kind = "poll", door.age <= Stale + Timeout + Poll + q.age
              PROVE  DrawnInTime'
            <4>1. ticked(q) \in requests' /\ ticked(q).kind = "poll" /\ ticked(q).age = q.age + 1
                BY <2>1, <2>3, <3>4
            <4>2. door'.age <= Stale + Timeout + Poll + ticked(q).age
                BY <1>1, <2>7, <3>2, <3>4, <4>1, Durations DEF InTime, IsReading, DoorInv
            <4>3. QED
                BY <4>1, <4>2 DEF DrawnInTime
        <3>5. QED
            BY <3>2, <3>3, <3>4 DEF DrawnInTime
    <2>10. QED
        BY <2>1, <2>2, <2>4, <2>5, <2>6, <2>7, <2>8, <2>9, NoneAssumption DEF DoorInv
<1>8. ASSUME NEW r \in requests, DoorControls!Handle(r)
      PROVE  DoorInv'
    <2>1. PICK answered :
              /\ answered = [r EXCEPT !.answer = DoorControls!Reading(reported)]
              /\ requests' = (requests \ {r}) \cup {answered}
              /\ UNCHANGED <<reported, door, pending, error, cutOff, phase>>
        BY <1>8 DEF DoorControls!Handle, DoorControls!panel
    <2>2. answered = [id |-> r.id, kind |-> r.kind, age |-> r.age,
                      answer |-> DoorControls!Reading(reported)]
        <3>1. ASSUME NEW id, NEW kind, NEW age, NEW answer,
                     r = [id |-> id, kind |-> kind, age |-> age, answer |-> answer]
              PROVE  answered = [id |-> id, kind |-> kind, age |-> age,
                                 answer |-> DoorControls!Reading(reported)]
            BY <2>1, <3>1
        <3>2. QED
            BY <1>1, <3>1 DEF InTime
    <2>3. /\ answered.kind = r.kind /\ answered.age = r.age
          /\ answered.answer = DoorControls!Reading(reported)
          /\ answered = [id |-> answered.id, kind |-> answered.kind, age |-> answered.age,
                          answer |-> answered.answer]
        BY <2>2
    <2>4. /\ IsReading(answered.answer)
          /\ ~answered.answer.stale => answered.answer.age <= Stale + answered.age
        BY <1>1, <2>3, Durations DEF DoorInv, InTime, IsReading, DoorControls!Reading
    <2>5. InTime(answered)
        BY <1>1, <2>3, <2>4 DEF InTime
    <2>6. DrawnInTime => DrawnInTime'
        BY <2>1, <2>3 DEF DrawnInTime
    <2>7. QED
        BY <2>1, <2>3, <2>5, <2>6 DEF DoorInv
<1>9. ASSUME NEW r \in requests, DoorControls!StatusRead(r)
      PROVE  DoorInv'
    <2>1. /\ door' = r.answer /\ IsReading(r.answer)
          /\ ~r.answer.stale => r.answer.age <= Stale + Timeout
        BY <1>1, <1>9, Durations DEF DoorControls!StatusRead, InTime, IsReading
    <2>2. requests' = requests \ {r} /\ UNCHANGED <<reported, error>> /\ r.answer # None
        BY <1>9 DEF DoorControls!StatusRead
    <2>3. ~pending' /\ phase' \in 0..Poll
        BY <1>9, Durations, NoneAssumption DEF DoorControls!StatusRead, DoorInv
    <2>4. ~door'.stale => DrawnInTime'
        BY <2>1, <2>3, Durations DEF DrawnInTime, IsReading
    <2>5. QED
        BY <2>1, <2>2, <2>3, <2>4, NoneAssumption DEF DoorInv, InTime
<1>10. ASSUME NEW r \in requests, DoorControls!StatusFailed(r)
       PROVE  DoorInv'
    <2>1. /\ requests' = requests \ {r} /\ door' = None /\ ~error' /\ UNCHANGED reported
        BY <1>10 DEF DoorControls!StatusFailed, DoorInv
    <2>2. ~pending' /\ phase' \in 0..Poll
        BY <1>10, Durations, NoneAssumption DEF DoorControls!StatusFailed, DoorInv
    <2>3. QED
        BY <2>1, <2>2, NoneAssumption DEF DoorInv, InTime
<1>11. ASSUME NEW r \in requests, DoorControls!ControlTaken(r)
       PROVE  DoorInv'
    <2>1. PICK q : requests' = (requests \ {r}) \cup {q} /\ InTime(q)
        BY <1>11, SentDoorRequest DEF DoorControls!ControlTaken
    <2>2. r.kind = "control" /\ ~pending
        BY <1>11 DEF DoorControls!ControlTaken, DoorInv
    <2>3. QED
        BY <1>4, <1>11, <2>1, <2>2 DEF DoorControls!ControlTaken, DoorControls!panel
<1>12. ASSUME NEW r \in requests, DoorControls!ControlFailed(r)
       PROVE  DoorInv'
    BY <1>12 DEF DoorControls!ControlFailed, DoorControls!panel, DoorInv, DrawnInTime, InTime
<1>13. ASSUME NEW r \in requests, DoorControls!CutOff(r)
       PROVE  DoorInv'
    <2>1. CASE r.kind # "poll"
        BY <1>13, <2>1 DEF DoorControls!CutOff, DoorInv
    <2>2. CASE r.kind = "poll"
        <3>1. /\ ~pending /\ ~pending' /\ requests' = requests \ {r}
              /\ UNCHANGED <<phase, door, reported, error>>
              /\ cutOff' = (cutOff \/ DoorControls!Live)
            BY <1>13, <2>2 DEF DoorControls!CutOff, DoorInv
        <3>2. door # None /\ ~door.stale => cutOff'
            BY <3>1 DEF DoorControls!Live, DoorInv
        <3>3. QED
            BY <3>1, <3>2 DEF DoorInv, InTime
    <2>3. QED
        BY <2>1, <2>2
<1>14. QED
    BY <1>2, <1>3, <1>5, <1>6, <1>7, <1>8, <1>9, <1>10, <1>11, <1>12, <1>13
       DEF DoorControls!Next, DoorControls!Ends

LEMMA DoorStaysItsOwn == DoorControls!Next => UNCHANGED app
BY DEF DoorControls!Next, DoorControls!Report, DoorControls!Tick, DoorControls!PollNow,
       DoorControls!Send, DoorControls!Retry, DoorControls!Handle, DoorControls!Ends,
       DoorControls!StatusRead, DoorControls!StatusFailed, DoorControls!ControlTaken,
       DoorControls!ControlFailed, DoorControls!CutOff

(***************************************************************************)
(* A member's record.                                                      *)
(***************************************************************************)

\* What the API answers about a member, and what the screen keeps of it.
Reading == [MemberRecord!Field -> BOOLEAN]
Record == [of : Member, is : Reading]
Patch == UNION {[F -> BOOLEAN] : F \in SUBSET MemberRecord!Field}
Control == {"load", "profile", "access", "card", "cert", "reread"}
RecordRequest ==
    [id : 1..sent, key : Control, target : Member, patch : Patch, step : {"sent", "answered"},
     answer : Reading \cup {None}, mine : BOOLEAN]

RecordTypeOK ==
    /\ members \in [Member -> Reading]
    /\ shown \in Member
    /\ record \in Record \cup {None}
    /\ draft \in [Role -> BOOLEAN]
    /\ asking \in BOOLEAN
    /\ sent \in Nat
    /\ requests \subseteq RecordRequest
    /\ DOMAIN asked = MemberRecord!Chosen /\ asked = [f \in DOMAIN asked |-> asked[f]]

\* Only a screen with a record on it waits for a write; what the form would change is what
\* the admin last chose, and so is what an open question would do.
RecordInv ==
    /\ RecordTypeOK
    /\ \A r \in requests : /\ r.step = "answered" => r.answer \in Reading
                           /\ r.mine /\ r.key # "load" => record # None
    /\ record # None => \A f \in Role : draft[f] # MemberRecord!Says(f) => asked[f] = draft[f]
    /\ asking => record # None /\ asked["access"] = ~MemberRecord!Says("access")

LEMMA NothingIsAPatch == MemberRecord!Nothing \in Patch /\ DOMAIN MemberRecord!Nothing = {}
BY DEF Patch, MemberRecord!Nothing

\* What a click or an answer sends: one request, with an id of its own.
OneMore(left, key, patch) ==
    /\ sent' \in Nat
    /\ requests' \subseteq RecordRequest'
    /\ \A r \in requests' : r \in left \/ (r.key = key /\ r.step = "sent")
    /\ \A r \in MemberRecord!Sent : r.patch = patch

LEMMA SendsOne ==
    ASSUME RecordInv, NEW left \in SUBSET RecordRequest, NEW key \in Control, NEW patch \in Patch,
           NEW target \in Member, MemberRecord!Sends(left, key, target, patch)
    PROVE  OneMore(left, key, patch)
<1> DEFINE new == MemberRecord!Request(key, target, patch)
<1>1. sent \in Nat /\ sent' = sent + 1 /\ requests' = left \cup {new}
    BY DEF RecordInv, RecordTypeOK, MemberRecord!Sends
<1>2. new = [id |-> sent + 1, key |-> key, target |-> target, patch |-> patch,
             step |-> "sent", answer |-> None, mine |-> TRUE]
    BY DEF MemberRecord!Request
<1> HIDE DEF new
<1>3. sent' \in Nat /\ 1..sent \subseteq 1..sent' /\ sent + 1 \in 1..sent'
    BY <1>1
<1>4. new \in RecordRequest'
    BY <1>1, <1>2, <1>3 DEF RecordRequest
<1>5. RecordRequest \subseteq RecordRequest'
    BY <1>3 DEF RecordRequest
<1>6. new.key = key /\ new.step = "sent" /\ new.patch = patch
    BY <1>2
<1>7. \A r \in left : ~(r.id > sent)
    BY <1>1 DEF RecordRequest
<1>8. QED
    BY <1>1, <1>3, <1>4, <1>5, <1>6, <1>7 DEF OneMore, MemberRecord!Sent

\* A step that sends nothing writes nothing.
LEMMA SendsNone ==
    ASSUME RecordInv, UNCHANGED sent, requests' \subseteq RecordRequest'
    PROVE  MemberRecord!AskedNow
<1>1. \A r \in requests' : r.id \in 1..sent
    BY DEF RecordRequest
<1>2. MemberRecord!Sent = {}
    BY <1>1 DEF RecordInv, RecordTypeOK, MemberRecord!Sent
<1>3. QED
    BY <1>2 DEF MemberRecord!AskedNow

\* What is left of a request nobody waits for.
LEMMA AbandonedRequests ==
    ASSUME RecordInv, NEW R \in SUBSET requests
    PROVE  /\ MemberRecord!Abandoned(R) \subseteq RecordRequest
           /\ \A r \in MemberRecord!Abandoned(R) : ~r.mine /\ r.step = "sent"
<1>1. \A r \in requests : LET q == [r EXCEPT !.mine = FALSE]
                           IN  q \in RecordRequest /\ ~q.mine /\ q.step = r.step
    BY DEF RecordInv, RecordTypeOK, RecordRequest
<1>2. QED
    BY <1>1 DEF MemberRecord!Abandoned

\* The fields chosen first are the form's and the access.
LEMMA ChosenFields ==
    /\ Role \cap {"access"} = {} /\ MemberRecord!Chosen = Role \cup {"access"}
    /\ MemberRecord!Field = Role \cup {"access", "card", "cert"}
    /\ {"card", "cert"} \cap MemberRecord!Chosen = {}
BY RecordAssumption DEF MemberRecord!Chosen, MemberRecord!Field

\* An answer on the screen fills in the form, and keeps a question open only if it still
\* asks the same.
LEMMA ShowsKeepsRecord ==
    ASSUME RecordInv, NEW of \in Member, NEW is \in Reading, MemberRecord!Shows(of, is),
           UNCHANGED asked
    PROVE  /\ record' \in Record /\ record' # None
           /\ draft' \in [Role -> BOOLEAN] /\ asking' \in BOOLEAN
           /\ \A f \in Role : draft'[f] = record'.is[f]
           /\ asking' => asked'["access"] = ~record'.is["access"]
<1>1. record' = [of |-> of, is |-> is] /\ draft' = [f \in Role |-> is[f]]
      /\ asking' = (asking /\ (record # None => MemberRecord!Says("access") = is["access"]))
    BY DEF MemberRecord!Shows
<1>2. record' \in Record /\ record'.is = is
    BY <1>1 DEF Record
<1>3. record' # None
    BY <1>2, RecordAssumption DEF Record, Reading
<1>4. draft' \in [Role -> BOOLEAN] /\ \A f \in Role : draft'[f] = record'.is[f]
    BY <1>1, <1>2, ChosenFields DEF Reading
<1>5. asking' \in BOOLEAN
    BY <1>1
<1>6. ASSUME asking'
      PROVE  asked'["access"] = ~record'.is["access"]
    <2>1. asking /\ (record # None => MemberRecord!Says("access") = is["access"])
        BY <1>1, <1>6
    <2>2. record # None /\ asked["access"] = ~MemberRecord!Says("access")
        BY <2>1 DEF RecordInv
    <2>3. QED
        BY <1>2, <2>1, <2>2
<1>7. QED
    BY <1>2, <1>3, <1>4, <1>5, <1>6

LEMMA InitRecord ==
    ASSUME MemberRecord!Init
    PROVE  RecordInv
<1>1. shown \in Member
    BY RecordAssumption DEF MemberRecord!Init
<1>2. requests \subseteq RecordRequest
    BY <1>1, NothingIsAPatch DEF MemberRecord!Init, RecordRequest, Control
<1>3. RecordTypeOK
    BY <1>1, <1>2 DEF MemberRecord!Init, RecordTypeOK, Reading
<1>4. QED
    BY <1>3 DEF MemberRecord!Init, RecordInv

\* The API reads or writes; the screen is as it was.
LEMMA HandleKeepsRecord ==
    ASSUME RecordInv, NEW r \in requests, MemberRecord!Handle(r)
    PROVE  RecordInv' /\ MemberRecord!AskedNow
<1>1. UNCHANGED <<shown, record, pending, error, busy, draft, asking, asked, sent, others>>
    BY DEF MemberRecord!Handle, MemberRecord!screen
<1>2. r \in RecordRequest /\ members \in [Member -> Reading]
    BY DEF RecordInv, RecordTypeOK
<1>3. members' \in [Member -> Reading]
    <2>1. r.target \in Member /\ \A f \in DOMAIN r.patch : r.patch[f] \in BOOLEAN
        BY <1>2 DEF RecordRequest, Patch
    <2>2. [f \in MemberRecord!Field |-> IF f \in DOMAIN r.patch THEN r.patch[f] ELSE members[r.target][f]]
              \in Reading
        BY <1>2, <2>1 DEF Reading
    <2>3. QED
        BY <1>2, <2>2 DEF MemberRecord!Handle
<1> DEFINE answered == [r EXCEPT !.step = "answered", !.answer = members'[r.target]]
<1>4. answered \in RecordRequest /\ answered.answer \in Reading
      /\ answered.mine = r.mine /\ answered.key = r.key
    BY <1>2, <1>3 DEF RecordRequest
<1>5. /\ \A q \in requests' : q \in requests \/ (q = answered /\ r.mine)
    BY DEF MemberRecord!Handle
<1> HIDE DEF answered
<1>6. requests' \subseteq RecordRequest'
    BY <1>1, <1>4, <1>5 DEF RecordInv, RecordTypeOK, RecordRequest
<1>7. RecordTypeOK'
    BY <1>1, <1>3, <1>6 DEF RecordInv, RecordTypeOK
<1>8. \A q \in requests' : /\ q.step = "answered" => q.answer \in Reading
                           /\ q.mine /\ q.key # "load" => record' # None
    BY <1>1, <1>4, <1>5 DEF RecordInv
<1>9. RecordInv'
    BY <1>1, <1>7, <1>8 DEF RecordInv, MemberRecord!Says
<1>10. QED
    BY <1>1, <1>6, <1>9, SendsNone

\* A control sends its own request, for what the screen says by then.
LEMMA RunKeepsRecord ==
    ASSUME RecordInv, NEW key \in {"profile", "access", "card", "cert"}, NEW patch \in Patch,
           NEW target \in Member, MemberRecord!Run(key, target, patch),
           \A f \in DOMAIN patch \cap MemberRecord!Chosen : patch[f] = asked[f]
    PROVE  RecordInv' /\ MemberRecord!AskedNow
<1>1. /\ record # None /\ MemberRecord!Sends(requests, key, target, patch)
      /\ UNCHANGED <<members, shown, record, draft, asking, asked>>
    BY DEF MemberRecord!Run, MemberRecord!Ready
<1>2. requests \subseteq RecordRequest
    BY DEF RecordInv, RecordTypeOK
<1>3. /\ sent' \in Nat /\ requests' \subseteq RecordRequest'
      /\ \A r \in requests' : r \in requests \/ (r.key = key /\ r.step = "sent")
      /\ \A r \in MemberRecord!Sent : r.patch = patch
    <2>1. OneMore(requests, key, patch)
        BY <1>1, <1>2, SendsOne DEF Control
    <2>2. QED
        BY <2>1 DEF OneMore
<1>4. RecordTypeOK'
    BY <1>1, <1>3 DEF RecordInv, RecordTypeOK
<1>5. \A q \in requests' : /\ q.step = "answered" => q.answer \in Reading
                           /\ q.mine /\ q.key # "load" => record' # None
    BY <1>1, <1>3 DEF RecordInv
<1>6. RecordInv'
    BY <1>1, <1>4, <1>5 DEF RecordInv, MemberRecord!Says
<1>7. MemberRecord!AskedNow
    BY <1>1, <1>3 DEF MemberRecord!AskedNow
<1>8. QED
    BY <1>6, <1>7

\* A step that sends nothing, takes requests away or lets one go on alone.
LEMMA FewerRequests ==
    ASSUME RecordInv, UNCHANGED sent, NEW R \in SUBSET requests,
           requests' \subseteq R \cup MemberRecord!Abandoned(requests)
    PROVE  /\ requests' \subseteq RecordRequest' /\ MemberRecord!AskedNow
           /\ \A q \in requests' : q \in R \/ (~q.mine /\ q.step = "sent")
<1>1. /\ MemberRecord!Abandoned(requests) \subseteq RecordRequest
      /\ \A q \in MemberRecord!Abandoned(requests) : ~q.mine /\ q.step = "sent"
    BY AbandonedRequests
<1>2. requests' \subseteq RecordRequest'
    BY <1>1 DEF RecordInv, RecordTypeOK, RecordRequest
<1>3. QED
    BY <1>1, <1>2, SendsNone

LEMMA AbandonedOne ==
    ASSUME NEW r \in requests
    PROVE  MemberRecord!Abandoned({r}) \subseteq MemberRecord!Abandoned(requests)
BY DEF MemberRecord!Abandoned

LEMMA NextRecord ==
    ASSUME RecordInv, MemberRecord!Next
    PROVE  RecordInv' /\ MemberRecord!AskedNow
<1> USE DEF MemberRecord!Says
<1>1. ASSUME NEW m \in Member, MemberRecord!Open(m)
      PROVE  RecordInv' /\ MemberRecord!AskedNow
    <2>1. /\ shown' = m /\ record' = None /\ asking' = FALSE /\ draft' = [f \in Role |-> FALSE]
          /\ asked' = [f \in MemberRecord!Chosen |-> None] /\ members' = members
          /\ MemberRecord!Sends(MemberRecord!Abandoned(requests), "load", m, MemberRecord!Nothing)
        BY <1>1 DEF MemberRecord!Open
    <2>2. /\ MemberRecord!Abandoned(requests) \subseteq RecordRequest
          /\ \A q \in MemberRecord!Abandoned(requests) : ~q.mine /\ q.step = "sent"
        BY AbandonedRequests
    <2>3. /\ sent' \in Nat /\ requests' \subseteq RecordRequest'
          /\ \A r \in requests' : r \in MemberRecord!Abandoned(requests) \/ (r.key = "load" /\ r.step = "sent")
          /\ \A r \in MemberRecord!Sent : r.patch = MemberRecord!Nothing
        <3>1. OneMore(MemberRecord!Abandoned(requests), "load", MemberRecord!Nothing)
            BY <2>1, <2>2, SendsOne, NothingIsAPatch DEF Control
        <3>2. QED
            BY <3>1 DEF OneMore
    <2>4. RecordTypeOK'
        BY <2>1, <2>3 DEF RecordInv, RecordTypeOK
    <2>5. RecordInv'
        BY <2>1, <2>2, <2>3, <2>4 DEF RecordInv
    <2>6. MemberRecord!AskedNow
        BY <2>3, NothingIsAPatch DEF MemberRecord!AskedNow
    <2>7. QED
        BY <2>5, <2>6
<1>2. ASSUME NEW m \in Member, MemberRecord!JumpTo(m)
      PROVE  RecordInv' /\ MemberRecord!AskedNow
    <2>1. shown' = m /\ UNCHANGED <<members, record, draft, asking, requests, asked, sent>>
        BY <1>2 DEF MemberRecord!JumpTo
    <2>2. requests' \subseteq RecordRequest'
        BY <2>1 DEF RecordInv, RecordTypeOK, RecordRequest
    <2>3. RecordInv'
        BY <2>1, <2>2 DEF RecordInv, RecordTypeOK
    <2>4. QED
        BY <2>1, <2>2, <2>3, SendsNone
<1>3. CASE MemberRecord!Retry
    <2>1. /\ UNCHANGED <<members, shown, record, draft, asking, asked>>
          /\ MemberRecord!Sends(requests, "load", shown, MemberRecord!Nothing)
        BY <1>3 DEF MemberRecord!Retry
    <2>2. shown \in Member /\ requests \subseteq RecordRequest
        BY <2>1 DEF RecordInv, RecordTypeOK
    <2>3. /\ sent' \in Nat /\ requests' \subseteq RecordRequest'
          /\ \A r \in requests' : r \in requests \/ (r.key = "load" /\ r.step = "sent")
          /\ \A r \in MemberRecord!Sent : r.patch = MemberRecord!Nothing
        <3>1. OneMore(requests, "load", MemberRecord!Nothing)
            BY <2>1, <2>2, SendsOne, NothingIsAPatch DEF Control
        <3>2. QED
            BY <3>1 DEF OneMore
    <2>4. RecordTypeOK'
        BY <2>1, <2>3 DEF RecordInv, RecordTypeOK
    <2>5. RecordInv'
        BY <2>1, <2>3, <2>4 DEF RecordInv
    <2>6. MemberRecord!AskedNow
        BY <2>3, NothingIsAPatch DEF MemberRecord!AskedNow
    <2>7. QED
        BY <2>5, <2>6
<1>4. ASSUME NEW f \in Role, MemberRecord!ChangeRole(f)
      PROVE  RecordInv' /\ MemberRecord!AskedNow
    <2>1. /\ draft' = [draft EXCEPT ![f] = ~@] /\ asked' = [asked EXCEPT ![f] = ~draft[f]]
          /\ UNCHANGED <<members, shown, record, asking, requests, sent>>
        BY <1>4 DEF MemberRecord!ChangeRole
    <2>2. requests' \subseteq RecordRequest' /\ MemberRecord!AskedNow
        BY <2>1, SendsNone DEF RecordInv, RecordTypeOK, RecordRequest
    <2>3. f \in DOMAIN asked /\ f \in DOMAIN draft /\ f # "access"
        BY ChosenFields DEF RecordInv, RecordTypeOK
    <2>4. RecordTypeOK'
        BY <2>1, <2>2, <2>3 DEF RecordInv, RecordTypeOK
    <2>5. record' # None => \A g \in Role : draft'[g] # record'.is[g] => asked'[g] = draft'[g]
        BY <2>1, <2>3 DEF RecordInv, RecordTypeOK
    <2>6. asking' => record' # None /\ asked'["access"] = ~record'.is["access"]
        BY <2>1, <2>3 DEF RecordInv, RecordTypeOK
    <2>7. RecordInv'
        BY <2>1, <2>4, <2>5, <2>6 DEF RecordInv
    <2>8. QED
        BY <2>2, <2>7
<1>5. CASE MemberRecord!AskForAccess
    <2>1. /\ record # None /\ asking' = ~asking
          /\ asked' = [asked EXCEPT !["access"] = IF asking THEN @ ELSE ~record.is["access"]]
          /\ UNCHANGED <<members, shown, record, draft, requests, sent>>
        BY <1>5 DEF MemberRecord!AskForAccess, MemberRecord!Ready
    <2>2. requests' \subseteq RecordRequest' /\ MemberRecord!AskedNow
        BY <2>1, SendsNone DEF RecordInv, RecordTypeOK, RecordRequest
    <2>3. "access" \in DOMAIN asked /\ \A f \in Role : asked'[f] = asked[f]
        BY <2>1, ChosenFields DEF RecordInv, RecordTypeOK
    <2>4. asking' => asked'["access"] = ~record'.is["access"]
        BY <2>1, <2>3
    <2>5. RecordTypeOK'
        BY <2>1, <2>2, <2>3 DEF RecordInv, RecordTypeOK
    <2>6. RecordInv'
        BY <2>1, <2>3, <2>4, <2>5 DEF RecordInv
    <2>7. QED
        BY <2>2, <2>6
<1>6. CASE MemberRecord!SaveProfile
    <2>1. record # None /\ shown \in Member /\ MemberRecord!Run("profile", shown, MemberRecord!Changes)
        BY <1>6 DEF RecordInv, RecordTypeOK, MemberRecord!SaveProfile, MemberRecord!Ready
    <2>2. MemberRecord!Changes = [f \in {f \in Role : draft[f] # record.is[f]} |-> draft[f]]
        BY DEF MemberRecord!Changes
    <2>3. MemberRecord!Changes \in Patch
        <3>1. {f \in Role : draft[f] # record.is[f]} \in SUBSET MemberRecord!Field
            BY ChosenFields
        <3>2. MemberRecord!Changes \in [{f \in Role : draft[f] # record.is[f]} -> BOOLEAN]
            BY <2>2 DEF RecordInv, RecordTypeOK
        <3>3. QED
            BY <3>1, <3>2 DEF Patch
    <2>4. \A f \in DOMAIN MemberRecord!Changes \cap MemberRecord!Chosen : MemberRecord!Changes[f] = asked[f]
        BY <2>1, <2>2 DEF RecordInv
    <2>5. QED
        BY <2>1, <2>3, <2>4, RunKeepsRecord
<1>7. CASE MemberRecord!SetCardAccess
    <2> DEFINE patch == [f \in {"access"} |-> ~record.is["access"]]
    <2>1. asking /\ shown \in Member /\ MemberRecord!Run("access", shown, patch)
        BY <1>7 DEF RecordInv, RecordTypeOK, MemberRecord!SetCardAccess
    <2>2. record # None /\ asked["access"] = ~record.is["access"]
        BY <2>1 DEF RecordInv
    <2>3. patch \in Patch
        <3>1. {"access"} \in SUBSET MemberRecord!Field /\ patch \in [{"access"} -> BOOLEAN]
            BY ChosenFields
        <3>2. QED
            BY <3>1 DEF Patch
    <2>4. \A f \in DOMAIN patch \cap MemberRecord!Chosen : patch[f] = asked[f]
        BY <2>2
    <2> HIDE DEF patch
    <2>5. QED
        BY <2>1, <2>3, <2>4, RunKeepsRecord
<1>8. ASSUME NEW f \in {"card", "cert"}, NEW target \in Member, NEW value \in BOOLEAN,
             MemberRecord!Run(f, target, [g \in {f} |-> value])
      PROVE  RecordInv' /\ MemberRecord!AskedNow
    <2> DEFINE patch == [g \in {f} |-> value]
    <2>1. MemberRecord!Run(f, target, patch)
        BY <1>8
    <2>2. patch \in Patch
        <3>1. {f} \in SUBSET MemberRecord!Field /\ patch \in [{f} -> BOOLEAN]
            BY ChosenFields
        <3>2. QED
            BY <3>1 DEF Patch
    <2>3. DOMAIN patch \cap MemberRecord!Chosen = {}
        BY ChosenFields
    <2> HIDE DEF patch
    <2>4. QED
        BY <2>1, <2>2, <2>3, RunKeepsRecord
<1>9. ASSUME NEW r \in requests, MemberRecord!Loaded(r)
      PROVE  RecordInv' /\ MemberRecord!AskedNow
    <2>1. /\ requests' = requests \ {r} /\ UNCHANGED <<members, shown, asked, sent>>
          /\ \/ r.step = "answered" /\ MemberRecord!Shows(r.target, r.answer)
             \/ UNCHANGED <<record, draft, asking>>
        BY <1>9 DEF MemberRecord!Loaded, MemberRecord!Kept
    <2>2. requests' \subseteq RecordRequest' /\ MemberRecord!AskedNow
        BY <2>1, FewerRequests
    <2>3. CASE r.step = "answered" /\ MemberRecord!Shows(r.target, r.answer)
        <3>1. r.target \in Member /\ r.answer \in Reading
            BY <2>3 DEF RecordInv, RecordTypeOK, RecordRequest
        <3>2. /\ record' \in Record /\ record' # None
              /\ draft' \in [Role -> BOOLEAN] /\ asking' \in BOOLEAN
              /\ \A f \in Role : draft'[f] = record'.is[f]
              /\ asking' => asked'["access"] = ~record'.is["access"]
            BY <2>1, <2>3, <3>1, ShowsKeepsRecord
        <3>3. RecordTypeOK'
            BY <2>1, <2>2, <3>2 DEF RecordInv, RecordTypeOK
        <3>4. QED
            BY <2>1, <2>2, <3>2, <3>3 DEF RecordInv
    <2>4. CASE UNCHANGED <<record, draft, asking>>
        <3>1. RecordTypeOK'
            BY <2>1, <2>2, <2>4 DEF RecordInv, RecordTypeOK
        <3>2. QED
            BY <2>1, <2>2, <2>4, <3>1 DEF RecordInv
    <2>5. QED
        BY <2>1, <2>3, <2>4
<1>10. ASSUME NEW r \in requests, MemberRecord!CardWritten(r)
       PROVE  RecordInv' /\ MemberRecord!AskedNow
    <2>1. /\ r.mine /\ r.key = "card"
          /\ UNCHANGED <<members, shown, asked, record, draft, asking>>
          /\ MemberRecord!Sends(requests \ {r}, "reread", shown, MemberRecord!Nothing)
        BY <1>10 DEF MemberRecord!CardWritten, MemberRecord!Kept
    <2>2. record # None /\ shown \in Member /\ requests \ {r} \subseteq RecordRequest
        BY <2>1 DEF RecordInv, RecordTypeOK
    <2>3. /\ sent' \in Nat /\ requests' \subseteq RecordRequest'
          /\ \A q \in requests' : q \in requests \/ (q.key = "reread" /\ q.step = "sent")
          /\ \A q \in MemberRecord!Sent : q.patch = MemberRecord!Nothing
        <3>1. OneMore(requests \ {r}, "reread", MemberRecord!Nothing)
            BY <2>1, <2>2, SendsOne, NothingIsAPatch DEF Control
        <3>2. QED
            BY <3>1 DEF OneMore
    <2>4. RecordTypeOK'
        BY <2>1, <2>3 DEF RecordInv, RecordTypeOK
    <2>5. RecordInv'
        BY <2>1, <2>2, <2>3, <2>4 DEF RecordInv
    <2>6. MemberRecord!AskedNow
        BY <2>3, NothingIsAPatch DEF MemberRecord!AskedNow
    <2>7. QED
        BY <2>5, <2>6
<1>11. ASSUME NEW r \in requests, MemberRecord!Written(r)
       PROVE  RecordInv' /\ MemberRecord!AskedNow
    <2>1. /\ r.mine /\ r.key # "load" /\ r.step = "answered"
          /\ requests' = requests \ {r} /\ UNCHANGED <<members, shown, asked, sent>>
        BY <1>11 DEF MemberRecord!Written, MemberRecord!Kept
    <2>2. requests' \subseteq RecordRequest' /\ MemberRecord!AskedNow
        BY <2>1, FewerRequests
    <2>3. record # None /\ record \in Record /\ r.target \in Member /\ r.answer \in Reading
        BY <2>1 DEF RecordInv, RecordTypeOK, RecordRequest
    <2>4. CASE r.key = "cert"
        <3>1. record' = [record EXCEPT !.is["cert"] = r.answer["cert"]] /\ UNCHANGED <<draft, asking>>
            BY <1>11, <2>4 DEF MemberRecord!Written
        <3>2. record' \in Record
            BY <2>3, <3>1, ChosenFields DEF Record, Reading
        <3>3. record' # None
            BY <3>2, RecordAssumption DEF Record, Reading
        <3>4. \A f \in Role \cup {"access"} : record'.is[f] = record.is[f]
            BY <2>3, <3>1, ChosenFields DEF Record, Reading
        <3>5. RecordTypeOK'
            BY <2>1, <2>2, <3>1, <3>2 DEF RecordInv, RecordTypeOK
        <3>6. QED
            BY <2>1, <2>2, <2>3, <3>1, <3>3, <3>4, <3>5 DEF RecordInv
    <2>5. CASE r.key # "cert"
        <3>1. MemberRecord!Shows(r.target, r.answer)
            BY <1>11, <2>5 DEF MemberRecord!Written
        <3>2. /\ record' \in Record /\ record' # None
              /\ draft' \in [Role -> BOOLEAN] /\ asking' \in BOOLEAN
              /\ \A f \in Role : draft'[f] = record'.is[f]
              /\ asking' => asked'["access"] = ~record'.is["access"]
            BY <2>1, <2>3, <3>1, ShowsKeepsRecord
        <3>3. RecordTypeOK'
            BY <2>1, <2>2, <3>2 DEF RecordInv, RecordTypeOK
        <3>4. QED
            BY <2>1, <2>2, <3>2, <3>3 DEF RecordInv
    <2>6. QED
        BY <2>4, <2>5
<1>12. ASSUME NEW r \in requests, MemberRecord!WriteFailed(r)
       PROVE  RecordInv' /\ MemberRecord!AskedNow
    <2>1. /\ requests' \subseteq requests \cup MemberRecord!Abandoned(requests)
          /\ UNCHANGED <<members, shown, asked, record, draft, asking, sent>>
        BY <1>12, AbandonedOne DEF MemberRecord!WriteFailed, MemberRecord!Kept
    <2>2. /\ requests' \subseteq RecordRequest' /\ MemberRecord!AskedNow
          /\ \A q \in requests' : q \in requests \/ (~q.mine /\ q.step = "sent")
        BY <2>1, FewerRequests
    <2>3. RecordTypeOK'
        BY <2>1, <2>2 DEF RecordInv, RecordTypeOK
    <2>4. QED
        BY <2>1, <2>2, <2>3 DEF RecordInv
<1>13. CASE MemberRecord!OtherAdminActs
    <2>1. UNCHANGED <<shown, record, draft, asking, requests, asked, sent>>
        BY <1>13 DEF MemberRecord!OtherAdminActs, MemberRecord!screen
    <2>2. PICK m \in Member, f \in MemberRecord!Field : members' = [members EXCEPT ![m][f] = ~@]
        BY <1>13 DEF MemberRecord!OtherAdminActs
    <2>3. members' \in [Member -> Reading]
        BY <2>2 DEF RecordInv, RecordTypeOK, Reading
    <2>4. requests' \subseteq RecordRequest'
        BY <2>1 DEF RecordInv, RecordTypeOK, RecordRequest
    <2>5. RecordTypeOK'
        BY <2>1, <2>3, <2>4 DEF RecordInv, RecordTypeOK
    <2>6. RecordInv'
        BY <2>1, <2>5 DEF RecordInv
    <2>7. QED
        BY <2>1, <2>4, <2>6, SendsNone
<1>14. CASE MemberRecord!AssignCard
    BY <1>8, <1>14 DEF MemberRecord!AssignCard, RecordInv, RecordTypeOK
<1>15. CASE MemberRecord!DeactivateCard
    <2>1. record.of \in Member
        BY <1>15 DEF MemberRecord!DeactivateCard, MemberRecord!Ready, RecordInv, RecordTypeOK, Record
    <2>2. QED
        BY <1>8, <1>15, <2>1 DEF MemberRecord!DeactivateCard
<1>16. CASE MemberRecord!SetCertification
    <2>1. shown \in Member
        BY DEF RecordInv, RecordTypeOK
    <2>2. (~record.is["cert"]) \in BOOLEAN
        OBVIOUS
    <2>3. QED
        BY <1>8, <1>16, <2>1, <2>2 DEF MemberRecord!SetCertification
<1>17. QED
    BY <1>1, <1>2, <1>3, <1>4, <1>5, <1>6, <1>7, <1>9, <1>10, <1>11, <1>12, <1>13, <1>14,
       <1>15, <1>16, HandleKeepsRecord
       DEF MemberRecord!Next, MemberRecord!Ends

(***************************************************************************)
(* The screens together.                                                   *)
(***************************************************************************)

\* The invariant of the screen that is open.
ScreenInv ==
    /\ screen = "signup" => JoinInv
    /\ screen = "members" => SessionInv
    /\ screen = "door" /\ app = "members" => DoorInv
    /\ screen = "member" => RecordInv

LEMMA ScreensKeepTheirs ==
    /\ Init => ScreenInv
    /\ ScreenInv /\ [Next]_vars => ScreenInv'
<1>1. Init => ScreenInv
    BY InitJoin, InitSession, InitDoor, InitRecord DEF Init, ScreenInv
<1>2. ASSUME ScreenInv, UNCHANGED vars
      PROVE  ScreenInv'
    <2>1. screen = "signup" => JoinInv'
        BY <1>2 DEF ScreenInv, JoinInv, JoinTypeOK, Whole, vars, signupOnly
    <2>2. screen = "members" => SessionInv'
        BY <1>2 DEF ScreenInv, SessionInv, AsksAboutTheCookie, FindsItsOwner, vars, membersOnly
    <2>3. screen = "door" /\ app = "members" => DoorInv'
        BY <1>2 DEF ScreenInv, DoorInv, DrawnInTime, InTime, vars, doorOnly
    <2>4. screen = "member" => RecordInv'
        BY <1>2 DEF ScreenInv, RecordInv, RecordTypeOK, RecordRequest, MemberRecord!Says, vars, memberOnly
    <2>5. QED
        BY <1>2, <2>1, <2>2, <2>3, <2>4 DEF ScreenInv, vars, doorOnly
<1>3. ASSUME ScreenInv, Next
      PROVE  ScreenInv'
    <2>1. CASE UsesMembers /\ MembersApplication!Next
        BY <1>3, <2>1, NextSession DEF UsesMembers, ScreenInv
    <2>2. CASE UsesSignup /\ Joining!Next
        BY <1>3, <2>2, NextJoin DEF UsesSignup, ScreenInv
    <2>3. CASE UsesMember /\ MemberRecord!Next
        BY <1>3, <2>3, NextRecord DEF UsesMember, ScreenInv
    <2>4. CASE UsesDoor /\ DoorControls!Next
        BY <1>3, <2>4, NextDoor, DoorStaysItsOwn DEF UsesDoor, ScreenInv
    <2>5. CASE UsesEnrolment /\ CardEnrolment!Next
        BY <2>5 DEF UsesEnrolment, ScreenInv
    <2>6. QED
        BY <1>3, <2>1, <2>2, <2>3, <2>4, <2>5 DEF Next
<1>4. QED
    BY <1>1, <1>2, <1>3

\* The guard "keeps the five screens in order" (router.ts:34-36 of apps/signup): however
\* somebody moves, reloads, sends again or loses the answer, every step before the screen
\* shown is filled in, and a receipt is of an account whose tier and release the API holds.
THEOREM ScreensAreEarned == Spec => []ScreenIsEarned
<1>1. ScreenInv => ScreenIsEarned
    BY DEF ScreenInv, ScreenIsEarned, JoinInv, Whole, Joining!ScreenIsEarned
<1>2. QED
    BY <1>1, ScreensKeepTheirs, PTL DEF Spec

\* The member the screens show holds the cookie (session.ts:45): for every number of
\* clicks and every order of answers, but for two things, and those only until a GET
\* /api/me asked with the new cookie, and alone, has ended: a cookie that changed while
\* one was on its way, and a sign-in whose answer broke off behind its cookie.
THEOREM ShownMemberIsTheCookies == Spec => []ShownMemberHoldsTheCookie
<1>1. ScreenInv => ShownMemberHoldsTheCookie
    BY DEF ScreenInv, ShownMemberHoldsTheCookie, SessionInv, MembersApplication!ShownMemberHoldsTheCookie
<1>2. QED
    BY <1>1, ScreensKeepTheirs, PTL DEF Spec

\* "A stale report is not a reading" (members DoorView.vue:58): a tile of the members' door
\* screen is drawn off a report that was fresh at most one poll and two timeouts ago, for every length of
\* poll, timeout and staleness window, however polls overlap and answers cross, unless a
\* poll's answer broke off.
THEOREM TilesStayRecent == Spec => []TilesAreRecent
<1>1. ScreenInv => TilesAreRecent
    BY DrawnInTimeIsRecent DEF ScreenInv, TilesAreRecent, DoorControls!TilesAreRecent
<1>2. QED
    BY <1>1, ScreensKeepTheirs, PTL DEF Spec

\* What an admin's screen of a member writes (MemberRolesForm.vue:75-90,
\* CardAccessControl.vue:88-94): for every set of roles and every number of requests and of
\* other admins' changes, each field a request carries has the value the admin last chose for
\* it, however the answers and those changes cross the clicks.
THEOREM OnlyTheChosenIsWritten == Spec => OnlyAskedIsWritten
<1>1. ScreenInv /\ [Next]_vars => [screen = "member" => MemberRecord!AskedNow]_vars
    BY NextRecord DEF Next, ScreenInv, UsesMembers, UsesSignup, UsesMember, UsesDoor, UsesEnrolment
<1>2. QED
    BY <1>1, ScreensKeepTheirs, PTL DEF Spec, OnlyAskedIsWritten
=============================================================================
