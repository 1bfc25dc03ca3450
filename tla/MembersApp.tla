----------------------------- MODULE MembersApp -----------------------------
(***************************************************************************)
(* The members application in one browser tab, and the API's sessions:     *)
(* the session every screen shares (packages/api-client), the router's     *)
(* guard, signing in and out, resetting a password, and saving one's own   *)
(* profile.                                                                *)
(*                                                                         *)
(* A click sends a request and returns.  Answers arrive in any order and   *)
(* run what waits for them, as the page was then left by whatever ran in   *)
(* between.                                                                *)
(***************************************************************************)
EXTENDS Naturals, FiniteSets

CONSTANTS
    Member,     \* who signs in at this browser
    None,       \* nobody, no session, no request
    MaxClicks,  \* bound: requests a member asks for
    MaxEnds     \* bound: sessions the API ends by itself

Route == {"overview", "door", "sign-in", "forgot-password", "reset-password"}

VARIABLES
    sessions,   \* the sessions the API knows
    link,       \* whose password the newest emailed link resets, until it has
    cookie,     \* the session this browser's cookie names
    state,      \* session.ts: the status and the member shown
    inFlight,   \* session.ts: the GET /api/me that loadSession and refreshSession join
    requests,   \* what was sent and not answered or given up yet
    awaiting,   \* who waits for which GET /api/me
    route,      \* the screen, "starting" until the session is loaded; "crashed" says so
                \* until the page is loaded again
    working,    \* the request the mounted screen disables its button for
    overtaken,  \* the cookie changed while a GET /api/me was on its way, or unseen, and
                \* none asked with the new one has put that right; no guard reads it
    clicks, ends

server == <<sessions, link, ends>>
session == <<state, inFlight>>
vars == <<server, cookie, session, requests, awaiting, route, working, overtaken, clicks>>

\* A session is the member it is for and the request that opened it.
Owner(s) == IF s = None THEN None ELSE s[1]

(***************************************************************************)
(* Requests.                                                               *)
(***************************************************************************)

Ids == 0..(2 * MaxClicks)
Lowest(S) == CHOOSE n \in S : \A k \in S : n <= k
NewId == Lowest(Ids \ {r.id : r \in requests})

\* The cookie goes with the request, and is what the API looks at.
Request(id, kind, who, jar) ==
    [id |-> id, kind |-> kind, who |-> who, cookie |-> jar, step |-> "sent", answer |-> None]

Asking(kind) == {r \in requests : r.kind = kind}

\* The middleware: the member of a session that is still there.
SignedIn(r) == IF r.cookie \in sessions THEN Owner(r.cookie) ELSE None

\* The API handles a request.  A password may be wrong, a link works once, and a
\* password that is reset ends every session of its member.
Handle(r) ==
    /\ r \in requests /\ r.step = "sent"
    /\ \E answer \in CASE r.kind = "sign-in"              -> {None, <<r.who, r.id>>}
                       [] r.kind \in {"me", "save"}       -> {SignedIn(r)}
                       [] r.kind \in {"sign-out", "mail"} -> {None}
                       [] r.kind = "reset"                -> {link} :
           /\ requests' = (requests \ {r}) \cup {[r EXCEPT !.step = "answered", !.answer = answer]}
           /\ sessions' = CASE r.kind = "sign-in"  -> sessions \cup ({answer} \ {None})
                            [] r.kind = "sign-out" -> sessions \ {r.cookie}
                            [] r.kind = "reset"    -> {s \in sessions : Owner(s) # answer}
                            [] OTHER               -> sessions
    /\ link' = CASE r.kind = "mail"  -> r.who
                 [] r.kind = "reset" -> None
                 [] OTHER            -> link
    /\ UNCHANGED <<ends, cookie, session, awaiting, route, working, overtaken, clicks>>

(***************************************************************************)
(* The session (session.ts).                                               *)
(***************************************************************************)

Idle == [status |-> "idle", me |-> None]

\* A plausible mistake: what a refresh started with is kept when it fails.
PublishedKeepingMe(member) ==
    IF member = None THEN [status |-> "signed-out", me |-> state.me]
    ELSE [status |-> "signed-in", me |-> member]

\* What fetchMember publishes in the end: nobody signed in and no answer are alike.
Published(member) ==
    IF member = None THEN [status |-> "signed-out", me |-> None]
    ELSE [status |-> "signed-in", me |-> member]

\* refreshSession, with the requests that are left and the cookie as it is then: a
\* request in flight is joined, else one is sent and the member shown stays meanwhile.
RefreshSession(left, jar, waiter) ==
    IF inFlight # None
    THEN /\ awaiting' = awaiting \cup {[call |-> inFlight, by |-> waiter]}
         /\ requests' = left
         /\ UNCHANGED session
    ELSE /\ awaiting' = awaiting \cup {[call |-> NewId, by |-> waiter]}
         /\ requests' = left \cup {Request(NewId, "me", None, jar)}
         /\ state' = [state EXCEPT !.status = "loading"]
         /\ inFlight' = NewId

(***************************************************************************)
(* The router (router.ts).                                                 *)
(***************************************************************************)

PublicRoutes == {"sign-in", "forgot-password", "reset-password"}
PublicWhileSignedIn == {"reset-password"}

NextRoute(to, status) ==
    CASE status # "signed-in" /\ to \notin PublicRoutes -> "sign-in"
      [] status = "signed-in" /\ to \in PublicRoutes \ PublicWhileSignedIn -> "overview"
      [] OTHER -> to

\* A screen that is left goes, its disabled button with it.  After a crash none is shown.
Show(to, kept) ==
    /\ route' = IF route = "crashed" THEN route ELSE to
    /\ working' = IF to = route THEN kept ELSE None

\* A link, the address bar's history, or the tab bar, which shows while a member does.
Navigate(to) ==
    /\ route \notin {"starting", "crashed"} /\ to \in Route /\ NextRoute(to, state.status) # route
    /\ Show(NextRoute(to, state.status), working)
    /\ UNCHANGED <<server, cookie, session, requests, awaiting, overtaken, clicks>>

(***************************************************************************)
(* What a member does.                                                     *)
(***************************************************************************)

Click(kind, who) ==
    /\ clicks < MaxClicks
    /\ clicks' = clicks + 1
    /\ requests' = requests \cup {Request(NewId, kind, who, cookie)}
    /\ UNCHANGED <<server, cookie, session, awaiting, route, overtaken>>

\* The one form of a screen, its button disabled until it has an answer.
Submit(screen, kind, who) ==
    /\ route = screen /\ working = None
    /\ Click(kind, who)
    /\ working' = NewId

SubmitSignIn == \E m \in Member : Submit("sign-in", "sign-in", m)
RequestPasswordReset == \E m \in Member : Submit("forgot-password", "mail", m)
ResetPassword == Submit("reset-password", "reset", None)
SaveProfile == Submit("overview", "save", None)

\* The button is there while a member is shown, and is never disabled.
Leave == state.me # None /\ Click("sign-out", None) /\ UNCHANGED working

(***************************************************************************)
(* Answers.                                                                *)
(***************************************************************************)

\* What becomes of `overtaken` when an answer is read that may have changed the cookie.
Outlived == overtaken \/ (cookie' # cookie /\ Asking("me") # {})
Done(r) == IF working = r.id THEN None ELSE working

\* The new cookie is there when the answer is read.
SignInAnswered(r) ==
    /\ r \in Asking("sign-in") /\ r.step = "answered"
    /\ IF r.answer = None
       THEN /\ requests' = requests \ {r}
            /\ working' = Done(r)
            /\ UNCHANGED <<cookie, session, awaiting, overtaken>>
       ELSE /\ cookie' = r.answer
            /\ overtaken' = Outlived
            /\ RefreshSession(requests \ {r}, r.answer, [handler |-> "sign-in", id |-> r.id])
            /\ UNCHANGED working
    /\ UNCHANGED <<server, route, clicks>>

\* The browser takes the cookie from an answer's head.  When its body then breaks off,
\* the screen says that nothing was sent, and nobody asks who is signed in now.
SignInCutOff(r) ==
    /\ r \in Asking("sign-in") /\ r.step = "answered" /\ r.answer # None
    /\ cookie' = r.answer
    /\ overtaken' = TRUE
    /\ requests' = requests \ {r}
    /\ working' = Done(r)
    /\ UNCHANGED <<server, session, awaiting, route, clicks>>

\* Answered, with the cookie taken away, or not: either way the session is cleared
\* and the guard, which finds nobody, lets the sign in screen through.  But a refusal,
\* no answer and one that breaks off go on past the handler, and the page crashes.
SignOutEnded(r) ==
    /\ r \in Asking("sign-out")
    /\ \/ r.step = "answered" /\ cookie' = None /\ Show("sign-in", working)
       \/ /\ \/ r.step = "answered" /\ cookie' = None
             \/ UNCHANGED cookie
          /\ route' = "crashed" /\ working' = None
    /\ requests' = requests \ {r}
    /\ overtaken' = Outlived
    /\ state' = Idle /\ inFlight' = None
    /\ UNCHANGED <<server, awaiting, clicks>>

\* The app bar has to hear about a rename.
SaveAnswered(r) ==
    /\ r \in Asking("save") /\ r.step = "answered"
    /\ IF r.answer = None
       THEN requests' = requests \ {r} /\ working' = Done(r) /\ UNCHANGED <<session, awaiting>>
       ELSE /\ RefreshSession(requests \ {r}, cookie, [handler |-> "save", id |-> r.id])
            /\ UNCHANGED working
    /\ UNCHANGED <<server, cookie, route, overtaken, clicks>>

\* What waits for a GET /api/me that ended goes on in the same turn: the start of the
\* page and a sign-in that found its member move on, as the guard sees it by then.
MeEnded(r, member) ==
    LET woken == {w.by : w \in {w \in awaiting : w.call = r.id}}
        moves == \E w \in woken : w.handler = "start" \/ (w.handler = "sign-in" /\ member # None)
        free == IF \E w \in woken : w.id = working THEN None ELSE working
    IN  /\ state' = Published(member)
        /\ inFlight' = None
        /\ requests' = requests \ {r}
        /\ overtaken' = (overtaken /\ (r.cookie # cookie \/ Asking("me") # {r}))
        /\ awaiting' = {w \in awaiting : w.call # r.id}
        /\ IF moves THEN \E to \in Route : Show(NextRoute(to, Published(member).status), free)
           ELSE working' = free /\ UNCHANGED route
        /\ UNCHANGED <<server, cookie, clicks>>

MeAnswered(r) == r \in Asking("me") /\ r.step = "answered" /\ MeEnded(r, r.answer)

\* The timeout of the API's client, a dropped connection, an answer that makes no sense.
MeFailed(r) == r \in Asking("me") /\ MeEnded(r, None)

\* An answer whose body breaks off is none of these (client.ts reads it outside its
\* `try`): what waits for it throws, past every handler, and the page says it stopped.
Crash(r) ==
    /\ requests' = requests \ {r}
    /\ route' = "crashed" /\ working' = None
    /\ UNCHANGED <<server, cookie, state, overtaken, clicks>>

MeCutOff(r) ==
    /\ r \in Asking("me") /\ r.step = "answered"
    /\ inFlight' = None
    /\ awaiting' = {w \in awaiting : w.call # r.id}
    /\ Crash(r)

SaveCutOff(r) ==
    /\ r \in Asking("save") /\ r.step = "answered"
    /\ Crash(r) /\ UNCHANGED <<inFlight, awaiting>>

\* The screen says what came of it; no answer at all leaves it open whether the API
\* did it, and the cookie as it was.
Settled(r) ==
    /\ \/ r.kind \in {"mail", "reset"}
       \/ r.kind \in {"sign-in", "save"}  \* no answer
    /\ requests' = requests \ {r}
    /\ working' = Done(r)
    /\ UNCHANGED <<server, cookie, session, awaiting, route, overtaken, clicks>>

\* A session runs out, or a password reset at another browser ends it.
SessionEnds ==
    /\ ends < MaxEnds
    /\ ends' = ends + 1
    /\ \E s \in sessions : sessions' = sessions \ {s}
    /\ UNCHANGED <<link, cookie, session, requests, awaiting, route, working, overtaken, clicks>>

(***************************************************************************)
(* The specification.                                                      *)
(***************************************************************************)

\* The page was loaded, with or without a session, and asks who is signed in.
Init ==
    /\ cookie \in {None} \cup {<<m, 0>> : m \in Member}
    /\ sessions = {cookie} \ {None} /\ link = None
    /\ state = [status |-> "loading", me |-> None]
    /\ inFlight = 0
    /\ requests = {Request(0, "me", None, cookie)}
    /\ awaiting = {[call |-> 0, by |-> [handler |-> "start", id |-> 0]]}
    /\ route = "starting"
    /\ working = None
    /\ overtaken = FALSE
    /\ clicks = 0 /\ ends = 0

Ends(r) ==
    \/ SignInAnswered(r) \/ SignInCutOff(r) \/ SignOutEnded(r) \/ SaveAnswered(r)
    \/ MeAnswered(r) \/ MeFailed(r) \/ MeCutOff(r) \/ SaveCutOff(r) \/ Settled(r)

Next ==
    \/ \E to \in Route : Navigate(to)
    \/ SubmitSignIn \/ RequestPasswordReset \/ ResetPassword \/ SaveProfile \/ Leave
    \/ \E r \in requests : Handle(r) \/ Ends(r)
    \/ SessionEnds

Spec == Init /\ [][Next]_vars

\* Only what goes through the API's client ends by itself: better-auth's has no timeout.
Timed == \E r \in Asking("me") : r.id = inFlight /\ Ends(r)

(***************************************************************************)
(* Properties.                                                             *)
(***************************************************************************)

\* Once a refresh has settled, the member shown is the one whose cookie this browser
\* holds, and nobody without one (session.ts:45).  Two things may put that off until a
\* GET /api/me asked with the new cookie, and no older one with it, has been answered:
\* a cookie that changed while one was on its way, which joins or overtakes it, and a
\* sign-in whose answer set its cookie and broke off (auth.ts:66-73).
ShownMemberHoldsTheCookie ==
    state.status # "loading" /\ state.me # None => Owner(cookie) = state.me \/ overtaken
=============================================================================
