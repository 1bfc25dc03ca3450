-------------------------------- MODULE Web ---------------------------------
(***************************************************************************)
(* A browser tab with one of the screens that keep state: the members      *)
(* application, the join form, and three parts of the admins' screens.     *)
(* Each is a module of its own; they run in different tabs or pages and    *)
(* share nothing but the API's client and its timeout, so one behaviour of *)
(* Web is a behaviour of one of them.  Variables named alike are the       *)
(* screen's; what a screen does not have is None.                          *)
(***************************************************************************)
EXTENDS Naturals, FiniteSets

CONSTANTS
    None,
    Member, MaxClicks, MaxEnds,
    Email, MaxSends,
    Role, MaxRequests, MaxOthers,
    Poll, Timeout, Stale,
    Card, MaxLost

ASSUME NoneAssumption == None \notin Member \cup Email \cup Card \cup Nat
ASSUME BoundsAssumption ==
    {MaxClicks, MaxEnds, MaxSends, MaxRequests, MaxOthers, Poll, Timeout, Stale, MaxLost} \subseteq Nat

VARIABLES
    screen,     \* which of them is open
    requests,   \* every screen has some
    sessions, link, state, inFlight, awaiting, working, overtaken, clicks, ends,
    accounts, signedIn, history, submitting, failure, created, sends, members, shown,
    record, asked, sent, others, app, reported, door, phase, cutOff, read, rows, queue, table,
    directory, failed, picked, assigning, busySlot, syncing, lost, cookie, route, draft,
    pending, error, busy, asking

MembersApplication == INSTANCE MembersApp
Joining == INSTANCE JoinFlow
MemberRecord == INSTANCE MemberScreen
DoorControls == INSTANCE DoorScreen
CardEnrolment == INSTANCE Enrolment

ASSUME TierAssumption == None \notin Joining!Tier
ASSUME RecordAssumption ==
    /\ Member # {}
    /\ Role \cap {"access", "card", "cert"} = {}
    /\ None \notin [of : Member, is : [MemberRecord!Field -> BOOLEAN]]

membersOnly == <<sessions, link, state, inFlight, awaiting, working, overtaken, clicks, ends>>
signupOnly == <<accounts, signedIn, history, submitting, failure, created, sends>>
memberOnly == <<members, shown, record, asked, sent, others>>
doorOnly == <<app, reported, door, phase, cutOff>>
enrolmentOnly == <<read, rows, queue, table, directory, failed, picked, assigning, busySlot, syncing,
    lost>>
vars == <<screen, requests, membersOnly, signupOnly, memberOnly, doorOnly, enrolmentOnly,
          cookie, route, draft, pending, error, busy, asking>>

NoMembers ==
    /\ sessions = None /\ link = None /\ state = None /\ inFlight = None
    /\ awaiting = None /\ working = None /\ overtaken = None /\ clicks = None
    /\ ends = None

NoSignup ==
    /\ accounts = None /\ signedIn = None /\ history = None /\ submitting = None
    /\ failure = None /\ created = None /\ sends = None

NoMember ==
    /\ members = None /\ shown = None /\ record = None /\ asked = None /\ sent = None
    /\ others = None

NoDoor ==
    /\ app = None /\ reported = None /\ door = None /\ phase = None /\ cutOff = None

NoEnrolment ==
    /\ read = None /\ rows = None /\ queue = None /\ table = None /\ directory = None
    /\ failed = None /\ picked = None /\ assigning = None /\ busySlot = None
    /\ syncing = None /\ lost = None

Init ==
    \/ /\ screen = "members" /\ MembersApplication!Init
       /\ NoSignup /\ NoMember /\ NoDoor /\ NoEnrolment /\ draft = None
       /\ pending = None /\ error = None /\ busy = None /\ asking = None
    \/ /\ screen = "signup" /\ Joining!Init
       /\ NoMembers /\ NoMember /\ NoDoor /\ NoEnrolment /\ pending = None
       /\ error = None /\ busy = None /\ asking = None
    \/ /\ screen = "member" /\ MemberRecord!Init
       /\ NoMembers /\ NoSignup /\ NoDoor /\ NoEnrolment /\ cookie = None
       /\ route = None
    \/ /\ screen = "door" /\ DoorControls!Init
       /\ NoMembers /\ NoSignup /\ NoMember /\ NoEnrolment /\ cookie = None
       /\ route = None /\ draft = None /\ asking = None
    \/ /\ screen = "enrolment" /\ CardEnrolment!Init
       /\ NoMembers /\ NoSignup /\ NoMember /\ NoDoor /\ cookie = None /\ route = None
       /\ draft = None /\ error = None /\ busy = None

UsesMembers ==
    /\ screen = "members"
    /\ UNCHANGED <<screen, signupOnly, memberOnly, doorOnly, enrolmentOnly, draft, pending,
                   error, busy, asking>>

UsesSignup ==
    /\ screen = "signup"
    /\ UNCHANGED <<screen, membersOnly, memberOnly, doorOnly, enrolmentOnly, pending, error,
                   busy, asking>>

UsesMember ==
    /\ screen = "member"
    /\ UNCHANGED <<screen, membersOnly, signupOnly, doorOnly, enrolmentOnly, cookie, route>>

UsesDoor ==
    /\ screen = "door"
    /\ UNCHANGED <<screen, membersOnly, signupOnly, memberOnly, enrolmentOnly, cookie, route,
                   draft, asking>>

UsesEnrolment ==
    /\ screen = "enrolment"
    /\ UNCHANGED <<screen, membersOnly, signupOnly, memberOnly, doorOnly, cookie, route, draft,
                   error, busy>>

Next ==
    \/ UsesMembers /\ MembersApplication!Next
    \/ UsesSignup /\ Joining!Next
    \/ UsesMember /\ MemberRecord!Next
    \/ UsesDoor /\ DoorControls!Next
    \/ UsesEnrolment /\ CardEnrolment!Next

Spec == Init /\ [][Next]_vars

(***************************************************************************)
(* Fairness: the browser keeps the timeouts and the timer of the screen    *)
(* that is open.                                                           *)
(***************************************************************************)

FairSpec ==
    /\ Spec
    /\ WF_vars(UsesMembers /\ MembersApplication!Timed)
    /\ WF_vars(UsesSignup /\ Joining!Timed)
    /\ \A id \in 1..MaxRequests : WF_vars(UsesMember /\ MemberRecord!Timed(id))
    /\ WF_vars(UsesDoor /\ DoorControls!Timed)
    /\ WF_vars(UsesEnrolment /\ CardEnrolment!PollNow)
    /\ WF_vars(UsesEnrolment /\ CardEnrolment!TimerHandled)
    /\ WF_vars(UsesEnrolment /\ CardEnrolment!TimerRead)

(***************************************************************************)
(* Properties.                                                             *)
(***************************************************************************)

\* Members application: the member shown is the one whose cookie the browser holds, but for
\* a cookie that changed while a GET /api/me was on its way, or with a sign-in's answer that
\* broke off, until one asked with it has been answered (session.ts, members auth.ts).
ShownMemberHoldsTheCookie == screen = "members" => MembersApplication!ShownMemberHoldsTheCookie

\* Joining: whichever way a screen was reached, the steps before it are filled in, and the
\* receipt is of an account the API has recorded whole (router.ts, join-flow.ts, signup.ts).
ScreenIsEarned == screen = "signup" => Joining!ScreenIsEarned

\* A member's record: nothing is written that the admin did not choose (MemberRolesForm.vue,
\* CardAccessControl.vue).
OnlyAskedIsWritten == [][screen = "member" => MemberRecord!AskedNow]_vars

\* A member's record: whatever is written is written to the member whose record the screen
\* shows (CardAccessControl.vue names that member in its question).
WritesGoToTheMemberShown == [][screen = "member" => MemberRecord!AboutTheMemberShown]_vars

\* The door: no tile and no control of the members' screen lives off a report older than the
\* staleness window, one poll and two timeouts, unless a poll's answer broke off (members
\* DoorView.vue).
TilesAreRecent == screen = "door" => DoorControls!TilesAreRecent

\* What the open screen waits for.
Waiting ==
    CASE screen = "members"   -> state.status = "loading" /\ route # "crashed"
      [] screen = "signup"    -> submitting # None
      [] screen = "member"    -> busy # None \/ pending
      [] screen = "door"      -> busy
      [] screen = "enrolment" -> queue # CardEnrolment!UnknownCards

\* Nothing waits for ever: the session is resolved or the page says it stopped, the last
\* step of joining comes back, so do an admin's controls and the door's buttons, and the
\* queue of unknown cards ends up as the API has it (client.ts, the `finally` of every handler, admin DoorView.vue).
NothingWaitsForEver == Waiting ~> ~Waiting
=============================================================================
