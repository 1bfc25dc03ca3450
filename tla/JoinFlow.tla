------------------------------ MODULE JoinFlow ------------------------------
(***************************************************************************)
(* Joining: the five screens of apps/signup over one draft, the guard that *)
(* keeps them in order, the one POST of the last step, and what the API    *)
(* makes of it, in two transactions.                                       *)
(*                                                                         *)
(* The draft is kept to what the steps decide: whose email it names once   *)
(* the account step is filled in, whether the emergency contact fits, the  *)
(* release, the tier.  Which errors are shown is left out.                 *)
(***************************************************************************)
EXTENDS Naturals

CONSTANTS
    Email,
    None,
    MaxSends    \* bound: how often the draft is sent from this tab

Step == {"account", "emergency", "waiver", "tier", "done"}
Tier == {"paying", "volunteer"}
Screen == Step \cup {"signed-in"}

VARIABLES
    accounts,   \* what the API holds: the tier recorded for an email, once it is
    cookie,     \* this browser holds a session
    signedIn,   \* what loadSession found when the page started
    route,      \* the screen shown
    history,    \* the screens of this tab's history
    draft,      \* join.draft
    submitting, \* join.submitting: the request the page waits for
    failure,    \* join.failure: what the last attempt came to
    created,    \* join.created: the account the API answered with
    requests,   \* every POST /api/signup sent
    sends

page == <<signedIn, route, history, draft, submitting, failure, created>>
vars == <<accounts, cookie, page, requests, sends>>

(***************************************************************************)
(* The draft and the guard.                                                *)
(***************************************************************************)

Fresh == [email |-> None, fits |-> TRUE, accepted |-> FALSE, tier |-> None]

\* The fields signupRequest refuses, by the screen that owns them.
Incomplete(d) ==
    {s \in {"account", "emergency", "waiver", "tier"} :
        \/ s = "account" /\ d.email = None
        \/ s = "emergency" /\ ~d.fits
        \/ s = "waiver" /\ ~d.accepted
        \/ s = "tier" /\ d.tier = None}

\* The screens before one, which a draft has to fill in to reach it.
Before(step) ==
    CASE step = "account"   -> {}
      [] step = "emergency" -> {"account"}
      [] step = "waiver"    -> {"account", "emergency"}
      [] step = "tier"      -> {"account", "emergency", "waiver"}
      [] step = "done"      -> Step

FirstIncompleteStep(d) ==
    IF Incomplete(d) = {} THEN "tier"
    ELSE CHOOSE s \in Incomplete(d) : Before(s) \cap Incomplete(d) = {}

\* A plausible mistake: only the receipt is guarded.
JoinGuardOfTheReceipt(to, d, account, member) ==
    CASE to = "signed-in"  -> to
      [] account # None    -> "done"
      [] member            -> "signed-in"
      [] OTHER             -> IF to = "done" /\ Incomplete(d) # {} THEN FirstIncompleteStep(d) ELSE to

\* Nobody skips ahead, an application that went through shows its receipt only, and
\* whoever is signed in has nothing to join.
JoinGuard(to, d, account, member) ==
    CASE to = "signed-in" -> to
      [] account # None   -> "done"
      [] member           -> "signed-in"
      [] OTHER            -> IF Before(to) \cap Incomplete(d) # {} \/ to = "done"
                             THEN FirstIncompleteStep(d) ELSE to

Goes(to) ==
    /\ route' = JoinGuard(to, draft', created', signedIn')
    /\ history' = history \cup {route'}

(***************************************************************************)
(* The screens.                                                            *)
(***************************************************************************)

\* A field of the screen shown.  The tier can be changed while it is being sent.
Edit ==
    /\ \/ route = "account"   /\ \E e \in Email \cup {None} : draft' = [draft EXCEPT !.email = e]
       \/ route = "emergency" /\ draft' = [draft EXCEPT !.fits = ~@]
       \/ route = "waiver"    /\ draft' = [draft EXCEPT !.accepted = ~@]
       \/ route = "tier"      /\ \E t \in Tier : draft' = [draft EXCEPT !.tier = t]
    /\ draft' # draft
    /\ UNCHANGED <<accounts, cookie, signedIn, route, history, submitting, failure, created, requests, sends>>

After(step) == CASE step = "account" -> "emergency" [] step = "emergency" -> "waiver" [] step = "waiver" -> "tier"
Previous(step) == CASE step = "emergency" -> "account" [] step = "waiver" -> "emergency" [] step = "tier" -> "waiver"

Moves(to) ==
    /\ UNCHANGED <<accounts, cookie, signedIn, draft, submitting, failure, created, requests, sends>>
    /\ Goes(to)

\* Continue, which a screen with an error refuses.
CarryOn == route \in {"account", "emergency", "waiver"} \ Incomplete(draft) /\ Moves(After(route))

\* Back, which the last step disables while it sends.
GoBack ==
    /\ route \in {"emergency", "waiver", "tier"}
    /\ route = "tier" => submitting = None
    /\ Moves(Previous(route))

\* The browser's own Back and Forward, which nothing disables.
Browse == \E to \in history \ {route} : Moves(to)

\* The page is loaded again, at any address: the draft is gone, what was sent is not.
Reload ==
    /\ signedIn' \in {FALSE, cookie}
    /\ draft' = Fresh /\ submitting' = None /\ failure' = None /\ created' = None
    /\ \E to \in Screen : Goes(to)
    /\ UNCHANGED <<accounts, cookie, requests, sends>>

(***************************************************************************)
(* Sending (submitJoin), and the API (signup.ts).                          *)
(***************************************************************************)

SubmitJoin ==
    /\ route = "tier" /\ submitting = None
    /\ Incomplete(draft) = {}
    /\ sends < MaxSends
    /\ sends' = sends + 1
    /\ submitting' = sends'
    /\ failure' = None
    /\ requests' = requests \cup
           {[id |-> sends', email |-> draft.email, tier |-> draft.tier, step |-> "sent"]}
    /\ UNCHANGED <<accounts, cookie, signedIn, route, history, draft, created>>

Advance(r, step) == requests' = (requests \ {r}) \cup {[r EXCEPT !.step = step]}

\* The account, which better-auth makes, or refuses when the email has one.
SignUpEmail(r) ==
    /\ r.step = "sent"
    /\ IF \E a \in accounts : a.email = r.email
       THEN Advance(r, "exists") /\ UNCHANGED accounts
       ELSE /\ Advance(r, "account")
            /\ accounts' = accounts \cup {[email |-> r.email, tier |-> None]}
    /\ UNCHANGED <<cookie, page, sends>>

\* The tier and the release, in one transaction, and then the answer.
RecordMemberAndWaiver(r) ==
    /\ r.step = "account"
    /\ Advance(r, "created")
    /\ accounts' = {IF a.email = r.email THEN [a EXCEPT !.tier = r.tier] ELSE a : a \in accounts}
    /\ UNCHANGED <<cookie, page, sends>>

SignupFails(r) ==
    /\ r.step \in {"sent", "account"}
    /\ Advance(r, "failed")
    /\ UNCHANGED <<accounts, cookie, page, sends>>

\* A plausible mistake: the button comes back only when the answer was read.
SignupEndedStillSending(r, outcome) ==
    /\ r.id = submitting
    /\ UNCHANGED <<accounts, signedIn, draft, requests, sends>>
    /\ IF outcome = "created"
       THEN created' = r.email /\ cookie' = TRUE /\ submitting' = None /\ Goes("done") /\ UNCHANGED failure
       ELSE failure' = outcome /\ UNCHANGED <<cookie, created, submitting, route, history>>

\* What the page is left with: the receipt, or why there is none.
SignupEnded(r, outcome) ==
    /\ r.id = submitting
    /\ UNCHANGED <<accounts, signedIn, draft, requests, sends>>
    /\ submitting' = None
    /\ IF outcome = "created"
       THEN created' = r.email /\ cookie' = TRUE /\ Goes("done") /\ UNCHANGED failure
       ELSE failure' = outcome /\ UNCHANGED <<cookie, created, route, history>>

SignupAnswered(r) == r.step \in {"created", "exists", "failed"} /\ SignupEnded(r, r.step)

\* The client's timeout, or a dropped connection: the API may do it all the same.
SignupUnanswered(r) == SignupEnded(r, "failed")

\* The body of the answer breaks off: the button comes back and nothing is said.
SignupCutOff(r) ==
    /\ r.id = submitting /\ r.step \in {"created", "exists", "failed"}
    /\ submitting' = None
    /\ cookie' = (cookie \/ r.step = "created")
    /\ UNCHANGED <<accounts, signedIn, route, history, draft, failure, created, requests, sends>>

(***************************************************************************)
(* The specification.                                                      *)
(***************************************************************************)

\* Somebody may have an account already, and this browser a session.
Init ==
    /\ accounts \in {{}} \cup {{[email |-> e, tier |-> "paying"]} : e \in Email}
    /\ cookie \in BOOLEAN
    /\ signedIn \in {FALSE, cookie}
    /\ draft = Fresh /\ submitting = None /\ failure = None /\ created = None
    /\ route = (IF signedIn THEN "signed-in" ELSE "account")
    /\ history = {route}
    /\ requests = {} /\ sends = 0

Next ==
    \/ Edit \/ CarryOn \/ GoBack \/ Browse \/ Reload \/ SubmitJoin
    \/ \E r \in requests :
           \/ SignUpEmail(r) \/ RecordMemberAndWaiver(r) \/ SignupFails(r)
           \/ SignupAnswered(r) \/ SignupUnanswered(r) \/ SignupCutOff(r)

Spec == Init /\ [][Next]_vars

\* The client gives every request a timeout.
Timed == \E r \in requests : SignupAnswered(r) \/ SignupUnanswered(r) \/ SignupCutOff(r)

(***************************************************************************)
(* Properties.                                                             *)
(***************************************************************************)

\* Whichever way a screen was reached, by a button, by the browser's Back and Forward or
\* by loading the page again, every step before it is filled in; and the receipt is shown
\* only for an account whose tier and release the API holds (router.ts:34-42).
ScreenIsEarned ==
    /\ route \in Step \ {"done"} => Before(route) \cap Incomplete(draft) = {}
    /\ route = "done" => \E a \in accounts : a.email = created /\ a.tier # None
=============================================================================
