---------------------------- MODULE MemberScreen ----------------------------
(***************************************************************************)
(* An admin's screen of one member (apps/admin MemberView.vue and the four *)
(* components under it), while other admins change the same members.       *)
(*                                                                         *)
(* Every control sends its own request and waits for it alone; answers     *)
(* arrive in any order.  A member is kept as yes-or-no fields, a card and   *)
(* a certification among them; which refusal is shown is left out.  Who    *)
(* writes first at the API, and what it records, is module Members.        *)
(***************************************************************************)
EXTENDS Naturals

CONSTANTS
    Member,
    None,
    Role,         \* the fields of the roles form
    MaxRequests,  \* bound: requests of this tab
    MaxOthers     \* bound: changes other admins make

Field == Role \cup {"access", "card", "cert"}
Chosen == Role \cup {"access"}   \* what is chosen first and sent by a second click

VARIABLES
    members,    \* what the API holds
    shown,      \* memberId: the member of the address
    record,     \* whose record is on the screen, and what it says
    pending, error,
    busy,       \* the control whose button says Saving
    draft,      \* the roles form
    asking,     \* the access question is open
    requests,
    asked,      \* what the admin last chose, field by field
    sent, others

screen == <<shown, record, pending, error, busy, draft, asking>>
vars == <<members, screen, requests, asked, sent, others>>

(***************************************************************************)
(* Requests.  mine: the screen that sent it is still there.                *)
(***************************************************************************)

\* target: the member it reads or writes.
Request(key, target, patch) ==
    [id |-> sent + 1, key |-> key, target |-> target, patch |-> patch,
     step |-> "sent", answer |-> None, mine |-> TRUE]

Sends(left, key, target, patch) ==
    /\ sent < MaxRequests
    /\ sent' = sent + 1
    /\ requests' = left \cup {Request(key, target, patch)}

Nothing == [f \in {} |-> TRUE]

\* What goes on at the API when nobody waits for it: a write; a read changes nothing.
Abandoned(R) == {[r EXCEPT !.mine = FALSE] : r \in {r \in R : r.step = "sent" /\ r.patch # Nothing}}

\* The API carries it out and answers with the record as it is then, which only a
\* screen that still waits for it reads.
Handle(r) ==
    /\ r.step = "sent"
    /\ members' = [members EXCEPT ![r.target] =
                      [f \in Field |-> IF f \in DOMAIN r.patch THEN r.patch[f] ELSE @[f]]]
    /\ requests' = (requests \ {r}) \cup
           (IF r.mine THEN {[r EXCEPT !.step = "answered", !.answer = members'[r.target]]} ELSE {})
    /\ UNCHANGED <<screen, asked, sent, others>>

\* Another admin changes a field.
OtherAdminActs ==
    /\ others < MaxOthers
    /\ others' = others + 1
    /\ \E m \in Member, f \in Field : members' = [members EXCEPT ![m][f] = ~@]
    /\ UNCHANGED <<screen, requests, asked, sent>>

(***************************************************************************)
(* What the screen shows.                                                  *)
(***************************************************************************)

Says(f) == record.is[f]

\* A plausible mistake: the form is filled in once and keeps what it has.
ShowsAroundTheForm(of, is) ==
    /\ record' = [of |-> of, is |-> is]
    /\ draft' = IF record = None THEN [f \in Role |-> is[f]] ELSE draft
    /\ asking' = (asking /\ (record # None => Says("access") = is["access"]))

\* A new record fills in the roles form again, and closes a question that is stale.
Shows(of, is) ==
    /\ record' = [of |-> of, is |-> is]
    /\ draft' = [f \in Role |-> is[f]]
    /\ asking' = (asking /\ (record # None => Says("access") = is["access"]))

\* Changes the roles form holds, against the record on the screen.
Changes == [f \in {f \in Role : draft[f] # Says(f)} |-> draft[f]]

Ready == record # None /\ ~pending /\ ~error

(***************************************************************************)
(* What the admin does.                                                    *)
(***************************************************************************)

\* A link from the directory or the audit log: a new screen, which loads.
Open(m) ==
    /\ shown' = m
    /\ record' = None /\ pending' = TRUE /\ error' = FALSE
    /\ busy' = None /\ asking' = FALSE
    /\ draft' = [f \in Role |-> FALSE]
    /\ Sends(Abandoned(requests), "load", m, Nothing)
    /\ asked' = [f \in Chosen |-> None]
    /\ UNCHANGED <<members, others>>

\* The tab's history jumps from one member to another: the router keeps the screen and
\* changes the member it is about.
JumpTo(m) ==
    /\ m # shown
    /\ shown' = m
    /\ UNCHANGED <<members, record, pending, error, busy, draft, asking, requests, asked, sent, others>>

Retry ==
    /\ error /\ ~pending
    /\ pending' = TRUE /\ error' = FALSE
    /\ UNCHANGED <<members, shown, record, busy, draft, asking, asked, others>>
    /\ Sends(requests, "load", shown, Nothing)

ChangeRole(f) ==
    /\ Ready
    /\ draft' = [draft EXCEPT ![f] = ~@]
    /\ asked' = [asked EXCEPT ![f] = ~draft[f]]
    /\ UNCHANGED <<members, shown, record, pending, error, busy, asking, requests, sent, others>>

AskForAccess ==
    /\ Ready /\ busy # "access"
    /\ asking' = ~asking
    /\ asked' = [asked EXCEPT !["access"] = IF asking THEN @ ELSE ~Says("access")]
    /\ UNCHANGED <<members, shown, record, pending, error, busy, draft, requests, sent, others>>

\* One write, with the busy flag of its own control (run).
Run(key, target, patch) ==
    /\ Ready /\ busy # key
    /\ busy' = key
    /\ UNCHANGED <<members, shown, record, pending, error, draft, asking, asked, others>>
    /\ Sends(requests, key, target, patch)

\* The member written to is the one the address names by then.
SaveProfile == Ready /\ DOMAIN Changes # {} /\ Run("profile", shown, Changes)
SetCardAccess == asking /\ Run("access", shown, [f \in {"access"} |-> ~Says("access")])
AssignCard == Run("card", shown, [f \in {"card"} |-> TRUE])
SetCertification == Run("cert", shown, [f \in {"cert"} |-> ~Says("cert")])

\* A card is deactivated by its slot, so it is that of the member on the screen.
DeactivateCard ==
    Ready /\ Says("card") /\ Run("card", record.of, [f \in {"card"} |-> FALSE])

(***************************************************************************)
(* Answers.                                                                *)
(***************************************************************************)

Kept == UNCHANGED <<members, shown, asked, others>>

\* An answer whose body breaks off is an error nobody shows.
Loaded(r) ==
    /\ r.mine /\ r.key = "load"
    /\ pending' = FALSE
    /\ requests' = requests \ {r}
    /\ \/ r.step = "answered" /\ Shows(r.target, r.answer) /\ UNCHANGED error
       \/ error' \in {TRUE, error} /\ UNCHANGED <<record, draft, asking>>
    /\ Kept /\ UNCHANGED <<busy, sent>>

\* The answer to a card write sends a second request, for the member of the address by
\* then; the button stays busy.
CardWritten(r) ==
    /\ r.mine /\ r.key = "card" /\ r.step = "answered"
    /\ Kept /\ UNCHANGED <<record, pending, error, busy, draft, asking>>
    /\ Sends(requests \ {r}, "reread", shown, Nothing)

\* The record the answer carries, or for a certification that part of it; whichever
\* control is busy by then, none is left so.
Written(r) ==
    /\ r.mine /\ r.key \in {"profile", "access", "cert", "reread"} /\ r.step = "answered"
    /\ requests' = requests \ {r}
    /\ IF r.key = "cert"
       THEN record' = [record EXCEPT !.is["cert"] = r.answer["cert"]] /\ UNCHANGED <<draft, asking>>
       ELSE Shows(r.target, r.answer)
    /\ busy' = None
    /\ Kept /\ UNCHANGED <<pending, error, sent>>

\* Refused, or no answer in time, which leaves it open whether it is done.
WriteFailed(r) ==
    /\ r.mine /\ r.key # "load"
    /\ requests' \in {requests \ {r}, (requests \ {r}) \cup Abandoned({r})}
    /\ busy' = None
    /\ Kept /\ UNCHANGED <<record, pending, error, draft, asking, sent>>

(***************************************************************************)
(* The specification.                                                      *)
(***************************************************************************)

Init ==
    /\ members = [m \in Member |-> [f \in Field |-> FALSE]]
    /\ shown = CHOOSE m \in Member : TRUE   \* one of them: they are alike
    /\ record = None /\ pending = TRUE /\ error = FALSE
    /\ busy = None /\ asking = FALSE
    /\ draft = [f \in Role |-> FALSE]
    /\ sent = 1
    /\ requests = {[id |-> 1, key |-> "load", target |-> shown, patch |-> Nothing,
                    step |-> "sent", answer |-> None, mine |-> TRUE]}
    /\ asked = [f \in Chosen |-> None]
    /\ others = 0

Ends(r) == Loaded(r) \/ CardWritten(r) \/ Written(r) \/ WriteFailed(r)

Next ==
    \/ \E m \in Member : Open(m) \/ JumpTo(m)
    \/ Retry
    \/ \E f \in Role : ChangeRole(f)
    \/ AskForAccess \/ SaveProfile \/ SetCardAccess
    \/ AssignCard \/ DeactivateCard \/ SetCertification
    \/ \E r \in requests : Handle(r) \/ Ends(r)
    \/ OtherAdminActs

Spec == Init /\ [][Next]_vars

\* The client gives every request a timeout.
Timed(id) == \E r \in requests : r.id = id /\ Ends(r)

(***************************************************************************)
(* Properties.                                                             *)
(***************************************************************************)

\* What a step sends.
Sent == {r \in requests' : r.id > sent}

\* Whatever answers and whatever other admins' changes arrive between the click that asks
\* for a change and the one that sends it, nothing is written that the admin did not ask
\* for: the form never writes back a field somebody else changed, and the access question
\* never turns round under the finger (MemberRolesForm.vue:75-90, CardAccessControl.vue:88-94).
AskedNow == \A r \in Sent : \A f \in DOMAIN r.patch \cap Chosen : r.patch[f] = asked'[f]

\* "Give <name> card access?" (CardAccessControl.vue:78-82): a request is about the member
\* whose record the screen shows.
AboutTheMemberShown == \A r \in Sent : DOMAIN r.patch # {} => record.of = r.target
=============================================================================
