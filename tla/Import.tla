------------------------------- MODULE Import -------------------------------
(***************************************************************************)
(* The one-time copy of the legacy Rails members database (tools/import):  *)
(* the reads in one snapshot, the preflight, and one transaction that      *)
(* checks the target is empty, writes table after table, counts both       *)
(* sides and commits.  Meanwhile the Rails application may still be up,    *)
(* the sign-up page of the new one may be, a second import may have been   *)
(* started, and a connection may drop.                                     *)
(***************************************************************************)
EXTENDS Integers, FiniteSets, Sequences

CONSTANTS
    Importer,        \* runs of the tool
    Null,            \* null in a column
    Email,           \* addresses as Rails held them
    CanonicalEmail,  \* trimmed and lowercased, as a function on Email
    BlankEmail,      \* the canonical form of an address that is blank
    Number,          \* card numbers as Rails held them
    Canonical,       \* eight upper case hex characters, as a function on Number
    Unreadable,      \* in its range: the number is not eight hex characters or fewer
    NotDecimal,      \* an amount that is not money
    IntegerLimit,    \* the widest value an integer column holds: cents, ids
    HighestSlot,     \* HIGHEST_WRITABLE_SLOT
    WebEmail,        \* canonical addresses people sign up with meanwhile
    Starts,          \* the legacy database and the runs of the tool, to begin with
    MaxEdits,        \* bound: edits in Rails
    MaxSignUps,      \* bound: sign-ups
    MaxFaults        \* bound: dropped connections

ASSUME EmailAssumption == CanonicalEmail \in [Email -> Email] /\ BlankEmail \in Email
ASSUME NumberAssumption == DOMAIN Canonical = Number /\ Null \notin Number
ASSUME NullAssumption == Null \notin Int \cup (Importer \X Int)
ASSUME LimitsAssumption == {IntegerLimit, HighestSlot} \subseteq Nat
ASSUME BoundsAssumption == {MaxEdits, MaxSignUps, MaxFaults} \subseteq Nat

Option == {"--dry-run", "--accept-orphans"}

\* What the Rails schema declares (legacy.ts): ids, slots, masks and the members other
\* rows name are integer columns, most of them nullable.
IsLegacy(s) ==
    /\ DOMAIN s = {"users", "cards", "certifications", "userCertifications", "payments", "contracts"}
    /\ s = [t \in DOMAIN s |-> s[t]]
    /\ \A t \in DOMAIN s : DOMAIN s[t] \subseteq (-IntegerLimit - 1)..IntegerLimit
    /\ \A u \in DOMAIN s.users : s.users[u].email \in Email
    /\ s.cards \in [DOMAIN s.cards -> [number : Number \cup {Null}, permissions : Int \cup {Null},
                                      userId : Int \cup {Null}]]
    /\ \A p \in DOMAIN s.payments : s.payments[p].amount \in Int \cup {Null, NotDecimal}

ASSUME StartsAssumption ==
    \A start \in Starts :
        IsLegacy(start.legacy) /\ DOMAIN start.options \subseteq Importer /\ start.calm \in BOOLEAN

VARIABLES
    legacy,    \* the Rails database
    options,   \* the options of each run that is started
    step,      \* where each run is
    todo,      \* the tables, or counts, left in that step
    source,    \* the snapshot each run's read transaction sees
    snapshot,  \* what it has read of it
    counts,    \* what the legacy database counted
    findings,  \* what the preflight found
    tx,        \* what its transaction wrote
    skipped,   \* rows the loader left behind, by table
    agrees,    \* every line counted so far agrees
    target,    \* the members database, as committed
    said,      \* what the run told the operator
    calm,      \* nothing happens meanwhile
    edits, signUps, faults

run == <<options, step, todo, source, snapshot, counts, findings, tx, skipped, agrees, said>>
bounds == <<calm, edits, signUps, faults>>
vars == <<legacy, run, target, bounds>>

(***************************************************************************)
(* Values (transform.ts).                                                  *)
(***************************************************************************)

\* An amount is a whole number of tenths of a cent: what is finer is no cent.
FitsInCents(amount) ==
    \/ amount = Null
    \/ /\ amount # NotDecimal
       /\ amount % 10 = 0
       /\ amount \div 10 \in -IntegerLimit..IntegerLimit

AmountToCents(amount) == IF amount = Null THEN 0 ELSE amount \div 10

MembersWithCardAccess(s) ==
    {s.cards[c].userId : c \in {c \in DOMAIN s.cards : s.cards[c].permissions = 1}} \ {Null}

(***************************************************************************)
(* The preflight (preflight.ts), over a snapshot.                          *)
(***************************************************************************)

\* A finding names the rows it is about.
Report(severity, check, ids, orphan) ==
    IF ids = {} THEN {}
    ELSE {[severity |-> severity, check |-> check, ids |-> ids, orphan |-> orphan]}

Refuse(check, ids) == Report("refusal", check, ids, FALSE)
RefuseOrphan(check, ids) == Report("refusal", check, ids, TRUE)
Notice(check, ids) == Report("notice", check, ids, FALSE)

\* The rows that share their key with another; key gives each row its own.
Duplicates(key) == {r \in DOMAIN key : \E q \in DOMAIN key \ {r} : key[q] = key[r]}

\* bcrypt writes one of three prefixes; `spaces` is blank to the tool and, where it
\* is not spaces alone, not to btrim.
BlankHash == {Null, "", "white"}
Credentials(s) == {u \in DOMAIN s.users : s.users[u].hash \notin {Null, ""}}
HasPassword(s) == {u \in DOMAIN s.users : s.users[u].hash \notin BlankHash}

\* A plausible mistake: addresses are compared as they are spelt.
CheckMemberIdentityAsSpelt(users) ==
    LET email == [u \in DOMAIN users |-> users[u].email]
    IN  Refuse("blank email", {u \in DOMAIN users : CanonicalEmail[users[u].email] = BlankEmail})
        \cup Refuse("duplicate email", Duplicates(email))
        \cup Refuse("blank name", {u \in DOMAIN users : ~users[u].named})

CheckMemberIdentity(users) ==
    LET email == [u \in DOMAIN users |-> CanonicalEmail[users[u].email]]
    IN  Refuse("blank email", {u \in DOMAIN users : email[u] = BlankEmail})
        \cup Refuse("duplicate email", Duplicates(email))
        \cup Refuse("blank name", {u \in DOMAIN users : ~users[u].named})
        \cup Notice("email is not lowercase", {u \in DOMAIN users : users[u].email # email[u]})

CheckMemberCredentials(users) ==
    Refuse("unexpected password hash", {u \in DOMAIN users : users[u].hash \notin BlankHash \cup {"bcrypt"}})
    \cup Notice("no password set", {u \in DOMAIN users : users[u].hash \in BlankHash})
    \cup Notice("oriented by an unknown member",
                {u \in DOMAIN users : users[u].orientedBy \notin DOMAIN users \cup {Null}})

UnreadableNumber(card) == card.number = Null \/ Canonical[card.number] = Unreadable

CheckCardNumbers(cards, known) ==
    LET readable == {c \in DOMAIN cards : ~UnreadableNumber(cards[c])}
        number == [c \in readable |-> Canonical[cards[c].number]]
    IN  Refuse("card number unreadable", DOMAIN cards \ readable)
        \cup Refuse("duplicate card number", Duplicates(number))
        \cup Refuse("orphan card", {c \in DOMAIN cards : cards[c].userId \notin known})
        \cup Refuse("no permission mask", {c \in DOMAIN cards : cards[c].permissions = Null})

CheckCardSlots(cards) ==
    Refuse("card slot outside the table", {c \in DOMAIN cards : c \notin 0..HighestSlot})
    \cup Notice("card slot the reader cannot see", {c \in DOMAIN cards : c = HighestSlot})

CheckCertificationList(certifications) ==
    LET slug == [c \in DOMAIN certifications |-> certifications[c].slug]
    IN  Refuse("certification without a slug", {c \in DOMAIN certifications : slug[c] = Null})
        \cup Refuse("duplicate certification slug", Duplicates(slug))

\* A plausible mistake: only the member is looked up, and a tool that is gone is not seen.
OrphanGrantsOfMembers(s) ==
    {g \in DOMAIN s.userCertifications : s.userCertifications[g].userId \notin DOMAIN s.users}

OrphanGrants(s) ==
    {g \in DOMAIN s.userCertifications :
        \/ s.userCertifications[g].userId \notin DOMAIN s.users
        \/ s.userCertifications[g].certificationId \notin DOMAIN s.certifications}

CheckCertificationGrants(s) ==
    LET grants == s.userCertifications
        held == [g \in DOMAIN grants \ OrphanGrants(s) |->
                    <<grants[g].userId, grants[g].certificationId>>]
    IN  RefuseOrphan("orphan certification grant", OrphanGrants(s))
        \cup Notice("granted twice", Duplicates(held))
        \cup Notice("granted by an unknown member",
                    {g \in DOMAIN grants : grants[g].createdBy \notin DOMAIN s.users \cup {Null}})

CheckPaymentAmounts(payments) ==
    Refuse("payment amount", {p \in DOMAIN payments : ~FitsInCents(payments[p].amount)})
    \cup Notice("payment with no amount", {p \in DOMAIN payments : payments[p].amount = Null})

CheckPaymentOwnership(payments, known) ==
    RefuseOrphan("orphan payment", {p \in DOMAIN payments : payments[p].userId \notin known})
    \cup RefuseOrphan("payment with no date", {p \in DOMAIN payments : ~payments[p].dated})
    \cup Notice("payment recorded by an unknown member",
                {p \in DOMAIN payments : payments[p].createdBy \notin known \cup {Null}})

CheckContracts(contracts, known) ==
    RefuseOrphan("orphan signed release", {c \in DOMAIN contracts : contracts[c].userId \notin known})
    \cup Notice("release with no signing date", {c \in DOMAIN contracts : ~contracts[c].signed})

Preflight(s) ==
    LET known == DOMAIN s.users
    IN  CheckMemberIdentity(s.users) \cup CheckMemberCredentials(s.users)
        \cup CheckCardNumbers(s.cards, known) \cup CheckCardSlots(s.cards)
        \cup CheckCertificationList(s.certifications) \cup CheckCertificationGrants(s)
        \cup CheckPaymentAmounts(s.payments) \cup CheckPaymentOwnership(s.payments, known)
        \cup CheckContracts(s.contracts, known)

Refusals(found, acceptOrphans) ==
    {f \in found : f.severity = "refusal" /\ ~(f.orphan /\ acceptOrphans)}

(***************************************************************************)
(* What each table is given (load.ts).  A row that other rows may name     *)
(* carries the id generated for it: whose it is, and which.                *)
(***************************************************************************)

Web == "web"  \* rows that came from the sign-up page
ASSUME WebAssumption == Web \notin Importer

MemberId(i, u) == <<i, u>>

\* A pointer at a member who is gone is dropped.
Known(i, s, u) == IF u \in DOMAIN s.users THEN MemberId(i, u) ELSE Null

UserRows(i, s) ==
    {[id |-> MemberId(i, u), legacyId |-> u, email |-> CanonicalEmail[s.users[u].email],
      orientedBy |-> Null, cardAccess |-> u \in MembersWithCardAccess(s)] : u \in DOMAIN s.users}

AccountRows(i, s) ==
    {[userId |-> MemberId(i, u)] : u \in HasPassword(s)}

CardRows(i, s) ==
    {[id |-> c, cardNumber |-> Canonical[s.cards[c].number], userId |-> MemberId(i, s.cards[c].userId),
      permissions |-> s.cards[c].permissions] : c \in DOMAIN s.cards}

CertificationRows(s) == {[id |-> c, slug |-> s.certifications[c].slug] : c \in DOMAIN s.certifications}

CarriedGrants(s) ==
    {g \in DOMAIN s.userCertifications :
        /\ s.userCertifications[g].userId \in DOMAIN s.users
        /\ s.userCertifications[g].certificationId \in DOMAIN s.certifications}

GrantRows(i, s) ==
    LET grants == s.userCertifications
    IN  {[id |-> <<i, g>>, userId |-> MemberId(i, grants[g].userId),
          certificationId |-> grants[g].certificationId,
          grantedBy |-> Known(i, s, grants[g].createdBy)] : g \in CarriedGrants(s)}

CarriedPayments(s) ==
    {p \in DOMAIN s.payments : s.payments[p].userId \in DOMAIN s.users /\ s.payments[p].dated}

PaymentRows(i, s) ==
    {[id |-> <<i, p>>, userId |-> MemberId(i, s.payments[p].userId),
      amountCents |-> AmountToCents(s.payments[p].amount), noted |-> s.payments[p].amount = Null,
      recordedBy |-> Known(i, s, s.payments[p].createdBy)] : p \in CarriedPayments(s)}

CarriedContracts(s) == {c \in DOMAIN s.contracts : s.contracts[c].userId \in DOMAIN s.users}

\* Signed when Rails says, or when its row was made.
WaiverRows(i, s) ==
    {[id |-> <<i, c>>, userId |-> MemberId(i, s.contracts[c].userId), asSigned |-> s.contracts[c].signed,
      recordedBy |-> Known(i, s, s.contracts[c].createdBy)] : c \in CarriedContracts(s)}

(***************************************************************************)
(* The members database and the transactions open on it.                   *)
(***************************************************************************)

\* TARGET_TABLES, and the next id of `certifications`.
TargetTables ==
    <<"user", "account", "cards", "certifications", "user_certifications", "payments", "waivers">>
EmptyDatabase == [user |-> {}, account |-> {}, cards |-> {}, certifications |-> {},
                  user_certifications |-> {}, payments |-> {}, waivers |-> {}, nextCertification |-> 1]

NoTransaction == [t \in {} |-> {}]
Open(i) == DOMAIN tx[i] # {}

\* What a statement of a transaction sees: what is committed, and its own writes.
Visible(i, t) == target[t] \cup tx[i][t]

Clashes(p, q, fields) == \E f \in fields : p[f] = q[f]

\* The columns of tables.ts no two rows of a table share.
KeysOf(t) == CASE t = "user"           -> {"id", "email", "legacyId"}
               [] t = "cards"          -> {"id", "cardNumber"}
               [] t = "certifications" -> {"id", "slug"}
               [] t = "account"        -> {"userId"}
               [] OTHER                -> {"id"}

\* The keys, foreign keys and column types of tables.ts that rows would break.
BreaksConstraint(i, t, rows) ==
    LET known == {m.id : m \in Visible(i, "user")}
    IN  \/ \E r \in rows, q \in Visible(i, t) : Clashes(r, q, KeysOf(t))
        \/ \E r, q \in rows : r # q /\ Clashes(r, q, KeysOf(t))
        \/ (t \notin {"user", "certifications"} /\ \E r \in rows : r.userId \notin known)
        \/ t = "cards" /\ \E r \in rows : r.permissions = Null
        \/ t = "certifications" /\ \E r \in rows : r.slug = Null
        \/ /\ t = "user_certifications"
           /\ \E r \in rows : \A c \in Visible(i, "certifications") : c.id # r.certificationId
        \/ t = "payments" /\ \E r \in rows : r.amountCents \notin (-IntegerLimit - 1)..IntegerLimit

Items(i) == {todo[i][n] : n \in DOMAIN todo[i]}

\* A select takes a lock on its table for the rest of the transaction, and the
\* restart of an identity one that keeps every other transaction out of it.
HasReadCertifications(k) ==
    Open(k) /\ (step[k] = "empty" => "certifications" \notin Items(k))
HasRestartedIdentity(k) ==
    /\ Open(k) /\ step[k] # "empty"
    /\ step[k] = "load" => "identity" \notin Items(k)

UsesCertifications(i) ==
    /\ Open(i) /\ todo[i] # <<>>
    /\ step[i] \in {"empty", "load", "count"}
    /\ Head(todo[i]) \in {"certifications", "user_certifications"}

\* The rows a step of the load inserts.
Inserts(i) ==
    LET s == snapshot[i]
    IN  [user |-> UserRows(i, s), account |-> AccountRows(i, s), cards |-> CardRows(i, s),
         certifications |-> CertificationRows(s), user_certifications |-> GrantRows(i, s),
         payments |-> PaymentRows(i, s), waivers |-> WaiverRows(i, s)]

\* The next statement of run i waits for the transaction of run k to end.
WaitsFor(i, k) ==
    /\ i # k /\ Open(i) /\ Open(k) /\ todo[i] # <<>>
    /\ \/ UsesCertifications(i) /\ HasRestartedIdentity(k)
       \/ step[i] = "load" /\ Head(todo[i]) = "identity" /\ HasReadCertifications(k)
       \/ /\ step[i] = "load" /\ Head(todo[i]) \in DOMAIN Inserts(i)
          /\ LET t == Head(todo[i])
             IN  \E r \in Inserts(i)[t], q \in tx[k][t] : Clashes(r, q, KeysOf(t))

Waits(i) == \E k \in Importer : WaitsFor(i, k)

(***************************************************************************)
(* A run (main.ts).                                                        *)
(***************************************************************************)

ReadOrder == <<"users", "cards", "certifications", "userCertifications", "payments", "contracts">>
LoadOrder == <<"user", "account", "orientedBy", "certifications", "identity", "cards", "slots",
               "user_certifications", "payments", "waivers">>
LineOrder == <<"user", "account", "cards", "cardAccess", "certifications", "user_certifications",
               "payments", "waivers">>

GoTo(i, next, items) == step' = [step EXCEPT ![i] = next] /\ todo' = [todo EXCEPT ![i] = items]
Continue(i) == todo' = [todo EXCEPT ![i] = Tail(@)] /\ UNCHANGED step
End(i, how) == GoTo(i, "ended", <<>>) /\ said' = [said EXCEPT ![i] = how]

\* A plausible mistake: the transaction is left open.
FailLeavingOpen(i, why) == End(i, why) /\ UNCHANGED <<tx, target>>

\* A plausible mistake, as in the script this one replaces: each write is its own
\* transaction, and there is nothing to roll back.
FailAfterWriting(i, why) ==
    /\ End(i, why)
    /\ tx' = [tx EXCEPT ![i] = NoTransaction]
    /\ target' = IF Open(i) THEN [t \in DOMAIN target |->
                                      IF t = "nextCertification" THEN tx[i][t] ELSE Visible(i, t)]
                            ELSE target

\* A throw: what is open is rolled back, and the exit code says so.
Fail(i, why) ==
    /\ End(i, why)
    /\ tx' = [tx EXCEPT ![i] = NoTransaction]
    /\ UNCHANGED target

reading == <<source, snapshot, counts, findings>>
elsewhere == <<legacy, options, bounds>>

BeginReadOnly(i) ==
    /\ step[i] = "begin"
    /\ source' = [source EXCEPT ![i] = legacy]
    /\ GoTo(i, "read", ReadOrder)
    /\ UNCHANGED <<snapshot, counts, findings, tx, skipped, agrees, said, target, elsewhere>>

\* A plausible mistake: each read sees what is committed when it runs.
ReadTableCommitted(i) ==
    /\ step[i] = "read" /\ todo[i] # <<>>
    /\ snapshot' = [snapshot EXCEPT ![i][Head(todo[i])] = legacy[Head(todo[i])]]
    /\ Continue(i)
    /\ UNCHANGED <<source, counts, findings, tx, skipped, agrees, said, target, elsewhere>>

\* Every read of a repeatable read transaction sees the database as it was at its start.
ReadTable(i) ==
    /\ step[i] = "read" /\ todo[i] # <<>>
    /\ snapshot' = [snapshot EXCEPT ![i][Head(todo[i])] = source[i][Head(todo[i])]]
    /\ Continue(i)
    /\ UNCHANGED <<source, counts, findings, tx, skipped, agrees, said, target, elsewhere>>

Size(f) == Cardinality(DOMAIN f)

CountsOf(s) == [
    user |-> Size(s.users), account |-> Cardinality(Credentials(s)), cards |-> Size(s.cards),
    cardAccess |-> Cardinality({s.cards[c].userId : c \in
                                    {c \in DOMAIN s.cards : s.cards[c].permissions = 1}} \ {Null}),
    certifications |-> Size(s.certifications), user_certifications |-> Size(s.userCertifications),
    payments |-> Size(s.payments), waivers |-> Size(s.contracts)]

SnapshotComplete(s, c) ==
    /\ Size(s.users) = c.user /\ Size(s.cards) = c.cards
    /\ Size(s.certifications) = c.certifications
    /\ Size(s.userCertifications) = c.user_certifications
    /\ Size(s.payments) = c.payments /\ Size(s.contracts) = c.waivers

AcceptsOrphans(i) == "--accept-orphans" \in options[i]
DryRun(i) == "--dry-run" \in options[i]

\* The counts, the completeness check and the preflight, none of which another
\* process can get between: they work on what was read.
CheckSnapshot(i) ==
    /\ step[i] = "read" /\ todo[i] = <<>>
    /\ counts' = [counts EXCEPT ![i] = CountsOf(source[i])]
    /\ findings' = [findings EXCEPT ![i] = Preflight(snapshot[i])]
    /\ IF /\ SnapshotComplete(snapshot[i], counts'[i])
          /\ Refusals(findings'[i], AcceptsOrphans(i)) = {}
       THEN /\ GoTo(i, "empty", TargetTables)
            /\ tx' = [tx EXCEPT ![i] = EmptyDatabase]
            /\ UNCHANGED <<said, target>>
       ELSE Fail(i, "refused")
    /\ UNCHANGED <<source, snapshot, skipped, agrees, elsewhere>>

\* assertTargetEmpty, a count for each table.
AssertTableEmpty(i) ==
    /\ step[i] = "empty" /\ ~Waits(i)
    /\ IF todo[i] = <<>> THEN GoTo(i, "load", LoadOrder) /\ UNCHANGED <<said, tx, target>>
       ELSE IF target[Head(todo[i])] = {} THEN Continue(i) /\ UNCHANGED <<said, tx, target>>
       ELSE Fail(i, "not empty")
    /\ UNCHANGED <<reading, skipped, agrees, elsewhere>>

\* A count of the load that was written for one table.
Carried(i) ==
    LET s == snapshot[i]
    IN  [user_certifications |-> CarriedGrants(s), payments |-> CarriedPayments(s),
         waivers |-> CarriedContracts(s)]
LegacyTable == [user_certifications |-> "userCertifications", payments |-> "payments",
                waivers |-> "contracts"]

SkippedAfter(i, t) ==
    IF t \in DOMAIN LegacyTable
    THEN [skipped[i] EXCEPT ![t] = Size(snapshot[i][LegacyTable[t]]) - Cardinality(Carried(i)[t])]
    ELSE skipped[i]

\* insertRows: one statement, all of its rows or an error.
InsertRows(i) ==
    LET t == Head(todo[i])
        rows == Inserts(i)[t]
    IN  /\ step[i] = "load" /\ todo[i] # <<>> /\ t \in DOMAIN Inserts(i) /\ ~Waits(i)
        /\ IF BreaksConstraint(i, t, rows)
           THEN Fail(i, "constraint") /\ UNCHANGED skipped
           ELSE /\ tx' = [tx EXCEPT ![i][t] = @ \cup rows]
                /\ skipped' = [skipped EXCEPT ![i] = SkippedAfter(i, t)]
                /\ Continue(i)
                /\ UNCHANGED <<said, target>>
        /\ UNCHANGED <<reading, agrees, elsewhere>>

\* The second pass over the members.
LinkOrientedBy(i) ==
    LET s == snapshot[i]
    IN  /\ step[i] = "load" /\ todo[i] # <<>> /\ Head(todo[i]) = "orientedBy"
        /\ tx' = [tx EXCEPT ![i].user =
                      {[m EXCEPT !.orientedBy = Known(i, s, s.users[m.legacyId].orientedBy)] : m \in @}]
        /\ Continue(i)
        /\ UNCHANGED <<reading, skipped, agrees, said, target, elsewhere>>

\* A plausible mistake, off by one: the identity restarts at the highest id.
RestartIdentityAtHighest(i) ==
    LET ids == DOMAIN snapshot[i].certifications \cup {1}
    IN  /\ step[i] = "load" /\ todo[i] # <<>> /\ Head(todo[i]) = "identity" /\ ~Waits(i)
        /\ tx' = [tx EXCEPT ![i].nextCertification =
                      CHOOSE highest \in ids : \A id \in ids : id <= highest]
        /\ Continue(i)
        /\ UNCHANGED <<reading, skipped, agrees, said, target, elsewhere>>

\* The identity is moved past the ids that were kept.
RestartIdentity(i) ==
    LET ids == DOMAIN snapshot[i].certifications \cup {0}
    IN  /\ step[i] = "load" /\ todo[i] # <<>> /\ Head(todo[i]) = "identity" /\ ~Waits(i)
        /\ tx' = [tx EXCEPT ![i].nextCertification =
                      1 + CHOOSE highest \in ids : \A id \in ids : id <= highest]
        /\ Continue(i)
        /\ UNCHANGED <<reading, skipped, agrees, said, target, elsewhere>>

VerifySlots(i) ==
    /\ step[i] = "load" /\ todo[i] # <<>> /\ Head(todo[i]) = "slots"
    /\ IF {c.id : c \in Visible(i, "cards")} = DOMAIN snapshot[i].cards
       THEN Continue(i) /\ UNCHANGED <<tx, said, target>>
       ELSE Fail(i, "slots")
    /\ UNCHANGED <<reading, skipped, agrees, elsewhere>>

BeginCounting(i) ==
    /\ step[i] = "load" /\ todo[i] = <<>>
    /\ GoTo(i, "count", LineOrder)
    /\ UNCHANGED <<reading, tx, skipped, agrees, said, target, elsewhere>>

Imported(i, line) ==
    IF line = "cardAccess" THEN {m \in Visible(i, "user") : m.cardAccess} ELSE Visible(i, line)

\* A line of the reconciliation, counted in the target database.
CountLine(i) ==
    LET line == Head(todo[i])
    IN  /\ step[i] = "count" /\ todo[i] # <<>> /\ ~Waits(i)
        /\ agrees' = [agrees EXCEPT ![i] =
               @ /\ counts[i][line] = Cardinality(Imported(i, line))
                        + IF line \in DOMAIN skipped[i] THEN skipped[i][line] ELSE 0]
        /\ Continue(i)
        /\ UNCHANGED <<reading, tx, skipped, said, target, elsewhere>>

Committed(i) ==
    [t \in DOMAIN target |-> IF t = "nextCertification" THEN tx[i][t] ELSE Visible(i, t)]

Finish(i) ==
    /\ step[i] = "count" /\ todo[i] = <<>>
    /\ IF ~agrees[i] THEN Fail(i, "disagrees")
       ELSE IF DryRun(i) THEN Fail(i, "dry run")
       ELSE /\ End(i, "committed")
            /\ target' = Committed(i)
            /\ tx' = [tx EXCEPT ![i] = NoTransaction]
    /\ UNCHANGED <<reading, skipped, agrees, elsewhere>>

\* PostgreSQL ends one of two transactions that wait for each other.
DeadlockAborts(i) ==
    /\ \E k \in Importer : WaitsFor(i, k) /\ WaitsFor(k, i)
    /\ Fail(i, "deadlock")
    /\ UNCHANGED <<reading, skipped, agrees, elsewhere>>

(***************************************************************************)
(* What happens meanwhile.                                                 *)
(***************************************************************************)

Disturb(counter, limit) == ~calm /\ counter < limit

\* A connection drops, or the tool is killed: an open transaction is rolled back.
ConnectionDrops(i) ==
    /\ step[i] \notin {"off", "ended"}
    /\ Disturb(faults, MaxFaults)
    /\ Fail(i, "no answer")
    /\ faults' = faults + 1
    /\ UNCHANGED <<reading, skipped, agrees, options, legacy, calm, edits, signUps>>

\* The database committed and the answer never arrived.
CommitAnswerLost(i) ==
    /\ step[i] = "count" /\ todo[i] = <<>> /\ agrees[i] /\ ~DryRun(i)
    /\ Disturb(faults, MaxFaults)
    /\ End(i, "no answer")
    /\ target' = Committed(i)
    /\ tx' = [tx EXCEPT ![i] = NoTransaction]
    /\ faults' = faults + 1
    /\ UNCHANGED <<reading, skipped, agrees, options, legacy, calm, edits, signUps>>

\* Rails changes: a card is handed on or taken back, or a member removed whose rows
\* stay, as no foreign key is declared there.
RailsEdit ==
    /\ Disturb(edits, MaxEdits)
    /\ \/ \E c \in DOMAIN legacy.cards, u \in DOMAIN legacy.users :
              legacy' = [legacy EXCEPT !.cards[c].userId = u]
       \/ \E c \in DOMAIN legacy.cards :
              legacy' = [legacy EXCEPT !.cards = [d \in DOMAIN @ \ {c} |-> @[d]]]
       \/ \E u \in DOMAIN legacy.users :
              legacy' = [legacy EXCEPT !.users = [v \in DOMAIN @ \ {u} |-> @[v]]]
    /\ edits' = edits + 1
    /\ UNCHANGED <<run, target, calm, signUps, faults>>

WebId(e) == <<Web, e>>

\* signUpEmail: the member and the credential; an address on an account, or about
\* to be, is refused or waits.
SignUp ==
    /\ Disturb(signUps, MaxSignUps)
    /\ \E e \in WebEmail :
           /\ \A m \in target.user : m.email # e
           /\ \A i \in Importer : Open(i) => \A m \in tx[i].user : m.email # e
           /\ target' = [target EXCEPT
                  !.user = @ \cup {[id |-> WebId(e), legacyId |-> Null, email |-> e,
                                    orientedBy |-> Null, cardAccess |-> FALSE]},
                  !.account = @ \cup {[userId |-> WebId(e)]}]
    /\ signUps' = signUps + 1
    /\ UNCHANGED <<legacy, run, calm, edits, faults>>

\* The second transaction of a sign-up.
RecordRelease ==
    /\ \E m \in target.user :
           /\ m.legacyId = Null
           /\ \A w \in target.waivers : w.userId # m.id
           /\ target' = [target EXCEPT !.waivers =
                  @ \cup {[id |-> m.id, userId |-> m.id, asSigned |-> TRUE, recordedBy |-> Null]}]
    /\ UNCHANGED <<legacy, run, bounds>>

(***************************************************************************)
(* The specification.                                                      *)
(***************************************************************************)

NoTables == [users |-> <<>>, cards |-> <<>>, certifications |-> <<>>, userCertifications |-> <<>>,
             payments |-> <<>>, contracts |-> <<>>]

Init ==
    /\ \E start \in Starts :
           /\ legacy = start.legacy /\ options = start.options /\ calm = start.calm
           /\ step = [i \in Importer |-> IF i \in DOMAIN start.options THEN "begin" ELSE "off"]
    /\ todo = [i \in Importer |-> <<>>]
    /\ source = [i \in Importer |-> NoTables]
    /\ snapshot = [i \in Importer |-> NoTables]
    /\ counts = [i \in Importer |-> CountsOf(NoTables)]
    /\ findings = [i \in Importer |-> {}]
    /\ tx = [i \in Importer |-> NoTransaction]
    /\ skipped = [i \in Importer |-> [t \in DOMAIN LegacyTable |-> 0]]
    /\ agrees = [i \in Importer |-> TRUE]
    /\ target = EmptyDatabase
    /\ said = [i \in Importer |-> "nothing"]
    /\ edits = 0 /\ signUps = 0 /\ faults = 0

RunStep(i) ==
    \/ BeginReadOnly(i) \/ ReadTable(i) \/ CheckSnapshot(i)
    \/ AssertTableEmpty(i)
    \/ InsertRows(i) \/ LinkOrientedBy(i) \/ RestartIdentity(i) \/ VerifySlots(i)
    \/ BeginCounting(i) \/ CountLine(i) \/ Finish(i)

Next ==
    \/ \E i \in Importer :
           RunStep(i) \/ DeadlockAborts(i) \/ ConnectionDrops(i) \/ CommitAnswerLost(i)
    \/ RailsEdit \/ SignUp \/ RecordRelease

Spec == Init /\ [][Next]_vars

\* Each write is awaited and the process exits when the last one ends (load.ts:16-20);
\* PostgreSQL looks for deadlocks after deadlock_timeout.
FairSpec == Spec /\ \A i \in Importer : WF_vars(RunStep(i)) /\ WF_vars(DeadlockAborts(i))

(***************************************************************************)
(* Properties.                                                             *)
(***************************************************************************)

Answers == {"nothing", "refused", "not empty", "constraint", "slots", "disagrees", "dry run",
            "deadlock", "no answer", "committed"}

\* The members database holds what Members and DoorSync start from: the keys and
\* foreign keys of tables.ts, canonical numbers, and an identity past every id in use.
TypeOK ==
    /\ \A t \in {"user", "cards", "certifications", "user_certifications", "payments", "waivers"} :
           \A p, q \in target[t] : p.id = q.id => p = q
    /\ \A p, q \in target.user : p.email = q.email => p = q
    /\ \A p, q \in target.cards : p.cardNumber = q.cardNumber => p = q
    /\ \A c \in target.cards : c.id \in 0..HighestSlot /\ c.cardNumber # Unreadable
    /\ LET members == {m.id : m \in target.user}
       IN  /\ \A t \in {"account", "cards", "user_certifications", "payments", "waivers"} :
                  \A r \in target[t] : r.userId \in members
           /\ \A m \in target.user : m.orientedBy \in members \cup {Null}
           /\ \A t \in {"payments", "waivers"} :
                  \A r \in target[t] : r.recordedBy \in members \cup {Null}
    /\ \A c \in target.certifications : c.id < target.nextCertification
    /\ \A i \in Importer : said[i] \in Answers /\ (said[i] # "nothing" <=> step[i] = "ended")
    /\ edits \in 0..MaxEdits /\ signUps \in 0..MaxSignUps /\ faults \in 0..MaxFaults

\* The rows the import committed, told by whose ids they carry.
ImportedMembers == {m \in target.user : m.legacyId # Null}
NothingImported ==
    /\ ImportedMembers = {}
    /\ \A t \in {"cards", "certifications", "user_certifications", "payments"} : target[t] = {}

\* All that one run read in its snapshot, and nothing of another.
WholeOf(i) ==
    LET s == source[i]
        members == [u \in DOMAIN s.users |-> {m \in target.user : m.id = MemberId(i, u)}]
    IN  /\ \A u \in DOMAIN s.users : Cardinality(members[u]) = 1
        /\ Cardinality(ImportedMembers) = Size(s.users)
        /\ Cardinality({a \in target.account : a.userId[1] = i}) = Cardinality(HasPassword(s))
        /\ DOMAIN s.certifications = {c.id : c \in target.certifications}
        /\ \A t \in {"user_certifications", "payments"} :
               /\ \A r \in target[t] : r.id[1] = i /\ r.userId[1] = i
               /\ Cardinality(target[t]) = Cardinality(Carried(i)[t])
        /\ Cardinality({w \in target.waivers : w.id[1] = i}) = Cardinality(Carried(i).waivers)

\* "Any failure rolls the whole thing back, because a half imported members database
\* is worse than none" (main.ts:15-17): whatever fails, and whoever imports or signs
\* up meanwhile, the database holds nothing of the legacy one or all of one snapshot,
\* and that by a run that was for real.
AllOrNothing ==
    \/ NothingImported
    \/ \E i \in DOMAIN options : ~DryRun(i) /\ WholeOf(i)

\* "A member who edits their profile while this runs cannot produce a half consistent
\* copy" (legacy.ts:9-12), of what matters at the door: every card is at its slot, for
\* the member who held it when the snapshot was taken, and card access belongs to the
\* holders of a mask of exactly 1 (transform.ts:84-89).
DoorIsAsItWas ==
    \A i \in DOMAIN options : said[i] = "committed" /\ DOMAIN source[i].users # {} =>
        LET s == source[i]
            mask(m) == {s.cards[c].permissions : c \in {c \in DOMAIN s.cards :
                            MemberId(i, s.cards[c].userId) = m.id}}
        IN  /\ {<<c.id, c.userId, c.cardNumber, c.permissions>> : c \in target.cards} =
                   {<<c, MemberId(i, s.cards[c].userId), Canonical[s.cards[c].number],
                      s.cards[c].permissions>> : c \in DOMAIN s.cards}
            /\ \A m \in ImportedMembers : m.cardAccess <=> 1 \in mask(m)

\* "Every one is listed first. Orphan cards are never skipped" (main.ts:31-32): the
\* preflight and the loader decide apart from each other what is carried, and each
\* row left behind, and each grantor, recorder or orienter dropped, is one the
\* preflight reported.
NothingIsLostUnreported ==
    \A i \in DOMAIN options : said[i] = "committed" /\ DOMAIN source[i].users # {} =>
        LET s == source[i]
            found(check) == UNION {f.ids : f \in {f \in findings[i] : f.check = check}}
            kept(t) == {r.id[2] : r \in {r \in target[t] : r.id[1] = i}}
        IN  /\ DOMAIN s.userCertifications \ kept("user_certifications")
                   \subseteq found("orphan certification grant")
            /\ DOMAIN s.payments \ kept("payments")
                   \subseteq found("orphan payment") \cup found("payment with no date")
            /\ DOMAIN s.contracts \ kept("waivers") \subseteq found("orphan signed release")
            /\ {c.id : c \in target.cards} = DOMAIN s.cards
            /\ \A g \in target.user_certifications :
                   g.grantedBy = Null /\ s.userCertifications[g.id[2]].createdBy # Null
                   => g.id[2] \in found("granted by an unknown member")
            /\ \A p \in target.payments :
                   p.recordedBy = Null /\ s.payments[p.id[2]].createdBy # Null
                   => p.id[2] \in found("payment recorded by an unknown member")
            /\ \A m \in ImportedMembers :
                   m.orientedBy = Null /\ s.users[m.legacyId].orientedBy # Null
                   => m.legacyId \in found("oriented by an unknown member")

\* "Refusing here names the legacy row. Letting it through stops the whole import at
\* the insert" (transform.ts:65-67): what passes the preflight breaks no constraint of
\* the target and adds up on both sides, unless somebody signs up or imports meanwhile
\* or a hash is blank to JavaScript and not to btrim.
PreflightIsEnough ==
    \A i \in DOMAIN options :
        said[i] \in {"constraint", "slots", "disagrees"} =>
            \/ signUps > 0 \/ DOMAIN options # {i}
            \/ \E u \in DOMAIN source[i].users : source[i].users[u].hash = "white"

\* No run waits for ever, two that wait for each other included.
EveryImportEnds == \A i \in Importer : step[i] = "begin" ~> step[i] = "ended"
=============================================================================
