---------------------------- MODULE Import_proofs ----------------------------
(***************************************************************************)
(* What the import promises, for every legacy database, every number of    *)
(* runs at once and every number of edits, sign-ups and dropped            *)
(* connections meanwhile.                                                  *)
(***************************************************************************)
EXTENDS Import, FiniteSetTheorems, SequenceTheorems, WellFoundedInduction, TLAPS

(***************************************************************************)
(* The invariant.                                                          *)
(***************************************************************************)

Table == {"user", "account", "cards", "certifications", "user_certifications", "payments", "waivers"}
LegacyTables == {"users", "cards", "certifications", "userCertifications", "payments", "contracts"}
Loading == {"empty", "load", "count"}   \* the steps a transaction is open in

\* The members once each names who oriented it.
LinkedRows(i, s) ==
    {[id |-> MemberId(i, u), legacyId |-> u, email |-> CanonicalEmail[s.users[u].email],
      orientedBy |-> Known(i, s, s.users[u].orientedBy),
      cardAccess |-> u \in MembersWithCardAccess(s)] : u \in DOMAIN s.users}

\* What the whole load of run i writes.
AllRows(i) ==
    LET s == source[i]
    IN  [user |-> LinkedRows(i, s), account |-> AccountRows(i, s), cards |-> CardRows(i, s),
         certifications |-> CertificationRows(s), user_certifications |-> GrantRows(i, s),
         payments |-> PaymentRows(i, s), waivers |-> WaiverRows(i, s)]

\* What it has written of a table so far.
Written(i, t) ==
    IF step[i] = "empty" \/ (step[i] = "load" /\ t \in Items(i)) THEN {}
    ELSE IF t = "user" /\ step[i] = "load" /\ "orientedBy" \in Items(i) THEN UserRows(i, source[i])
    ELSE AllRows(i)[t]

IsHighest(id, ids) == id \in ids /\ \A other \in ids : other <= id
NextCertification(s) ==
    LET ids == DOMAIN s.certifications \cup {0} IN 1 + CHOOSE id \in ids : \A other \in ids : other <= id

Steps == {"off", "begin", "read", "ended"} \cup Loading
Suffix(items, order) == \E n \in 1..(Len(order) + 1) : items = SubSeq(order, n, Len(order))

\* The shapes of the variables.
Shapes ==
    /\ IsLegacy(legacy) /\ calm \in BOOLEAN
    /\ DOMAIN options \subseteq Importer
    /\ step \in [Importer -> Steps] /\ said \in [Importer -> Answers]
    /\ \A i \in Importer : step[i] = "off" <=> i \notin DOMAIN options
    /\ DOMAIN todo = Importer /\ DOMAIN source = Importer /\ DOMAIN snapshot = Importer
    /\ DOMAIN counts = Importer /\ DOMAIN findings = Importer /\ DOMAIN tx = Importer
    /\ DOMAIN skipped = Importer /\ DOMAIN agrees = Importer
    /\ DOMAIN target = DOMAIN EmptyDatabase
    /\ edits \in 0..MaxEdits /\ signUps \in 0..MaxSignUps /\ faults \in 0..MaxFaults
    /\ \A i \in Importer : said[i] # "nothing" <=> step[i] = "ended"

\* What the run knows is what the snapshot of its read transaction says.
KnowsAll(i) ==
    /\ snapshot[i] = source[i] /\ counts[i] = CountsOf(source[i])
    /\ findings[i] = Preflight(source[i]) /\ Refusals(findings[i], AcceptsOrphans(i)) = {}

\* Where each run is, and what its transaction holds.
RunInv(i) ==
    /\ IsLegacy(source[i]) /\ IsLegacy(snapshot[i])
    /\ step[i] = "read" => /\ Suffix(todo[i], ReadOrder)
                           /\ \A t \in LegacyTables \ Items(i) : snapshot[i][t] = source[i][t]
    /\ step[i] = "load" => Suffix(todo[i], LoadOrder)
    /\ step[i] = "count" => Suffix(todo[i], LineOrder)
    /\ step[i] \in Loading => KnowsAll(i)
    /\ Open(i) <=> step[i] \in Loading
    /\ Open(i) => /\ DOMAIN tx[i] = DOMAIN EmptyDatabase
                  /\ \A t \in Table : tx[i][t] = Written(i, t)
                  /\ (step[i] = "load" /\ "identity" \notin Items(i)) \/ step[i] = "count" =>
                         tx[i].nextCertification = NextCertification(source[i])

\* Rails only ever loses members, and the certifications stay.
SourcesInv ==
    /\ \A i \in Importer : source[i] = NoTables \/ source[i].certifications = legacy.certifications
    /\ \A i \in Importer : step[i] \in {"read"} \cup Loading => source[i].certifications = legacy.certifications
    /\ \A i \in Importer : DOMAIN source[i].users = {} \/ DOMAIN legacy.users \subseteq DOMAIN source[i].users
    /\ \A i, k \in Importer : \/ DOMAIN source[i].users \subseteq DOMAIN source[k].users
                              \/ DOMAIN source[k].users \subseteq DOMAIN source[i].users

\* No row a transaction holds has a key of a row of another, or of one that is committed.
KeysInv ==
    /\ \A i \in Importer : Open(i) => \A t \in Table : \A r \in tx[i][t], q \in target[t] : ~Clashes(r, q, KeysOf(t))
    /\ \A i, k \in Importer : i # k /\ Open(i) /\ Open(k) =>
           \A t \in Table : \A r \in tx[i][t], q \in tx[k][t] : ~Clashes(r, q, KeysOf(t))

\* What did not come from Rails came from the sign-up page.
WebInv ==
    /\ \A m \in target.user : m.legacyId = Null =>
           /\ m.id = WebId(m.email) /\ m.orientedBy = Null
    /\ \A p, q \in target.user : p.email = q.email => p = q
    /\ \A a \in target.account : a.userId[1] = Web => \E m \in target.user : m.id = a.userId
    /\ \A w, v \in target.waivers : w.id[1] = Web =>
           /\ w.userId = w.id /\ w.recordedBy = Null /\ (w.id = v.id => w = v)
           /\ \E m \in target.user : m.id = w.userId

\* The rows that came from Rails are those of run i, all of them.
HoldsAllOf(i) ==
    /\ ImportedMembers = LinkedRows(i, source[i])
    /\ {a \in target.account : a.userId[1] # Web} = AccountRows(i, source[i])
    /\ {w \in target.waivers : w.id[1] # Web} = WaiverRows(i, source[i])
    /\ \A t \in {"cards", "certifications", "user_certifications", "payments"} : target[t] = AllRows(i)[t]

HoldsNone ==
    /\ NothingImported
    /\ {a \in target.account : a.userId[1] # Web} = {}
    /\ {w \in target.waivers : w.id[1] # Web} = {}

\* The database holds nothing of Rails, or all of one run for real that read a sound
\* snapshot; whatever a run reported committed, it is that.
CopyInv ==
    /\ \/ HoldsNone
       \/ \E i \in DOMAIN options : ~DryRun(i) /\ step[i] = "ended" /\ KnowsAll(i) /\ HoldsAllOf(i)
    /\ \A i \in Importer : said[i] = "committed" /\ DOMAIN source[i].users # {} => KnowsAll(i) /\ HoldsAllOf(i)
    /\ target.certifications # {} => target.nextCertification = NextCertification(legacy)

\* What the loader left behind, of the tables it is past.
Past(i, t) == step[i] = "count" \/ (step[i] = "load" /\ t \notin Items(i))
CarriedOf(s) ==
    [user_certifications |-> CarriedGrants(s), payments |-> CarriedPayments(s), waivers |-> CarriedContracts(s)]
LeftBehind(s, t) == Size(s[LegacyTable[t]]) - Cardinality(CarriedOf(s)[t])
SkippedSoFar(i) ==
    [t \in DOMAIN LegacyTable |-> IF Past(i, t) THEN LeftBehind(source[i], t) ELSE 0]
SkippedInv == \A i \in Importer : step[i] # "ended" => skipped[i] = SkippedSoFar(i)

\* A run with nobody else about, on hashes PostgreSQL and JavaScript both call blank or not.
Alone(i) ==
    /\ signUps = 0 /\ DOMAIN options = {i}
    /\ \A u \in DOMAIN source[i].users : source[i].users[u].hash # "white"

\* Nobody signed up, and nothing a lone run counts or checks is against it.
AloneInv ==
    /\ signUps = 0 => \A m \in target.user : m.legacyId # Null
    /\ \A i \in Importer : agrees[i] \/ step[i] \in {"count", "ended"}
    /\ \A i \in Importer : Alone(i) =>
           /\ agrees[i] \/ step[i] = "ended"
           /\ said[i] \notin {"constraint", "slots", "disagrees"}

IInv ==
    /\ Shapes /\ \A i \in Importer : RunInv(i)
    /\ SourcesInv /\ KeysInv /\ WebInv /\ CopyInv

(***************************************************************************)
(* What is left of an order, and what of it is done.                       *)
(***************************************************************************)

Elements(items) == {items[n] : n \in DOMAIN items}

\* What is left of an order: its head is one element, the rest is left after it.
LEMMA SuffixParts ==
    ASSUME NEW S, NEW order \in Seq(S), NEW items, Suffix(items, order),
           \A m, n \in 1..Len(order) : order[m] = order[n] => m = n
    PROVE  /\ items = <<>> => Elements(items) = {}
           /\ items # <<>> => /\ Head(items) \in Elements(items) /\ Suffix(Tail(items), order)
                              /\ Elements(Tail(items)) = Elements(items) \ {Head(items)}
                              /\ \E m \in 1..Len(order) : Head(items) = order[m]
           /\ \A m, n \in 1..Len(order) :
                  items # <<>> /\ Head(items) = order[m] => (order[n] \in Elements(items) <=> m <= n)
<1>0. Len(order) \in Nat /\ \A m \in 1..Len(order) : order[m] \in S
    BY LenProperties, ElementOfSeq
<1>1. PICK k \in 1..(Len(order) + 1) : items = SubSeq(order, k, Len(order))
    BY DEF Suffix
<1>2. ASSUME NEW j \in 1..(Len(order) + 1)
      PROVE  Elements(SubSeq(order, j, Len(order))) = {order[m] : m \in j..Len(order)}
    <2> DEFINE rest == SubSeq(order, j, Len(order))
    <2>1. rest \in Seq(S) /\ Len(rest) = Len(order) - j + 1
          /\ \A m \in 1..Len(order) - j + 1 : rest[m] = order[j + m - 1]
        BY <1>0, SubSeqProperties
    <2>2. DOMAIN rest = 1..Len(order) - j + 1
        BY <2>1, LenProperties
    <2>3. ASSUME NEW m \in DOMAIN rest PROVE rest[m] \in {order[n] : n \in j..Len(order)}
        <3>1. j + m - 1 \in j..Len(order) /\ rest[m] = order[j + m - 1]
            BY <1>0, <2>1, <2>2
        <3> QED
            BY <3>1
    <2>4. ASSUME NEW m \in j..Len(order) PROVE order[m] \in Elements(rest)
        <3>1. m - j + 1 \in DOMAIN rest /\ j + (m - j + 1) - 1 = m
            BY <1>0, <2>2
        <3>2. rest[m - j + 1] = order[m]
            BY <3>1, <2>1, <2>2
        <3> QED
            BY <3>1, <3>2 DEF Elements
    <2> QED
        BY <2>3, <2>4 DEF Elements
<1>3. CASE k = Len(order) + 1
    <2>1. items = <<>>
        BY <1>0, <1>1, <1>3, SubSeqEmpty
    <2> QED
        BY <2>1 DEF Elements
<1>4. CASE k # Len(order) + 1
    <2>1. k \in 1..Len(order) /\ Len(order) \in k..Len(order)
        BY <1>0, <1>4
    <2>2. Head(items) = order[k] /\ Tail(items) = SubSeq(order, k + 1, Len(order))
        BY <1>1, <2>1, HeadTailOfSubSeq
    <2>3. Suffix(Tail(items), order)
        <3>1. k + 1 \in 1..(Len(order) + 1)
            BY <1>0, <2>1
        <3> QED
            BY <2>2, <3>1 DEF Suffix
    <2>4. /\ Elements(items) = {order[m] : m \in k..Len(order)}
          /\ Elements(Tail(items)) = {order[m] : m \in (k + 1)..Len(order)}
        <3>1. k + 1 \in 1..(Len(order) + 1)
            BY <1>0, <2>1
        <3> QED
            BY <1>1, <1>2, <2>2, <3>1
    <2>5. items # <<>>
        <3>1. Elements(items) # {}
            BY <2>1, <2>4
        <3> QED
            BY <3>1 DEF Elements
    <2>6. ASSUME NEW m \in 1..Len(order), NEW n \in 1..Len(order), Head(items) = order[m]
          PROVE  order[n] \in Elements(items) <=> m <= n
        <3>1. m = k
            BY <2>1, <2>2, <2>6
        <3>2. order[n] \in Elements(items) <=> n \in k..Len(order)
            BY <2>1, <2>4
        <3> QED
            BY <1>0, <3>1, <3>2
    <2>7. Elements(Tail(items)) = Elements(items) \ {order[k]}
        <3>1. \A m \in k..Len(order) : m = k \/ m \in (k + 1)..Len(order)
            BY <1>0, <2>1
        <3>2. \A m \in (k + 1)..Len(order) : m \in k..Len(order) /\ order[m] # order[k]
            BY <1>0, <2>1
        <3> QED
            BY <2>4, <3>1, <3>2
    <2>8. Head(items) \in Elements(items)
        BY <1>0, <2>1, <2>2, <2>4
    <2> QED
        BY <2>1, <2>2, <2>3, <2>5, <2>6, <2>7, <2>8
<1> QED
    BY <1>3, <1>4

LoadItems == Table \cup {"orientedBy", "identity", "slots"}
Lines == Table \cup {"cardAccess"}

\* The orders name each table once.
LEMMA Orders ==
    /\ ReadOrder \in Seq(LegacyTables) /\ Len(ReadOrder) = 6
    /\ LoadOrder \in Seq(LoadItems) /\ Len(LoadOrder) = 10
    /\ LineOrder \in Seq(Lines) /\ Len(LineOrder) = 8
    /\ \A m, n \in 1..6 : ReadOrder[m] = ReadOrder[n] => m = n
    /\ \A m, n \in 1..10 : LoadOrder[m] = LoadOrder[n] => m = n
    /\ \A m, n \in 1..8 : LineOrder[m] = LineOrder[n] => m = n
    /\ Elements(ReadOrder) = LegacyTables /\ Elements(LoadOrder) = LoadItems
<1>1. /\ ReadOrder \in Seq(LegacyTables) /\ Len(ReadOrder) = 6
      /\ \A m, n \in 1..6 : ReadOrder[m] = ReadOrder[n] => m = n
    BY DEF ReadOrder, LegacyTables
<1>2. LoadOrder \in Seq(LoadItems) /\ Len(LoadOrder) = 10
    BY DEF LoadOrder, LoadItems, Table
<1>3. \A m, n \in 1..10 : LoadOrder[m] = LoadOrder[n] => m = n
    BY DEF LoadOrder
<1>4. LineOrder \in Seq(Lines) /\ Len(LineOrder) = 8
    BY DEF LineOrder, Lines, Table
<1>5. \A m, n \in 1..8 : LineOrder[m] = LineOrder[n] => m = n
    BY DEF LineOrder
<1>6. Elements(ReadOrder) = LegacyTables
    BY DEF ReadOrder, Elements, LegacyTables
<1>7. Elements(LoadOrder) = LoadItems
    BY DEF LoadOrder, Elements, LoadItems, Table
<1> QED
    BY <1>1, <1>2, <1>3, <1>4, <1>5, <1>6, <1>7

\* An order is what is left of it at the start.
LEMMA SuffixWhole ==
    ASSUME NEW S, NEW order \in Seq(S)
    PROVE  Suffix(order, order)
<1>1. Len(order) \in Nat /\ SubSeq(order, 1, Len(order)) = order
    BY LenProperties, SubSeqFull
<1>2. 1 \in 1..(Len(order) + 1)
    BY <1>1
<1> QED
    BY <1>1, <1>2 DEF Suffix

\* What of the load is done when the head of what is left is reached.
LEMMA LoadParts ==
    ASSUME NEW items, Suffix(items, LoadOrder)
    PROVE  /\ items = <<>> => Elements(items) = {}
           /\ items # <<>> =>
                  /\ Suffix(Tail(items), LoadOrder) /\ Head(items) \in Elements(items) \cap LoadItems
                  /\ Elements(Tail(items)) = Elements(items) \ {Head(items)}
                  /\ Head(items) = "user" => "orientedBy" \in Elements(items)
                  /\ Head(items) # "user" => "user" \notin Elements(items)
                  /\ Head(items) = "slots" => "cards" \notin Elements(items)
                  /\ Head(items) = "user_certifications" => "certifications" \notin Elements(items)
<1>1. /\ items = <<>> => Elements(items) = {}
      /\ items # <<>> => /\ Head(items) \in Elements(items) /\ Suffix(Tail(items), LoadOrder)
                         /\ Elements(Tail(items)) = Elements(items) \ {Head(items)}
                         /\ \E m \in 1..10 : Head(items) = LoadOrder[m]
      /\ \A m, n \in 1..10 :
             items # <<>> /\ Head(items) = LoadOrder[m] => (LoadOrder[n] \in Elements(items) <=> m <= n)
    <2>1. LoadOrder \in Seq(LoadItems) /\ Len(LoadOrder) = 10
        BY Orders
    <2>2. \A m, n \in 1..Len(LoadOrder) : LoadOrder[m] = LoadOrder[n] => m = n
        BY <2>1, Orders
    <2>3. \A m, n \in 1..Len(LoadOrder) :
              items # <<>> /\ Head(items) = LoadOrder[m] => (LoadOrder[n] \in Elements(items) <=> m <= n)
        BY <2>1, <2>2, SuffixParts
    <2>4. /\ items = <<>> => Elements(items) = {}
          /\ items # <<>> => /\ Head(items) \in Elements(items) /\ Suffix(Tail(items), LoadOrder)
                             /\ Elements(Tail(items)) = Elements(items) \ {Head(items)}
                             /\ \E m \in 1..Len(LoadOrder) : Head(items) = LoadOrder[m]
        BY <2>1, <2>2, SuffixParts
    <2> QED
        BY <2>1, <2>3, <2>4
<1>2. /\ LoadOrder[1] = "user" /\ LoadOrder[3] = "orientedBy" /\ LoadOrder[4] = "certifications"
      /\ LoadOrder[6] = "cards" /\ LoadOrder[7] = "slots" /\ LoadOrder[8] = "user_certifications"
    BY DEF LoadOrder
<1>3. ASSUME items # <<>>
      PROVE  Head(items) \in LoadItems
    <2>1. PICK m \in 1..10 : Head(items) = LoadOrder[m]
        BY <1>1, <1>3
    <2>2. LoadOrder \in Seq(LoadItems) /\ Len(LoadOrder) = 10
        BY Orders
    <2>3. LoadOrder[m] \in LoadItems
        BY <2>1, <2>2, ElementOfSeq
    <2> QED
        BY <2>1, <2>3
<1>4. ASSUME items # <<>>, Head(items) # "user"
      PROVE  "user" \notin Elements(items)
    <2>1. PICK m \in 1..10 : Head(items) = LoadOrder[m]
        BY <1>1, <1>4
    <2>2. m # 1 /\ ~(m <= 1)
        BY <2>1, <1>2, <1>4
    <2> QED
        BY <2>1, <2>2, <1>1, <1>2, <1>4
<1>5. ASSUME items # <<>>
      PROVE  /\ Head(items) = "user" => "orientedBy" \in Elements(items)
             /\ Head(items) = "slots" => "cards" \notin Elements(items)
             /\ Head(items) = "user_certifications" => "certifications" \notin Elements(items)
    BY <1>1, <1>2, <1>5
<1> QED
    BY <1>1, <1>3, <1>4, <1>5

\* The same of the reads.
LEMMA ReadParts ==
    ASSUME NEW items, Suffix(items, ReadOrder)
    PROVE  /\ items = <<>> => Elements(items) = {}
           /\ items # <<>> => /\ Suffix(Tail(items), ReadOrder) /\ Head(items) \in Elements(items) \cap LegacyTables
                              /\ Elements(Tail(items)) = Elements(items) \ {Head(items)}
<1>1. /\ items = <<>> => Elements(items) = {}
      /\ items # <<>> => /\ Head(items) \in Elements(items) /\ Suffix(Tail(items), ReadOrder)
                         /\ Elements(Tail(items)) = Elements(items) \ {Head(items)}
                         /\ \E m \in 1..6 : Head(items) = ReadOrder[m]
    <2>1. ReadOrder \in Seq(LegacyTables) /\ Len(ReadOrder) = 6
        BY Orders
    <2>2. \A m, n \in 1..Len(ReadOrder) : ReadOrder[m] = ReadOrder[n] => m = n
        BY <2>1, Orders
    <2> QED
        BY <2>1, <2>2, SuffixParts
<1>2. ASSUME items # <<>>
      PROVE  Head(items) \in LegacyTables
    <2>1. PICK m \in 1..6 : Head(items) = ReadOrder[m]
        BY <1>1, <1>2
    <2>2. ReadOrder \in Seq(LegacyTables) /\ Len(ReadOrder) = 6
        BY Orders
    <2>3. ReadOrder[m] \in LegacyTables
        BY <2>1, <2>2, ElementOfSeq
    <2> QED
        BY <2>1, <2>3
<1> QED
    BY <1>1, <1>2

\* The same of the lines of the reconciliation.
LEMMA LineParts ==
    ASSUME NEW items, Suffix(items, LineOrder)
    PROVE  /\ items = <<>> => Elements(items) = {}
           /\ items # <<>> => Suffix(Tail(items), LineOrder) /\ Head(items) \in Lines
<1>1. /\ items = <<>> => Elements(items) = {}
      /\ items # <<>> => /\ Suffix(Tail(items), LineOrder)
                         /\ \E m \in 1..8 : Head(items) = LineOrder[m]
    <2>1. LineOrder \in Seq(Lines) /\ Len(LineOrder) = 8
        BY Orders
    <2>2. \A m, n \in 1..Len(LineOrder) : LineOrder[m] = LineOrder[n] => m = n
        BY <2>1, Orders
    <2> QED
        BY <2>1, <2>2, SuffixParts
<1>2. ASSUME items # <<>>
      PROVE  Head(items) \in Lines
    <2>1. PICK m \in 1..8 : Head(items) = LineOrder[m]
        BY <1>1, <1>2
    <2>2. LineOrder \in Seq(Lines) /\ Len(LineOrder) = 8
        BY Orders
    <2>3. LineOrder[m] \in Lines
        BY <2>1, <2>2, ElementOfSeq
    <2> QED
        BY <2>1, <2>3
<1> QED
    BY <1>1, <1>2

(***************************************************************************)
(* What a step of one run leaves alone.                                    *)
(***************************************************************************)

Same(k) ==
    /\ step'[k] = step[k] /\ todo'[k] = todo[k] /\ source'[k] = source[k] /\ snapshot'[k] = snapshot[k]
    /\ counts'[k] = counts[k] /\ findings'[k] = findings[k] /\ tx'[k] = tx[k]
    /\ skipped'[k] = skipped[k] /\ agrees'[k] = agrees[k] /\ said'[k] = said[k]

OneRunSteps(i) == RunStep(i) \/ DeadlockAborts(i) \/ ConnectionDrops(i) \/ CommitAnswerLost(i)

LEMMA RunInvFrame ==
    ASSUME NEW k \in Importer, RunInv(k), Same(k), UNCHANGED options
    PROVE  RunInv(k)'
<1>1. KnowsAll(k) => KnowsAll(k)'
    BY DEF KnowsAll, Same, AcceptsOrphans
<1>2. Items(k)' = Items(k) /\ (Open(k)' <=> Open(k))
    BY DEF Items, Open, Same
<1>3. \A t \in Table : Written(k, t)' = Written(k, t)
    BY <1>2 DEF Written, AllRows, Same
<1> QED
    BY <1>1, <1>2, <1>3 DEF RunInv, Same

\* A step of one run leaves the others, Rails and what was asked for alone.
LEMMA OneRunAlone ==
    ASSUME Shapes, NEW i \in Importer, OneRunSteps(i)
    PROVE  /\ \A k \in Importer \ {i} : Same(k)
           /\ UNCHANGED <<legacy, options, calm, edits, signUps>> /\ faults' \in 0..MaxFaults
<1> USE DEF Shapes, Same, elsewhere, bounds, reading, GoTo, Continue, End, Fail
<1>1. CASE BeginReadOnly(i)
    BY <1>1 DEF BeginReadOnly
<1>2. CASE ReadTable(i)
    BY <1>2 DEF ReadTable
<1>3. CASE CheckSnapshot(i)
    BY <1>3 DEF CheckSnapshot
<1>4. CASE AssertTableEmpty(i)
    BY <1>4 DEF AssertTableEmpty
<1>5. CASE InsertRows(i)
    BY <1>5 DEF InsertRows
<1>6. CASE LinkOrientedBy(i)
    BY <1>6 DEF LinkOrientedBy
<1>7. CASE RestartIdentity(i)
    BY <1>7 DEF RestartIdentity
<1>8. CASE VerifySlots(i)
    BY <1>8 DEF VerifySlots
<1>9. CASE BeginCounting(i)
    BY <1>9 DEF BeginCounting
<1>10. CASE CountLine(i)
    BY <1>10 DEF CountLine
<1>11. CASE Finish(i)
    BY <1>11 DEF Finish
<1>12. CASE DeadlockAborts(i)
    BY <1>12 DEF DeadlockAborts
<1>13. CASE ConnectionDrops(i)
    <2>1. faults' \in 0..MaxFaults
        <3>1. MaxFaults \in Nat /\ faults \in 0..MaxFaults
            BY BoundsAssumption
        <3>2. faults < MaxFaults /\ faults' = faults + 1
            BY <1>13 DEF ConnectionDrops, Disturb
        <3> QED
            BY <3>1, <3>2
    <2> QED
        BY <1>13, <2>1 DEF ConnectionDrops
<1>14. CASE CommitAnswerLost(i)
    <2>1. faults' \in 0..MaxFaults
        <3>1. MaxFaults \in Nat /\ faults \in 0..MaxFaults
            BY BoundsAssumption
        <3>2. faults < MaxFaults /\ faults' = faults + 1
            BY <1>14 DEF CommitAnswerLost, Disturb
        <3> QED
            BY <3>1, <3>2
    <2> QED
        BY <1>14, <2>1 DEF CommitAnswerLost
<1> QED
    BY <1>1, <1>2, <1>3, <1>4, <1>5, <1>6, <1>7, <1>8, <1>9, <1>10, <1>11, <1>12, <1>13, <1>14
    DEF OneRunSteps, RunStep

(***************************************************************************)
(* Where a run is, and what it wrote.                                      *)
(***************************************************************************)

\* A run that has ended holds nothing.
LEMMA EndedHoldsNothing ==
    ASSUME NEW i \in Importer, RunInv(i), step'[i] = "ended", tx'[i] = NoTransaction,
           source'[i] = source[i], snapshot'[i] = snapshot[i]
    PROVE  RunInv(i)'
BY DEF RunInv, Open, NoTransaction, Loading

\* An open transaction that a step leaves alone still holds what it should.
LEMMA WrittenKept ==
    ASSUME NEW i \in Importer, RunInv(i), Open(i), step'[i] \in Loading, tx'[i] = tx[i],
           source'[i] = source[i], snapshot'[i] = snapshot[i], counts'[i] = counts[i],
           findings'[i] = findings[i], options' = options,
           step'[i] = "load" => Suffix(todo'[i], LoadOrder), step'[i] = "count" => Suffix(todo'[i], LineOrder),
           \A t \in Table : Written(i, t)' = Written(i, t),
           (step'[i] = "load" /\ "identity" \notin Items(i)') \/ step'[i] = "count" =>
               (step[i] = "load" /\ "identity" \notin Items(i)) \/ step[i] = "count"
    PROVE  RunInv(i)'
BY DEF RunInv, Open, KnowsAll, AcceptsOrphans, Loading

LEMMA ReadsInv ==
    ASSUME Shapes, NEW i \in Importer, RunInv(i),
           BeginReadOnly(i) \/ ReadTable(i) \/ CheckSnapshot(i)
    PROVE  RunInv(i)'
<1>1. CASE BeginReadOnly(i)
    <2>1. /\ step'[i] = "read" /\ todo'[i] = ReadOrder /\ source'[i] = legacy
          /\ snapshot'[i] = snapshot[i] /\ tx'[i] = tx[i] /\ step[i] = "begin"
        BY <1>1 DEF Shapes, BeginReadOnly, GoTo
    <2>2. Suffix(ReadOrder, ReadOrder) /\ Items(i)' = LegacyTables
        <3>1. Suffix(ReadOrder, ReadOrder) /\ Elements(ReadOrder) = LegacyTables
            BY Orders, SuffixWhole
        <3> QED
            BY <2>1, <3>1 DEF Items, Elements
    <2> QED
        BY <2>1, <2>2 DEF RunInv, Shapes, Open, Loading
<1>2. CASE ReadTable(i)
    <2> DEFINE t == Head(todo[i])
    <2>1. /\ step[i] = "read" /\ todo[i] # <<>> /\ step'[i] = "read" /\ todo'[i] = Tail(todo[i])
          /\ source'[i] = source[i] /\ tx'[i] = tx[i]
          /\ snapshot'[i] = [snapshot[i] EXCEPT ![t] = source[i][t]]
        BY <1>2 DEF Shapes, ReadTable, Continue
    <2>2. /\ t \in LegacyTables /\ Suffix(todo'[i], ReadOrder)
          /\ Items(i)' = Items(i) \ {t}
        <3>1. Suffix(todo[i], ReadOrder) /\ Items(i) = Elements(todo[i])
            BY <2>1 DEF RunInv, Items, Elements
        <3>2. Items(i)' = Elements(Tail(todo[i]))
            BY <2>1 DEF Items, Elements
        <3> QED
            BY <2>1, <3>1, <3>2, ReadParts
    <2>3. IsLegacy(snapshot'[i]) /\ \A u \in LegacyTables \ Items(i)' : snapshot'[i][u] = source'[i][u]
        <3>1. IsLegacy(snapshot[i]) /\ IsLegacy(source[i]) /\ DOMAIN snapshot[i] = LegacyTables
            BY DEF RunInv, IsLegacy, LegacyTables
        <3>2. /\ \A u \in LegacyTables : snapshot'[i][u] = IF u = t THEN source[i][u] ELSE snapshot[i][u]
              /\ DOMAIN snapshot'[i] = LegacyTables
              /\ snapshot'[i] = [u \in LegacyTables |-> snapshot'[i][u]]
            BY <2>1, <2>2, <3>1
        <3>3. IsLegacy(snapshot'[i])
            <4> DEFINE s == snapshot'[i]
            <4>1. \A u \in LegacyTables : DOMAIN s[u] \subseteq (-IntegerLimit - 1)..IntegerLimit
                BY <3>1, <3>2 DEF IsLegacy, LegacyTables
            <4>2. \A u \in DOMAIN s.users : s.users[u].email \in Email
                <5>1. s.users = source[i].users \/ s.users = snapshot[i].users
                    BY <3>2 DEF LegacyTables
                <5> QED
                    BY <5>1, <3>1 DEF IsLegacy
            <4>3. s.cards \in [DOMAIN s.cards -> [number : Number \cup {Null}, permissions : Int \cup {Null},
                                                  userId : Int \cup {Null}]]
                <5>1. s.cards = source[i].cards \/ s.cards = snapshot[i].cards
                    BY <3>2 DEF LegacyTables
                <5> QED
                    BY <5>1, <3>1 DEF IsLegacy
            <4>4. \A p \in DOMAIN s.payments : s.payments[p].amount \in Int \cup {Null, NotDecimal}
                <5>1. s.payments = source[i].payments \/ s.payments = snapshot[i].payments
                    BY <3>2 DEF LegacyTables
                <5> QED
                    BY <5>1, <3>1 DEF IsLegacy
            <4> QED
                BY <3>2, <4>1, <4>2, <4>3, <4>4 DEF IsLegacy, LegacyTables
        <3> QED
            BY <2>1, <2>2, <3>2, <3>3 DEF RunInv
    <2> QED
        BY <2>1, <2>2, <2>3 DEF RunInv, Open, Loading
<1>3. CASE CheckSnapshot(i)
    <2>1. /\ step[i] = "read" /\ todo[i] = <<>> /\ source'[i] = source[i] /\ snapshot'[i] = snapshot[i]
          /\ counts'[i] = CountsOf(source[i]) /\ findings'[i] = Preflight(snapshot[i])
          /\ options' = options
        BY <1>3 DEF Shapes, CheckSnapshot, reading, elsewhere
    <2>2. \/ step'[i] = "ended" /\ tx'[i] = NoTransaction
          \/ /\ step'[i] = "empty" /\ tx'[i] = EmptyDatabase
             /\ Refusals(findings'[i], AcceptsOrphans(i)) = {}
        BY <1>3 DEF Shapes, CheckSnapshot, GoTo, Fail, End
    <2>3. CASE step'[i] = "ended" /\ tx'[i] = NoTransaction
        BY <2>1, <2>3, EndedHoldsNothing
    <2>4. CASE /\ step'[i] = "empty" /\ tx'[i] = EmptyDatabase
               /\ Refusals(findings'[i], AcceptsOrphans(i)) = {}
        <3>1. snapshot[i] = source[i]
            <4>1. Items(i) = {}
                BY <2>1, ReadParts DEF RunInv, Items, Elements
            <4>2. /\ DOMAIN snapshot[i] = LegacyTables /\ DOMAIN source[i] = LegacyTables
                  /\ snapshot[i] = [t \in LegacyTables |-> snapshot[i][t]]
                  /\ source[i] = [t \in LegacyTables |-> source[i][t]]
                BY DEF RunInv, IsLegacy, LegacyTables
            <4>3. \A t \in LegacyTables : snapshot[i][t] = source[i][t]
                BY <2>1, <4>1 DEF RunInv
            <4> QED
                BY <4>2, <4>3
        <3>2. KnowsAll(i)'
            BY <2>1, <2>4, <3>1 DEF KnowsAll, AcceptsOrphans
        <3>3. DOMAIN EmptyDatabase # {} /\ \A t \in Table : EmptyDatabase[t] = {}
            BY DEF EmptyDatabase, Table
        <3>4. \A t \in Table : Written(i, t)' = {}
            BY <2>4 DEF Written
        <3> QED
            BY <2>1, <2>4, <3>2, <3>3, <3>4 DEF RunInv, Open, Loading
    <2> QED
        BY <2>2, <2>3, <2>4
<1> QED
    BY <1>1, <1>2, <1>3

\* What is left of the load, told of the run.
LEMMA LoadLeft ==
    ASSUME NEW i \in Importer, RunInv(i), step[i] = "load"
    PROVE  /\ Items(i) = Elements(todo[i]) /\ Open(i) /\ KnowsAll(i)
           /\ todo[i] = <<>> => Items(i) = {}
           /\ todo[i] # <<>> =>
                  LET t == Head(todo[i])
                  IN  /\ t \in Items(i) \cap LoadItems /\ Suffix(Tail(todo[i]), LoadOrder)
                      /\ Elements(Tail(todo[i])) = Items(i) \ {t}
                      /\ t = "user" => "orientedBy" \in Items(i)
                      /\ t # "user" => "user" \notin Items(i)
                      /\ t = "slots" => "cards" \notin Items(i)
                      /\ t = "user_certifications" => "certifications" \notin Items(i)
<1>1. Suffix(todo[i], LoadOrder) /\ Open(i) /\ KnowsAll(i) /\ Items(i) = Elements(todo[i])
    BY DEF RunInv, Loading, Items, Elements
<1> QED
    BY <1>1, LoadParts

\* A table is given all of its rows at once, when its turn comes.
LEMMA InsertWrites ==
    ASSUME Shapes, NEW i \in Importer, RunInv(i), InsertRows(i), step'[i] = "load"
    PROVE  LET t == Head(todo[i])
           IN  /\ todo[i] # <<>> /\ step[i] = "load" /\ t \in Table /\ todo'[i] = Tail(todo[i])
               /\ ~BreaksConstraint(i, t, Inserts(i)[t]) /\ ~Waits(i)
               /\ tx' = [tx EXCEPT ![i][t] = Inserts(i)[t]] /\ tx[i][t] = {}
               /\ skipped' = [skipped EXCEPT ![i] = SkippedAfter(i, t)]
               /\ UNCHANGED <<said, target, agrees, reading, elsewhere>>
<1> DEFINE t == Head(todo[i])
<1>1. /\ step[i] = "load" /\ todo[i] # <<>> /\ t \in DOMAIN Inserts(i) /\ ~Waits(i)
      /\ UNCHANGED <<reading, agrees, elsewhere>>
    BY DEF InsertRows
<1>2. /\ ~BreaksConstraint(i, t, Inserts(i)[t])
      /\ tx' = [tx EXCEPT ![i][t] = @ \cup Inserts(i)[t]]
      /\ skipped' = [skipped EXCEPT ![i] = SkippedAfter(i, t)]
      /\ todo'[i] = Tail(todo[i]) /\ UNCHANGED <<said, target>>
    <2>1. \/ Fail(i, "constraint")
          \/ /\ ~BreaksConstraint(i, t, Inserts(i)[t])
             /\ tx' = [tx EXCEPT ![i][t] = @ \cup Inserts(i)[t]]
             /\ skipped' = [skipped EXCEPT ![i] = SkippedAfter(i, t)]
             /\ Continue(i) /\ UNCHANGED <<said, target>>
        BY DEF InsertRows
    <2>2. ~Fail(i, "constraint")
        BY DEF Fail, End, GoTo, Shapes
    <2> QED
        BY <2>1, <2>2 DEF Continue, Shapes
<1>3. t \in Table
    BY <1>1 DEF Inserts, Table
<1>4. tx[i][t] = {}
    <2>1. t \in Items(i) /\ Open(i)
        BY <1>1, LoadLeft
    <2> QED
        BY <1>1, <1>3, <2>1 DEF RunInv, Written
<1>5. tx' = [tx EXCEPT ![i][t] = Inserts(i)[t]]
    BY <1>2, <1>4
<1> QED
    BY <1>1, <1>2, <1>3, <1>4, <1>5

LEMMA InsertInv ==
    ASSUME Shapes, NEW i \in Importer, RunInv(i), InsertRows(i)
    PROVE  RunInv(i)'
<1>0. PICK t : t = Head(todo[i])
    OBVIOUS
<1>1. /\ step[i] = "load" /\ UNCHANGED <<source, snapshot, counts, findings, options>>
      /\ step'[i] = "load" \/ (step'[i] = "ended" /\ tx'[i] = NoTransaction)
    BY DEF InsertRows, Fail, End, GoTo, Continue, Shapes, reading, elsewhere
<1>2. CASE step'[i] = "ended" /\ tx'[i] = NoTransaction
    BY <1>1, <1>2, EndedHoldsNothing
<1>3. CASE step'[i] = "load"
    <2>1. /\ todo[i] # <<>> /\ t \in Table /\ todo'[i] = Tail(todo[i])
          /\ tx' = [tx EXCEPT ![i][t] = Inserts(i)[t]]
        BY <1>0, <1>3, InsertWrites
    <2>2. /\ Open(i) /\ KnowsAll(i) /\ t \in Items(i) /\ Suffix(todo'[i], LoadOrder)
          /\ Items(i)' = Items(i) \ {t}
          /\ t = "user" => "orientedBy" \in Items(i)
        <3>1. Items(i)' = Elements(todo'[i])
            BY DEF Items, Elements
        <3> QED
            BY <1>0, <1>1, <2>1, <3>1, LoadLeft
    <2>3. DOMAIN tx[i] = DOMAIN EmptyDatabase /\ t \in DOMAIN tx[i] /\ t # "nextCertification"
        <3>1. DOMAIN tx[i] = DOMAIN EmptyDatabase
            BY <2>2 DEF RunInv
        <3> QED
            BY <2>1, <3>1 DEF EmptyDatabase, Table
    <2>4. /\ DOMAIN tx'[i] = DOMAIN EmptyDatabase
          /\ \A u \in DOMAIN tx[i] : tx'[i][u] = IF u = t THEN Inserts(i)[t] ELSE tx[i][u]
        BY <2>1, <2>3 DEF Shapes
    <2>5. \A u \in Table : tx'[i][u] = Written(i, u)'
        <3>1. ASSUME NEW u \in Table, u # t
              PROVE  tx'[i][u] = Written(i, u)'
            <4>1. Written(i, u)' = Written(i, u)
                <5>1. u \in Items(i)' <=> u \in Items(i)
                    BY <2>2, <3>1
                <5>2. "orientedBy" \in Items(i)' <=> "orientedBy" \in Items(i)
                    BY <2>1, <2>2 DEF Table
                <5> QED
                    BY <1>1, <1>3, <5>1, <5>2 DEF Written, AllRows
            <4>2. u \in DOMAIN tx[i]
                BY <2>3 DEF EmptyDatabase, Table
            <4> QED
                BY <2>2, <2>4, <3>1, <4>1, <4>2 DEF RunInv
        <3>2. tx'[i][t] = Written(i, t)'
            <4>1. tx'[i][t] = Inserts(i)[t] /\ t \notin Items(i)'
                BY <2>2, <2>3, <2>4
            <4>2. snapshot[i] = source[i]
                BY <2>2 DEF KnowsAll
            <4>3. CASE t = "user"
                <5>1. "orientedBy" \in Items(i)'
                    BY <2>2, <4>3
                <5>2. Written(i, t)' = UserRows(i, source[i])
                    BY <1>1, <1>3, <4>1, <4>3, <5>1 DEF Written
                <5> QED
                    BY <4>1, <4>2, <4>3, <5>2 DEF Inserts
            <4>4. CASE t # "user"
                <5>1. Written(i, t)' = AllRows(i)[t]
                    BY <1>1, <1>3, <4>1, <4>4 DEF Written, AllRows
                <5>2. Inserts(i)[t] = AllRows(i)[t]
                    BY <2>1, <4>2, <4>4 DEF Inserts, AllRows, Table
                <5> QED
                    BY <4>1, <5>1, <5>2
            <4> QED
                BY <4>3, <4>4
        <3> QED
            BY <3>1, <3>2
    <2>6. tx'[i].nextCertification = tx[i].nextCertification
        BY <2>3, <2>4 DEF EmptyDatabase
    <2>7. "identity" \notin Items(i)' => "identity" \notin Items(i)
        BY <2>1, <2>2 DEF Table
    <2>8. Open(i)' /\ KnowsAll(i)'
        <3>1. DOMAIN EmptyDatabase # {}
            BY DEF EmptyDatabase
        <3> QED
            BY <1>1, <2>2, <2>4, <3>1 DEF Open, KnowsAll, AcceptsOrphans
    <2>9. /\ (step[i] = "load" /\ "identity" \notin Items(i)) =>
                 tx[i].nextCertification = NextCertification(source[i])
          /\ IsLegacy(source[i]) /\ IsLegacy(snapshot[i])
        BY <2>2 DEF RunInv
    <2> QED
        BY <1>1, <1>3, <2>2, <2>4, <2>5, <2>6, <2>7, <2>8, <2>9 DEF RunInv, Loading
<1> QED
    BY <1>1, <1>2, <1>3

\* The second pass gives each member row its orienter.
LEMMA Linked ==
    ASSUME NEW i, NEW s
    PROVE  {[m EXCEPT !.orientedBy = Known(i, s, s.users[m.legacyId].orientedBy)] : m \in UserRows(i, s)}
               = LinkedRows(i, s)
<1> DEFINE Row(u) == [id |-> MemberId(i, u), legacyId |-> u, email |-> CanonicalEmail[s.users[u].email],
                      orientedBy |-> Null, cardAccess |-> u \in MembersWithCardAccess(s)]
           Link(m) == [m EXCEPT !.orientedBy = Known(i, s, s.users[m.legacyId].orientedBy)]
           Done(u) == [id |-> MemberId(i, u), legacyId |-> u, email |-> CanonicalEmail[s.users[u].email],
                       orientedBy |-> Known(i, s, s.users[u].orientedBy),
                       cardAccess |-> u \in MembersWithCardAccess(s)]
<1>1. \A u \in DOMAIN s.users : Link(Row(u)) = Done(u)
    OBVIOUS
<1>2. UserRows(i, s) = {Row(u) : u \in DOMAIN s.users} /\ LinkedRows(i, s) = {Done(u) : u \in DOMAIN s.users}
    BY DEF UserRows, LinkedRows
<1> HIDE DEF Row, Link, Done
<1>3. {Link(m) : m \in UserRows(i, s)} = LinkedRows(i, s)
    BY <1>1, <1>2
<1> QED
    BY <1>3 DEF Link

\* Where the transaction holds one more thing, and where the rest of it stays.
LEMMA OthersWritten ==
    ASSUME NEW i \in Importer, step[i] = "load", step'[i] = "load", source'[i] = source[i],
           NEW t, Items(i)' = Items(i) \ {t}, NEW u \in Table, u # t, u # "user" \/ t # "orientedBy"
    PROVE  Written(i, u)' = Written(i, u)
<1>1. u \in Items(i)' <=> u \in Items(i)
    OBVIOUS
<1>2. u = "user" => ("orientedBy" \in Items(i)' <=> "orientedBy" \in Items(i))
    OBVIOUS
<1> QED
    BY <1>1, <1>2 DEF Written, AllRows

LEMMA LinkInv ==
    ASSUME Shapes, NEW i \in Importer, RunInv(i), LinkOrientedBy(i)
    PROVE  /\ RunInv(i)' /\ step[i] = "load" /\ step'[i] = "load" /\ UNCHANGED target
           /\ tx' = [tx EXCEPT ![i].user = LinkedRows(i, source[i])]
           /\ tx[i].user = UserRows(i, source[i])
<1>1. /\ step[i] = "load" /\ todo[i] # <<>> /\ Head(todo[i]) = "orientedBy"
      /\ step'[i] = "load" /\ todo'[i] = Tail(todo[i])
      /\ UNCHANGED <<source, snapshot, counts, findings, options, target>>
    BY DEF LinkOrientedBy, Continue, Shapes, reading, elsewhere
<1>2. /\ Open(i) /\ KnowsAll(i) /\ "orientedBy" \in Items(i) /\ Suffix(todo'[i], LoadOrder)
      /\ Items(i)' = Items(i) \ {"orientedBy"} /\ "user" \notin Items(i)
    <2>1. Items(i)' = Elements(todo'[i])
        BY DEF Items, Elements
    <2> QED
        BY <1>1, <2>1, LoadLeft
<1>3. DOMAIN tx[i] = DOMAIN EmptyDatabase /\ tx[i].user = UserRows(i, source[i])
    <2>1. tx[i].user = Written(i, "user") /\ DOMAIN tx[i] = DOMAIN EmptyDatabase
        BY <1>2 DEF RunInv, Table
    <2> QED
        BY <1>1, <1>2, <2>1 DEF Written
<1>4. tx' = [tx EXCEPT ![i].user = LinkedRows(i, source[i])]
    <2> DEFINE linked == {[m EXCEPT !.orientedBy = Known(i, source[i], source[i].users[m.legacyId].orientedBy)] :
                              m \in tx[i].user}
    <2>1. snapshot[i] = source[i]
        BY <1>2 DEF KnowsAll
    <2>2. tx' = [tx EXCEPT ![i].user = linked]
        BY <2>1 DEF LinkOrientedBy
    <2>3. linked = LinkedRows(i, source[i])
        BY <1>3, Linked
    <2> HIDE DEF linked
    <2> QED
        BY <2>2, <2>3
<1>5. /\ DOMAIN tx'[i] = DOMAIN EmptyDatabase
      /\ \A u \in DOMAIN tx[i] : tx'[i][u] = IF u = "user" THEN LinkedRows(i, source[i]) ELSE tx[i][u]
    BY <1>3, <1>4 DEF Shapes
<1>6. \A u \in Table : tx'[i][u] = Written(i, u)'
    <2>1. ASSUME NEW u \in Table, u # "user"
          PROVE  tx'[i][u] = Written(i, u)'
        <3>1. Written(i, u)' = Written(i, u)
            BY <1>1, <1>2, <2>1, OthersWritten DEF Table
        <3>2. u \in DOMAIN tx[i]
            BY <1>3 DEF EmptyDatabase, Table
        <3> QED
            BY <1>2, <1>5, <2>1, <3>1, <3>2 DEF RunInv
    <2>2. tx'[i].user = Written(i, "user")'
        <3>1. "orientedBy" \notin Items(i)' /\ "user" \notin Items(i)'
            BY <1>2
        <3>2. Written(i, "user")' = LinkedRows(i, source[i])
            BY <1>1, <3>1 DEF Written, AllRows
        <3> QED
            BY <1>3, <1>5, <3>2 DEF EmptyDatabase
    <2> QED
        BY <2>1, <2>2
<1>7. tx'[i].nextCertification = tx[i].nextCertification
    BY <1>3, <1>5 DEF EmptyDatabase
<1>8. "identity" \notin Items(i)' => "identity" \notin Items(i)
    BY <1>2
<1>9. Open(i)' /\ KnowsAll(i)'
    <2>1. DOMAIN EmptyDatabase # {}
        BY DEF EmptyDatabase
    <2> QED
        BY <1>1, <1>2, <1>5, <2>1 DEF Open, KnowsAll, AcceptsOrphans
<1>10. /\ (step[i] = "load" /\ "identity" \notin Items(i)) =>
              tx[i].nextCertification = NextCertification(source[i])
       /\ IsLegacy(source[i]) /\ IsLegacy(snapshot[i])
    BY <1>2 DEF RunInv
<1>11. RunInv(i)'
    BY <1>1, <1>2, <1>5, <1>6, <1>7, <1>8, <1>9, <1>10 DEF RunInv, Loading
<1> QED
    BY <1>1, <1>3, <1>4, <1>11

LEMMA IdentityInv ==
    ASSUME Shapes, NEW i \in Importer, RunInv(i), RestartIdentity(i)
    PROVE  /\ RunInv(i)' /\ step[i] = "load" /\ step'[i] = "load" /\ UNCHANGED target
           /\ tx' = [tx EXCEPT ![i].nextCertification = NextCertification(source[i])]
<1>1. /\ step[i] = "load" /\ todo[i] # <<>> /\ Head(todo[i]) = "identity"
      /\ step'[i] = "load" /\ todo'[i] = Tail(todo[i])
      /\ UNCHANGED <<source, snapshot, counts, findings, options, target>>
    BY DEF RestartIdentity, Continue, Shapes, reading, elsewhere
<1>2. /\ Open(i) /\ KnowsAll(i) /\ Suffix(todo'[i], LoadOrder)
      /\ Items(i)' = Items(i) \ {"identity"}
    <2>1. Items(i)' = Elements(todo'[i])
        BY DEF Items, Elements
    <2> QED
        BY <1>1, <2>1, LoadLeft
<1>3. DOMAIN tx[i] = DOMAIN EmptyDatabase
    BY <1>2 DEF RunInv
<1>4. tx' = [tx EXCEPT ![i].nextCertification = NextCertification(source[i])]
    <2>1. snapshot[i] = source[i]
        BY <1>2 DEF KnowsAll
    <2> QED
        BY <2>1 DEF RestartIdentity, NextCertification
<1>5. /\ DOMAIN tx'[i] = DOMAIN EmptyDatabase
      /\ \A u \in DOMAIN tx[i] :
             tx'[i][u] = IF u = "nextCertification" THEN NextCertification(source[i]) ELSE tx[i][u]
    BY <1>3, <1>4 DEF Shapes
<1>6. \A u \in Table : tx'[i][u] = Written(i, u)'
    <2>1. ASSUME NEW u \in Table
          PROVE  tx'[i][u] = Written(i, u)'
        <3>1. Written(i, u)' = Written(i, u)
            BY <1>1, <1>2, OthersWritten DEF Table
        <3>2. u \in DOMAIN tx[i] /\ u # "nextCertification"
            BY <1>3 DEF EmptyDatabase, Table
        <3> QED
            BY <1>2, <1>5, <3>1, <3>2 DEF RunInv
    <2> QED
        BY <2>1
<1>7. tx'[i].nextCertification = NextCertification(source'[i])
    BY <1>1, <1>3, <1>5 DEF EmptyDatabase
<1>8. Open(i)' /\ KnowsAll(i)'
    <2>1. DOMAIN EmptyDatabase # {}
        BY DEF EmptyDatabase
    <2> QED
        BY <1>1, <1>2, <1>5, <2>1 DEF Open, KnowsAll, AcceptsOrphans
<1>9. RunInv(i)'
    BY <1>1, <1>2, <1>5, <1>6, <1>7, <1>8 DEF RunInv, Loading
<1> QED
    BY <1>1, <1>4, <1>9

\* The steps that write nothing: the emptiness check, the slots, the lines.
LEMMA LooksInv ==
    ASSUME Shapes, NEW i \in Importer, RunInv(i),
           AssertTableEmpty(i) \/ VerifySlots(i) \/ BeginCounting(i) \/ CountLine(i)
    PROVE  /\ RunInv(i)' /\ step[i] \in Loading /\ UNCHANGED target
           /\ \/ tx' = tx /\ said' = said /\ step'[i] \in Loading
              \/ tx' = [tx EXCEPT ![i] = NoTransaction] /\ said'[i] # "committed" /\ step'[i] = "ended"
<1>1. /\ UNCHANGED <<source, snapshot, counts, findings, options, target>>
      /\ \/ tx' = tx /\ said' = said
         \/ /\ tx' = [tx EXCEPT ![i] = NoTransaction] /\ said'[i] # "committed" /\ step'[i] = "ended"
    BY DEF AssertTableEmpty, VerifySlots, BeginCounting, CountLine, Fail, End, GoTo, Continue, Shapes,
           reading, elsewhere
<1>2. CASE /\ tx' = [tx EXCEPT ![i] = NoTransaction] /\ said'[i] # "committed" /\ step'[i] = "ended"
    <2>1. RunInv(i)'
        BY <1>1, <1>2, EndedHoldsNothing DEF Shapes
    <2>2. step[i] \in Loading
        BY DEF AssertTableEmpty, VerifySlots, BeginCounting, CountLine, Loading
    <2> QED
        BY <1>1, <1>2, <2>1, <2>2
<1>3. CASE tx' = tx /\ said' = said /\ AssertTableEmpty(i)
    <2>1. /\ step[i] = "empty"
          /\ step'[i] = "empty" \/ (step'[i] = "load" /\ todo'[i] = LoadOrder)
        BY <1>3 DEF AssertTableEmpty, GoTo, Continue, Fail, End, Shapes
    <2>2. step'[i] = "load" => Suffix(todo'[i], LoadOrder) /\ Items(i)' = LoadItems
        <3>1. Suffix(LoadOrder, LoadOrder) /\ Elements(LoadOrder) = LoadItems
            BY Orders, SuffixWhole
        <3> QED
            BY <2>1, <3>1 DEF Items, Elements
    <2>3. \A t \in Table : Written(i, t)' = Written(i, t)
        BY <2>1, <2>2 DEF Written, LoadItems
    <2>4. Open(i) /\ step'[i] \in Loading /\ step'[i] # "count"
          /\ (step'[i] = "load" => "identity" \in Items(i)')
        BY <2>1, <2>2 DEF RunInv, Loading, LoadItems
    <2> QED
        BY <1>1, <1>3, <2>1, <2>2, <2>3, <2>4, WrittenKept DEF Loading
<1>4. CASE tx' = tx /\ said' = said /\ VerifySlots(i)
    <2>1. /\ step[i] = "load" /\ todo[i] # <<>> /\ Head(todo[i]) = "slots"
          /\ step'[i] = "load" /\ todo'[i] = Tail(todo[i])
        BY <1>4 DEF VerifySlots, Continue, Fail, End, GoTo, Shapes
    <2>2. Open(i) /\ Suffix(todo'[i], LoadOrder) /\ Items(i)' = Items(i) \ {"slots"}
        <3>1. Items(i)' = Elements(todo'[i])
            BY DEF Items, Elements
        <3> QED
            BY <2>1, <3>1, LoadLeft
    <2>3. \A t \in Table : Written(i, t)' = Written(i, t)
        BY <1>1, <2>1, <2>2, OthersWritten DEF Table
    <2> QED
        BY <1>1, <1>4, <2>1, <2>2, <2>3, WrittenKept DEF Loading
<1>5. CASE tx' = tx /\ said' = said /\ BeginCounting(i)
    <2>1. step[i] = "load" /\ todo[i] = <<>> /\ step'[i] = "count" /\ todo'[i] = LineOrder
        BY <1>5 DEF BeginCounting, GoTo, Shapes
    <2>2. Open(i) /\ Items(i) = {}
        BY <2>1, LoadLeft
    <2>3. Suffix(todo'[i], LineOrder)
        BY <2>1, Orders, SuffixWhole
    <2>4. \A t \in Table : Written(i, t)' = Written(i, t)
        BY <1>1, <2>1, <2>2 DEF Written, AllRows
    <2> QED
        BY <1>1, <1>5, <2>1, <2>2, <2>3, <2>4, WrittenKept DEF Loading
<1>6. CASE tx' = tx /\ said' = said /\ CountLine(i)
    <2>1. step[i] = "count" /\ todo[i] # <<>> /\ step'[i] = "count" /\ todo'[i] = Tail(todo[i])
        BY <1>6 DEF CountLine, Continue, Shapes
    <2>2. Open(i) /\ Suffix(todo'[i], LineOrder)
        <3>1. Suffix(todo[i], LineOrder) /\ Open(i)
            BY <2>1 DEF RunInv, Loading
        <3> QED
            BY <2>1, <3>1, LineParts
    <2>3. \A t \in Table : Written(i, t)' = Written(i, t)
        BY <1>1, <2>1 DEF Written, AllRows
    <2> QED
        BY <1>1, <1>6, <2>1, <2>2, <2>3, WrittenKept DEF Loading
<1> QED
    BY <1>1, <1>2, <1>3, <1>4, <1>5, <1>6

\* What a step of run i does to the transactions and to what is committed.
LeavesBoth == tx' = tx /\ target' = target
OpensOne(i) == tx' = [tx EXCEPT ![i] = EmptyDatabase] /\ target' = target
RollsBack(i) == tx' = [tx EXCEPT ![i] = NoTransaction] /\ target' = target
InsertsOne(i) ==
    \E t \in Table :
        /\ Open(i) /\ ~Waits(i) /\ todo[i] # <<>> /\ t = Head(todo[i]) /\ step[i] = "load"
        /\ KnowsAll(i) /\ ~BreaksConstraint(i, t, Inserts(i)[t])
        /\ tx' = [tx EXCEPT ![i][t] = Inserts(i)[t]] /\ target' = target
LinksMembers(i) ==
    /\ Open(i) /\ tx[i].user = UserRows(i, source[i])
    /\ tx' = [tx EXCEPT ![i].user = LinkedRows(i, source[i])] /\ target' = target
MovesIdentity(i) ==
    /\ Open(i) /\ tx' = [tx EXCEPT ![i].nextCertification = NextCertification(source[i])] /\ target' = target
Commits(i) ==
    /\ Open(i) /\ KnowsAll(i) /\ ~DryRun(i) /\ step[i] = "count" /\ step'[i] = "ended"
    /\ \A t \in Table : tx[i][t] = AllRows(i)[t]
    /\ tx[i].nextCertification = NextCertification(source[i])
    /\ target' = Committed(i) /\ tx' = [tx EXCEPT ![i] = NoTransaction]
    /\ UNCHANGED <<source, snapshot, counts, findings>>

Moves(i) ==
    \/ /\ said'[i] # "committed" \/ said' = said
       /\ \/ LeavesBoth \/ OpensOne(i) \/ RollsBack(i)
          \/ InsertsOne(i) \/ LinksMembers(i) \/ MovesIdentity(i)
    \/ Commits(i)

LEMMA EndsInv ==
    ASSUME Shapes, NEW i \in Importer, RunInv(i),
           Finish(i) \/ DeadlockAborts(i) \/ ConnectionDrops(i) \/ CommitAnswerLost(i)
    PROVE  /\ RunInv(i)' /\ step[i] \notin {"off", "ended"} /\ step'[i] = "ended" /\ UNCHANGED source
           /\ Commits(i) \/ (RollsBack(i) /\ said'[i] # "committed")
<1>1. /\ UNCHANGED <<source, snapshot, counts, findings>> /\ step'[i] = "ended"
      /\ tx' = [tx EXCEPT ![i] = NoTransaction]
    BY DEF Finish, DeadlockAborts, ConnectionDrops, CommitAnswerLost, Fail, End, GoTo, Shapes, reading
<1>2. RunInv(i)'
    BY <1>1, EndedHoldsNothing DEF Shapes
<1>3. step[i] \notin {"off", "ended"}
    <2>1. CASE DeadlockAborts(i)
        <3>1. Open(i)
            BY <2>1 DEF DeadlockAborts, WaitsFor
        <3> QED
            BY <3>1 DEF RunInv, Loading
    <2> QED
        BY <2>1 DEF Finish, ConnectionDrops, CommitAnswerLost
<1>4. Commits(i) \/ (RollsBack(i) /\ said'[i] # "committed")
    <2>1. CASE target' = target /\ said'[i] # "committed"
        BY <1>1, <2>1 DEF RollsBack
    <2>2. CASE ~(target' = target /\ said'[i] # "committed")
        <3>1. /\ step[i] = "count" /\ ~DryRun(i) /\ target' = Committed(i)
            BY <2>2 DEF Finish, DeadlockAborts, ConnectionDrops, CommitAnswerLost, Fail, End, Shapes
        <3>2. /\ Open(i) /\ KnowsAll(i) /\ \A t \in Table : tx[i][t] = Written(i, t)
              /\ tx[i].nextCertification = NextCertification(source[i])
            BY <3>1 DEF RunInv, Loading
        <3>3. \A t \in Table : Written(i, t) = AllRows(i)[t]
            BY <3>1 DEF Written
        <3> QED
            BY <1>1, <3>1, <3>2, <3>3 DEF Commits
    <2> QED
        BY <2>1, <2>2
<1> QED
    BY <1>1, <1>2, <1>3, <1>4

\* Every step of a run is one of those, and the run is where it should be after it.
LEMMA RunMoves ==
    ASSUME Shapes, NEW i \in Importer, RunInv(i), OneRunSteps(i)
    PROVE  /\ RunInv(i)' /\ step[i] \notin {"off", "ended"} /\ step'[i] # "off" /\ Moves(i)
           /\ \/ UNCHANGED source
              \/ step[i] = "begin" /\ step'[i] = "read" /\ source' = [source EXCEPT ![i] = legacy]
           /\ step'[i] \in {"read"} \cup Loading => step[i] \in {"begin", "read"} \cup Loading
           /\ step'[i] = "read" => step[i] = "read" \/ source' = [source EXCEPT ![i] = legacy]
<1>1. CASE BeginReadOnly(i)
    <2>1. /\ step[i] = "begin" /\ step'[i] = "read" /\ source' = [source EXCEPT ![i] = legacy]
          /\ said' = said /\ LeavesBoth
        BY <1>1 DEF BeginReadOnly, GoTo, Shapes, LeavesBoth
    <2> QED
        BY <1>1, <2>1, ReadsInv DEF Moves
<1>2. CASE ReadTable(i)
    <2>1. step[i] = "read" /\ step'[i] = "read" /\ UNCHANGED source /\ said' = said /\ LeavesBoth
        BY <1>2 DEF ReadTable, Continue, Shapes, LeavesBoth
    <2> QED
        BY <1>2, <2>1, ReadsInv DEF Moves
<1>3. CASE CheckSnapshot(i)
    <2>1. /\ step[i] = "read" /\ UNCHANGED source /\ step'[i] \in {"empty", "ended"}
          /\ \/ OpensOne(i) /\ said' = said
             \/ RollsBack(i) /\ said'[i] # "committed"
        BY <1>3 DEF CheckSnapshot, Fail, End, GoTo, Shapes, OpensOne, RollsBack
    <2> QED
        BY <1>3, <2>1, ReadsInv DEF Moves
<1>4. CASE InsertRows(i)
    <2>1. /\ step[i] = "load" /\ UNCHANGED source
          /\ step'[i] = "load" \/ (step'[i] = "ended" /\ RollsBack(i) /\ said'[i] # "committed")
        BY <1>4 DEF InsertRows, Fail, End, GoTo, Continue, Shapes, RollsBack, reading
    <2>2. ASSUME step'[i] = "load" PROVE InsertsOne(i) /\ said' = said
        <3>1. Open(i) /\ KnowsAll(i)
            BY <2>1, LoadLeft
        <3> QED
            BY <1>4, <2>1, <2>2, <3>1, InsertWrites DEF InsertsOne
    <2> QED
        BY <1>4, <2>1, <2>2, InsertInv DEF Moves, Loading
<1>5. CASE LinkOrientedBy(i)
    <2>1. LinksMembers(i) /\ said' = said /\ UNCHANGED source
        <3>1. said' = said /\ UNCHANGED source /\ Open(i)
            BY <1>5, LoadLeft DEF LinkOrientedBy, reading
        <3> QED
            BY <1>5, <3>1, LinkInv DEF LinksMembers
    <2> QED
        BY <1>5, <2>1, LinkInv DEF Moves, Loading
<1>6. CASE RestartIdentity(i)
    <2>1. MovesIdentity(i) /\ said' = said /\ UNCHANGED source
        <3>1. said' = said /\ UNCHANGED source /\ Open(i)
            BY <1>6, LoadLeft DEF RestartIdentity, reading
        <3> QED
            BY <1>6, <3>1, IdentityInv DEF MovesIdentity
    <2> QED
        BY <1>6, <2>1, IdentityInv DEF Moves, Loading
<1>7. CASE AssertTableEmpty(i) \/ VerifySlots(i) \/ BeginCounting(i) \/ CountLine(i)
    <2>1. UNCHANGED source
        BY <1>7 DEF AssertTableEmpty, VerifySlots, BeginCounting, CountLine, reading
    <2>2. step[i] \in Loading /\ ((LeavesBoth /\ said' = said) \/ (RollsBack(i) /\ said'[i] # "committed"))
        <3>1. /\ step[i] \in Loading /\ target' = target
              /\ \/ tx' = tx /\ said' = said
                 \/ tx' = [tx EXCEPT ![i] = NoTransaction] /\ said'[i] # "committed"
            BY <1>7, LooksInv
        <3> QED
            BY <3>1 DEF LeavesBoth, RollsBack
    <2>3. step'[i] \in Loading \cup {"ended"} /\ RunInv(i)'
        BY <1>7, LooksInv
    <2> QED
        BY <2>1, <2>2, <2>3 DEF Moves, Loading
<1>8. CASE Finish(i) \/ DeadlockAborts(i) \/ ConnectionDrops(i) \/ CommitAnswerLost(i)
    BY <1>8, EndsInv DEF Moves, Loading
<1> QED
    BY <1>1, <1>2, <1>3, <1>4, <1>5, <1>6, <1>7, <1>8 DEF OneRunSteps, RunStep

\* Where every run is, and what it wrote.
LEMMA RunsInv ==
    ASSUME Shapes, \A k \in Importer : RunInv(k), [Next]_vars, NEW k \in Importer
    PROVE  RunInv(k)'
<1>1. ASSUME NEW i \in Importer, OneRunSteps(i)
      PROVE  RunInv(k)'
    <2>1. CASE k = i
        BY <1>1, <2>1, RunMoves
    <2>2. CASE k # i
        BY <1>1, <2>2, OneRunAlone, RunInvFrame
    <2> QED
        BY <2>1, <2>2
<1>2. CASE RailsEdit \/ SignUp \/ RecordRelease \/ UNCHANGED vars
    <2>1. Same(k) /\ UNCHANGED options
        BY <1>2 DEF RailsEdit, SignUp, RecordRelease, vars, run, Same
    <2> QED
        BY <2>1, RunInvFrame
<1> QED
    BY <1>1, <1>2 DEF Next, OneRunSteps

(***************************************************************************)
(* The shapes of the variables.                                            *)
(***************************************************************************)

\* What Rails may still do leaves a database of the same schema, with the same
\* certifications and no new member.
LEMMA RailsStaysLegacy ==
    ASSUME IsLegacy(legacy), RailsEdit
    PROVE  /\ IsLegacy(legacy') /\ legacy'.certifications = legacy.certifications
           /\ DOMAIN legacy'.users \subseteq DOMAIN legacy.users
<1> DEFINE s == legacy'
<1>1. /\ DOMAIN legacy = LegacyTables /\ legacy = [t \in LegacyTables |-> legacy[t]]
      /\ \A t \in LegacyTables : DOMAIN legacy[t] \subseteq (-IntegerLimit - 1)..IntegerLimit
      /\ \A u \in DOMAIN legacy.users : legacy.users[u].email \in Email
      /\ legacy.cards \in [DOMAIN legacy.cards -> [number : Number \cup {Null}, permissions : Int \cup {Null},
                                                   userId : Int \cup {Null}]]
      /\ \A p \in DOMAIN legacy.payments : legacy.payments[p].amount \in Int \cup {Null, NotDecimal}
    BY DEF IsLegacy, LegacyTables
<1>2. ASSUME NEW c \in DOMAIN legacy.cards, NEW u \in DOMAIN legacy.users,
             legacy' = [legacy EXCEPT !.cards[c].userId = u]
      PROVE  IsLegacy(s) /\ s.certifications = legacy.certifications /\ DOMAIN s.users \subseteq DOMAIN legacy.users
    <2>1. u \in Int
        BY <1>1, LimitsAssumption DEF LegacyTables
    <2>2. /\ DOMAIN s = LegacyTables /\ s = [t \in LegacyTables |-> s[t]]
          /\ s.cards = [legacy.cards EXCEPT ![c].userId = u]
          /\ \A t \in LegacyTables \ {"cards"} : s[t] = legacy[t]
        BY <1>1, <1>2 DEF LegacyTables
    <2>3. /\ DOMAIN s.cards = DOMAIN legacy.cards
          /\ s.cards \in [DOMAIN legacy.cards -> [number : Number \cup {Null}, permissions : Int \cup {Null},
                                                  userId : Int \cup {Null}]]
        BY <1>1, <2>1, <2>2
    <2>4. s.users = legacy.users /\ s.payments = legacy.payments /\ s.certifications = legacy.certifications
        BY <2>2 DEF LegacyTables
    <2>5. \A t \in LegacyTables : DOMAIN s[t] \subseteq (-IntegerLimit - 1)..IntegerLimit
        BY <1>1, <2>2, <2>3
    <2> QED
        BY <1>1, <2>2, <2>3, <2>4, <2>5 DEF IsLegacy, LegacyTables
<1>3. ASSUME NEW c \in DOMAIN legacy.cards,
             legacy' = [legacy EXCEPT !.cards = [d \in DOMAIN @ \ {c} |-> @[d]]]
      PROVE  IsLegacy(s) /\ s.certifications = legacy.certifications /\ DOMAIN s.users \subseteq DOMAIN legacy.users
    <2>2. /\ DOMAIN s = LegacyTables /\ s = [t \in LegacyTables |-> s[t]]
          /\ s.cards = [d \in DOMAIN legacy.cards \ {c} |-> legacy.cards[d]]
          /\ \A t \in LegacyTables \ {"cards"} : s[t] = legacy[t]
        BY <1>1, <1>3 DEF LegacyTables
    <2>3. /\ DOMAIN s.cards \subseteq DOMAIN legacy.cards
          /\ s.cards \in [DOMAIN s.cards -> [number : Number \cup {Null}, permissions : Int \cup {Null},
                                             userId : Int \cup {Null}]]
        BY <1>1, <2>2
    <2>4. s.users = legacy.users /\ s.payments = legacy.payments /\ s.certifications = legacy.certifications
        BY <2>2 DEF LegacyTables
    <2>5. \A t \in LegacyTables : DOMAIN s[t] \subseteq (-IntegerLimit - 1)..IntegerLimit
        BY <1>1, <2>2, <2>3
    <2> QED
        BY <1>1, <2>2, <2>3, <2>4, <2>5 DEF IsLegacy, LegacyTables
<1>4. ASSUME NEW u \in DOMAIN legacy.users,
             legacy' = [legacy EXCEPT !.users = [v \in DOMAIN @ \ {u} |-> @[v]]]
      PROVE  IsLegacy(s) /\ s.certifications = legacy.certifications /\ DOMAIN s.users \subseteq DOMAIN legacy.users
    <2>2. /\ DOMAIN s = LegacyTables /\ s = [t \in LegacyTables |-> s[t]]
          /\ s.users = [v \in DOMAIN legacy.users \ {u} |-> legacy.users[v]]
          /\ \A t \in LegacyTables \ {"users"} : s[t] = legacy[t]
        BY <1>1, <1>4 DEF LegacyTables
    <2>3. /\ DOMAIN s.users \subseteq DOMAIN legacy.users
          /\ \A v \in DOMAIN s.users : s.users[v].email \in Email
        BY <1>1, <2>2
    <2>4. s.cards = legacy.cards /\ s.payments = legacy.payments /\ s.certifications = legacy.certifications
        BY <2>2 DEF LegacyTables
    <2>5. \A t \in LegacyTables : DOMAIN s[t] \subseteq (-IntegerLimit - 1)..IntegerLimit
        BY <1>1, <2>2, <2>3
    <2> QED
        BY <1>1, <2>2, <2>3, <2>4, <2>5 DEF IsLegacy, LegacyTables
<1> QED
    BY <1>2, <1>3, <1>4 DEF RailsEdit

LEMMA ShapesInv ==
    ASSUME Shapes, \A i \in Importer : RunInv(i), [Next]_vars
    PROVE  Shapes'
<1>0. MaxEdits \in Nat /\ MaxSignUps \in Nat
    BY BoundsAssumption
<1>1. ASSUME NEW i \in Importer, OneRunSteps(i)
      PROVE  Shapes'
    <2>1. /\ \A k \in Importer \ {i} : Same(k)
          /\ UNCHANGED <<legacy, options, calm, edits, signUps>> /\ faults' \in 0..MaxFaults
        BY <1>1, OneRunAlone
    <2>2. step[i] # "off" /\ step'[i] # "off"
        BY <1>1, RunMoves
    <2>3. /\ DOMAIN todo' = Importer /\ DOMAIN source' = Importer /\ DOMAIN snapshot' = Importer
          /\ DOMAIN counts' = Importer /\ DOMAIN findings' = Importer /\ DOMAIN tx' = Importer
          /\ DOMAIN skipped' = Importer /\ DOMAIN agrees' = Importer
        BY <1>1 DEF OneRunSteps, RunStep, BeginReadOnly, ReadTable, CheckSnapshot, AssertTableEmpty, InsertRows,
           LinkOrientedBy, RestartIdentity, VerifySlots, BeginCounting, CountLine, Finish, DeadlockAborts,
           ConnectionDrops, CommitAnswerLost, Fail, End, GoTo, Continue, reading, Shapes
    <2>4. DOMAIN target' = DOMAIN target
        BY <1>1, RunMoves DEF Moves, LeavesBoth, OpensOne, RollsBack, InsertsOne, LinksMembers, MovesIdentity,
           Commits, Committed
    <2>5. said[i] = "nothing"
        <3>1. step[i] # "ended"
            BY <1>1, RunMoves
        <3> QED
            BY <3>1 DEF Shapes
    <2>6. /\ step' \in [Importer -> Steps] /\ said' \in [Importer -> Answers]
          /\ said'[i] # "nothing" <=> step'[i] = "ended"
        <3> DEFINE goes(next) == step' = [step EXCEPT ![i] = next] /\ said' = said
                   ends(how) == step' = [step EXCEPT ![i] = "ended"] /\ said' = [said EXCEPT ![i] = how]
        <3>1. ASSUME NEW why, Fail(i, why)
              PROVE  ends(why)
            BY <3>1 DEF Fail, End, GoTo
        <3>2. ASSUME Continue(i) \/ UNCHANGED step, said' = said
              PROVE  step' = step /\ said' = said
            BY <3>2 DEF Continue
        <3>3. CASE BeginReadOnly(i) \/ ReadTable(i) \/ CheckSnapshot(i) \/ AssertTableEmpty(i)
            <4>1. \/ goes("read") \/ goes("empty") \/ goes("load") \/ (step' = step /\ said' = said)
                  \/ ends("refused") \/ ends("not empty")
                BY <3>1, <3>3 DEF BeginReadOnly, ReadTable, CheckSnapshot, AssertTableEmpty, GoTo, Continue
            <4> QED
                BY <4>1, <2>5 DEF Shapes, Steps, Loading, Answers
        <3>4. CASE InsertRows(i) \/ LinkOrientedBy(i) \/ RestartIdentity(i) \/ VerifySlots(i)
            <4>1. (step' = step /\ said' = said) \/ ends("constraint") \/ ends("slots")
                BY <3>1, <3>4 DEF InsertRows, LinkOrientedBy, RestartIdentity, VerifySlots, GoTo, Continue
            <4> QED
                BY <4>1, <2>5 DEF Shapes, Steps, Loading, Answers
        <3>5. CASE BeginCounting(i) \/ CountLine(i)
            <4>1. goes("count") \/ (step' = step /\ said' = said)
                BY <3>5 DEF BeginCounting, CountLine, GoTo, Continue
            <4> QED
                BY <4>1, <2>5 DEF Shapes, Steps, Loading, Answers
        <3>6. CASE Finish(i) \/ DeadlockAborts(i) \/ ConnectionDrops(i) \/ CommitAnswerLost(i)
            <4>1. \/ ends("disagrees") \/ ends("dry run") \/ ends("committed") \/ ends("deadlock")
                  \/ ends("no answer")
                BY <3>1, <3>6 DEF Finish, DeadlockAborts, ConnectionDrops, CommitAnswerLost, End, GoTo
            <4> QED
                BY <4>1, <2>5 DEF Shapes, Steps, Loading, Answers
        <3> QED
            BY <1>1, <3>3, <3>4, <3>5, <3>6 DEF OneRunSteps, RunStep
    <2>7. \A k \in Importer : step'[k] = "off" <=> k \notin DOMAIN options'
        BY <2>1, <2>2 DEF Shapes, Same
    <2>8. \A k \in Importer : said'[k] # "nothing" <=> step'[k] = "ended"
        BY <2>1, <2>6 DEF Shapes, Same
    <2> QED
        BY <2>1, <2>3, <2>4, <2>6, <2>7, <2>8 DEF Shapes
<1>2. CASE RailsEdit
    <2>1. IsLegacy(legacy')
        BY <1>2, RailsStaysLegacy DEF Shapes
    <2>2. edits' \in 0..MaxEdits
        BY <1>0, <1>2 DEF RailsEdit, Disturb, Shapes
    <2> QED
        BY <1>2, <2>1, <2>2 DEF RailsEdit, run, Shapes
<1>3. CASE SignUp
    <2>1. signUps' \in 0..MaxSignUps
        BY <1>0, <1>3 DEF SignUp, Disturb, Shapes
    <2>2. DOMAIN target' = DOMAIN target
        BY <1>3 DEF SignUp
    <2> QED
        BY <1>3, <2>1, <2>2 DEF SignUp, run, Shapes
<1>4. CASE RecordRelease
    <2>1. DOMAIN target' = DOMAIN target
        BY <1>4 DEF RecordRelease
    <2> QED
        BY <1>4, <2>1 DEF RecordRelease, run, bounds, Shapes
<1>5. CASE UNCHANGED vars
    BY <1>5 DEF vars, run, bounds, Shapes
<1> QED
    BY <1>1, <1>2, <1>3, <1>4, <1>5 DEF Next, OneRunSteps

(***************************************************************************)
(* What the snapshots have to do with each other.                          *)
(***************************************************************************)

LEMMA SourcesKept ==
    ASSUME Shapes, \A i \in Importer : RunInv(i), SourcesInv, [Next]_vars
    PROVE  SourcesInv'
<1>1. ASSUME NEW i \in Importer, OneRunSteps(i)
      PROVE  SourcesInv'
    <2>1. (\A k \in Importer \ {i} : Same(k)) /\ legacy' = legacy
        BY <1>1, OneRunAlone
    <2>2. /\ \/ UNCHANGED source
             \/ step[i] = "begin" /\ step'[i] = "read" /\ source' = [source EXCEPT ![i] = legacy]
          /\ step'[i] \in {"read"} \cup Loading => step[i] \in {"begin", "read"} \cup Loading
          /\ step'[i] = "read" => step[i] = "read" \/ source' = [source EXCEPT ![i] = legacy]
          /\ step'[i] \in Loading => step[i] # "begin"
        <3>1. step'[i] \in Loading => step[i] # "begin"
            BY <1>1 DEF OneRunSteps, RunStep, BeginReadOnly, ReadTable, CheckSnapshot, AssertTableEmpty, InsertRows,
               LinkOrientedBy, RestartIdentity, VerifySlots, BeginCounting, CountLine, Finish, DeadlockAborts,
               ConnectionDrops, CommitAnswerLost, Fail, End, GoTo, Continue, Shapes, Loading
        <3> QED
            BY <1>1, <3>1, RunMoves
    <2>3. CASE UNCHANGED source
        <3>1. step'[i] \in {"read"} \cup Loading => source[i].certifications = legacy.certifications
            <4>1. CASE step[i] \in {"read"} \cup Loading
                BY <4>1 DEF SourcesInv
            <4>2. CASE step[i] = "begin" /\ step'[i] = "read"
                BY <2>2, <2>3, <4>2 DEF Shapes
            <4> QED
                BY <2>2, <4>1, <4>2
        <3> QED
            BY <2>1, <2>3, <3>1 DEF SourcesInv, Same
    <2>4. CASE source' = [source EXCEPT ![i] = legacy]
        <3>1. source'[i] = legacy /\ \A k \in Importer \ {i} : source'[k] = source[k]
            BY <2>4 DEF Shapes
        <3> QED
            BY <2>1, <3>1 DEF SourcesInv, Same
    <2> QED
        BY <2>2, <2>3, <2>4
<1>2. CASE RailsEdit
    <2>1. legacy'.certifications = legacy.certifications /\ DOMAIN legacy'.users \subseteq DOMAIN legacy.users
        BY <1>2, RailsStaysLegacy DEF Shapes
    <2> QED
        BY <1>2, <2>1 DEF RailsEdit, run, SourcesInv
<1>3. CASE SignUp \/ RecordRelease \/ UNCHANGED vars
    BY <1>3 DEF SignUp, RecordRelease, vars, run, bounds, SourcesInv
<1> QED
    BY <1>1, <1>2, <1>3 DEF Next, OneRunSteps

(***************************************************************************)
(* No two transactions, nor one and what is committed, hold a key twice.   *)
(***************************************************************************)

\* The rows of a run carry its name, or a number Rails gave.
LEMMA OwnRows ==
    ASSUME NEW i \in Importer, NEW s, IsLegacy(s)
    PROVE  /\ \A m \in UserRows(i, s) \cup LinkedRows(i, s) : m.id = <<i, m.legacyId>> /\ m.legacyId \in DOMAIN s.users
           /\ \A u \in DOMAIN s.users : u \in Int /\ u # Null
           /\ \A a \in AccountRows(i, s) : a.userId[1] = i
           /\ \A w \in WaiverRows(i, s) : w.id[1] = i
<1>1. \A m \in UserRows(i, s) \cup LinkedRows(i, s) : m.id = <<i, m.legacyId>> /\ m.legacyId \in DOMAIN s.users
    BY DEF UserRows, LinkedRows, MemberId
<1>2. \A u \in DOMAIN s.users : u \in Int /\ u # Null
    BY NullAssumption, LimitsAssumption DEF IsLegacy
<1>3. \A a \in AccountRows(i, s) : a.userId[1] = i
    BY DEF AccountRows, MemberId
<1>4. \A w \in WaiverRows(i, s) : w.id[1] = i
    BY DEF WaiverRows
<1> QED
    BY <1>1, <1>2, <1>3, <1>4

\* So do the rows it has written so far.
LEMMA OpenRows ==
    ASSUME NEW i \in Importer, RunInv(i), Open(i)
    PROVE  /\ \A m \in tx[i].user : m.id = <<i, m.legacyId>> /\ m.legacyId # Null
           /\ \A a \in tx[i].account : a.userId[1] = i
           /\ \A w \in tx[i].waivers : w.id[1] = i
<1> DEFINE s == source[i]
<1>1. IsLegacy(s) /\ \A t \in Table : tx[i][t] = Written(i, t)
    BY DEF RunInv
<1>2. tx[i].user \in {{}, UserRows(i, s), LinkedRows(i, s)}
    BY <1>1 DEF Written, AllRows, Table
<1>3. tx[i].account \in {{}, AccountRows(i, s)} /\ tx[i].waivers \in {{}, WaiverRows(i, s)}
    BY <1>1 DEF Written, AllRows, Table
<1> HIDE DEF s
<1> QED
    BY <1>1, <1>2, <1>3, OwnRows

LEMMA ClashesBothWays ==
    ASSUME NEW p, NEW q, NEW fields, Clashes(p, q, fields)
    PROVE  Clashes(q, p, fields)
BY DEF Clashes

\* Two tables of rows with no key in common.
Apart(rows, others, t) == \A r \in rows, q \in others : ~Clashes(r, q, KeysOf(t))

LEMMA ApartBothWays ==
    ASSUME NEW rows, NEW others, NEW t, Apart(rows, others, t)
    PROVE  Apart(others, rows, t)
BY ClashesBothWays DEF Apart

\* KeysInv in those words.
LEMMA KeysInvApart ==
    KeysInv <=> /\ \A i \in Importer : Open(i) => \A t \in Table : Apart(tx[i][t], target[t], t)
                /\ \A i, k \in Importer : i # k /\ Open(i) /\ Open(k) => \A t \in Table : Apart(tx[i][t], tx[k][t], t)
BY DEF KeysInv, Apart

\* Linking the members changes no key.
LEMMA LinkedApart ==
    ASSUME NEW i, NEW s, NEW others, Apart(UserRows(i, s), others, "user")
    PROVE  Apart(LinkedRows(i, s), others, "user")
<1> SUFFICES ASSUME NEW r \in LinkedRows(i, s), NEW q \in others, Clashes(r, q, KeysOf("user"))
             PROVE  FALSE
    BY DEF Apart
<1>1. PICK m \in UserRows(i, s) : m.id = r.id /\ m.email = r.email /\ m.legacyId = r.legacyId
    <2>1. PICK u \in DOMAIN s.users :
              r = [id |-> MemberId(i, u), legacyId |-> u, email |-> CanonicalEmail[s.users[u].email],
                   orientedBy |-> Known(i, s, s.users[u].orientedBy), cardAccess |-> u \in MembersWithCardAccess(s)]
        BY DEF LinkedRows
    <2> DEFINE m == [id |-> MemberId(i, u), legacyId |-> u, email |-> CanonicalEmail[s.users[u].email],
                     orientedBy |-> Null, cardAccess |-> u \in MembersWithCardAccess(s)]
    <2>2. m \in UserRows(i, s)
        BY DEF UserRows
    <2>3. m.id = r.id /\ m.email = r.email /\ m.legacyId = r.legacyId
        BY <2>1
    <2> QED
        BY <2>2, <2>3
<1>2. KeysOf("user") = {"id", "email", "legacyId"}
    BY DEF KeysOf
<1>3. Clashes(m, q, KeysOf("user"))
    BY <1>1, <1>2 DEF Clashes
<1> QED
    BY <1>3 DEF Apart

LEMMA KeysOfRun ==
    ASSUME Shapes, \A k \in Importer : RunInv(k), KeysInv, NEW i \in Importer, OneRunSteps(i)
    PROVE  KeysInv'
<1>1. /\ \A k \in Importer \ {i} : tx'[k] = tx[k] /\ (Open(k)' <=> Open(k))
      /\ Moves(i)
    BY OneRunAlone, RunMoves DEF Same, Open
<1>2. /\ \A k \in Importer : Open(k) => \A t \in Table : Apart(tx[k][t], target[t], t)
      /\ \A j, k \in Importer : j # k /\ Open(j) /\ Open(k) => \A t \in Table : Apart(tx[j][t], tx[k][t], t)
    BY KeysInvApart
<1>3. SUFFICES /\ \A k \in Importer : Open(k)' => \A t \in Table : Apart(tx'[k][t], target'[t], t)
               /\ \A k \in Importer \ {i} : Open(i)' /\ Open(k) => \A t \in Table : Apart(tx'[i][t], tx[k][t], t)
    <2>1. ASSUME NEW j \in Importer, NEW k \in Importer, j # k, Open(j)', Open(k)', NEW t \in Table,
                 \A l \in Importer \ {i} : Open(i)' /\ Open(l) => \A u \in Table : Apart(tx'[i][u], tx[l][u], u)
          PROVE  Apart(tx'[j][t], tx'[k][t], t)
        <3>1. CASE j = i
            BY <1>1, <2>1, <3>1
        <3>2. CASE k = i
            BY <1>1, <2>1, <3>2, ApartBothWays
        <3>3. CASE j # i /\ k # i
            BY <1>1, <1>2, <2>1, <3>3
        <3> QED
            BY <3>1, <3>2, <3>3
    <2> QED
        BY <2>1 DEF KeysInv, Apart
<1>4. CASE LeavesBoth
    BY <1>1, <1>2, <1>4 DEF LeavesBoth, Open
<1>5. CASE OpensOne(i)
    <2>1. /\ tx'[i] = EmptyDatabase /\ target' = target
          /\ \A t \in Table : EmptyDatabase[t] = {}
        BY <1>5 DEF OpensOne, Shapes, EmptyDatabase, Table
    <2> QED
        BY <1>1, <1>2, <2>1 DEF Apart
<1>6. CASE RollsBack(i)
    <2>1. tx'[i] = NoTransaction /\ target' = target
        BY <1>6 DEF RollsBack, Shapes
    <2>2. ~Open(i)'
        BY <2>1 DEF Open, NoTransaction
    <2> QED
        BY <1>1, <1>2, <2>1, <2>2
<1>7. ASSUME InsertsOne(i) \/ LinksMembers(i)
      PROVE  /\ \A k \in Importer : Open(k)' => \A t \in Table : Apart(tx'[k][t], target'[t], t)
             /\ \A k \in Importer \ {i} : Open(i)' /\ Open(k) => \A t \in Table : Apart(tx'[i][t], tx[k][t], t)
    <2>0. PICK t \in Table : \E rows :
              /\ tx' = [tx EXCEPT ![i][t] = rows] /\ target' = target
              /\ Apart(rows, target[t], t)
              /\ \A k \in Importer \ {i} : Open(k) => Apart(rows, tx[k][t], t)
        <3>1. CASE InsertsOne(i)
            <4>1. PICK t \in Table :
                      /\ Open(i) /\ ~Waits(i) /\ todo[i] # <<>> /\ t = Head(todo[i]) /\ step[i] = "load"
                      /\ ~BreaksConstraint(i, t, Inserts(i)[t])
                      /\ tx' = [tx EXCEPT ![i][t] = Inserts(i)[t]] /\ target' = target
                BY <3>1 DEF InsertsOne
            <4>2. Apart(Inserts(i)[t], target[t], t)
                BY <4>1 DEF BreaksConstraint, Visible, Apart
            <4>3. ASSUME NEW k \in Importer \ {i}, Open(k)
                  PROVE  Apart(Inserts(i)[t], tx[k][t], t)
                <5>1. t \in DOMAIN Inserts(i)
                    BY DEF Inserts, Table
                <5>2. ~WaitsFor(i, k)
                    BY <4>1 DEF Waits
                <5> QED
                    BY <4>1, <4>3, <5>1, <5>2 DEF WaitsFor, Apart
            <4> QED
                BY <4>1, <4>2, <4>3
        <3>2. CASE LinksMembers(i)
            <4>1. /\ Open(i) /\ tx[i].user = UserRows(i, source[i])
                  /\ tx' = [tx EXCEPT ![i].user = LinkedRows(i, source[i])] /\ target' = target
                BY <3>2 DEF LinksMembers
            <4>2. /\ Apart(LinkedRows(i, source[i]), target.user, "user")
                  /\ \A k \in Importer \ {i} : Open(k) => Apart(LinkedRows(i, source[i]), tx[k].user, "user")
                BY <1>2, <4>1, LinkedApart DEF Table
            <4> QED
                BY <4>1, <4>2 DEF Table
        <3> QED
            BY <1>7, <3>1, <3>2
    <2>1. PICK rows :
              /\ tx' = [tx EXCEPT ![i][t] = rows] /\ target' = target
              /\ Apart(rows, target[t], t)
              /\ \A k \in Importer \ {i} : Open(k) => Apart(rows, tx[k][t], t)
        BY <2>0
    <2>2. Open(i) /\ DOMAIN tx[i] = DOMAIN EmptyDatabase
        BY <1>7 DEF InsertsOne, LinksMembers, RunInv
    <2>3. \A u \in Table : tx'[i][u] = IF u = t THEN rows ELSE tx[i][u]
        BY <2>1, <2>2 DEF Shapes, EmptyDatabase, Table
    <2> QED
        BY <1>1, <1>2, <2>1, <2>2, <2>3
<1>8. CASE MovesIdentity(i)
    <2>1. Open(i) /\ DOMAIN tx[i] = DOMAIN EmptyDatabase /\ target' = target
        BY <1>8 DEF MovesIdentity, RunInv
    <2>2. \A u \in Table : tx'[i][u] = tx[i][u]
        BY <1>8, <2>1 DEF MovesIdentity, Shapes, EmptyDatabase, Table
    <2> QED
        BY <1>1, <1>2, <2>1, <2>2
<1>9. CASE Commits(i)
    <2>1. Open(i) /\ target' = Committed(i) /\ tx'[i] = NoTransaction
        BY <1>9 DEF Commits, Shapes
    <2>2. ~Open(i)'
        BY <2>1 DEF Open, NoTransaction
    <2>3. \A t \in Table : target'[t] = target[t] \cup tx[i][t]
        BY <2>1 DEF Committed, Visible, Shapes, EmptyDatabase, Table
    <2>4. ASSUME NEW k \in Importer \ {i}, Open(k), NEW t \in Table
          PROVE  Apart(tx[k][t], target'[t], t)
        BY <1>2, <2>1, <2>3, <2>4 DEF Apart
    <2> QED
        BY <1>1, <2>2, <2>4
<1> QED
    BY <1>1, <1>4, <1>5, <1>6, <1>7, <1>8, <1>9 DEF Moves

\* The sign-up page takes an address nobody has, and ids of its own.
LEMMA KeysOfSignUp ==
    ASSUME Shapes, \A k \in Importer : RunInv(k), KeysInv, SignUp
    PROVE  KeysInv'
<1>1. PICK e \in WebEmail :
          /\ \A i \in Importer : Open(i) => \A m \in tx[i].user : m.email # e
          /\ target' = [target EXCEPT
                 !.user = @ \cup {[id |-> WebId(e), legacyId |-> Null, email |-> e,
                                   orientedBy |-> Null, cardAccess |-> FALSE]},
                 !.account = @ \cup {[userId |-> WebId(e)]}]
    BY DEF SignUp
<1> DEFINE member == [id |-> WebId(e), legacyId |-> Null, email |-> e, orientedBy |-> Null, cardAccess |-> FALSE]
           account == [userId |-> WebId(e)]
<1>2. /\ target'.user = target.user \cup {member} /\ target'.account = target.account \cup {account}
      /\ \A t \in Table \ {"user", "account"} : target'[t] = target[t]
    BY <1>1 DEF Shapes, EmptyDatabase, Table
<1>3. tx' = tx
    BY DEF SignUp, run
<1>4. ASSUME NEW i \in Importer, Open(i)
      PROVE  Apart(tx[i].user, {member}, "user") /\ Apart(tx[i].account, {account}, "account")
    <2>1. /\ \A m \in tx[i].user : m.id = <<i, m.legacyId>> /\ m.legacyId # Null /\ m.email # e
          /\ \A a \in tx[i].account : a.userId[1] = i
          /\ i # Web
        BY <1>1, <1>4, OpenRows, WebAssumption
    <2>2. KeysOf("user") = {"id", "email", "legacyId"} /\ KeysOf("account") = {"userId"}
        BY DEF KeysOf
    <2>3. Apart(tx[i].user, {member}, "user")
        BY <2>1, <2>2 DEF Apart, Clashes, WebId
    <2>4. Apart(tx[i].account, {account}, "account")
        BY <2>1, <2>2 DEF Apart, Clashes, WebId
    <2> QED
        BY <2>3, <2>4
<1>5. ASSUME NEW i \in Importer, Open(i), NEW t \in Table
      PROVE  Apart(tx[i][t], target'[t], t)
    <2>1. Apart(tx[i][t], target[t], t)
        BY <1>5, KeysInvApart
    <2> HIDE DEF member, account
    <2>2. CASE t = "user"
        BY <1>2, <1>4, <1>5, <2>1, <2>2 DEF Apart
    <2>3. CASE t = "account"
        BY <1>2, <1>4, <1>5, <2>1, <2>3 DEF Apart
    <2>4. CASE t \notin {"user", "account"}
        BY <1>2, <2>1, <2>4
    <2> QED
        BY <2>2, <2>3, <2>4
<1> QED
    BY <1>3, <1>5 DEF KeysInv, Apart, Open

LEMMA KeysOfRelease ==
    ASSUME Shapes, \A k \in Importer : RunInv(k), KeysInv, WebInv, RecordRelease
    PROVE  KeysInv'
<1>1. PICK m \in target.user :
          /\ m.legacyId = Null
          /\ target' = [target EXCEPT !.waivers =
                 @ \cup {[id |-> m.id, userId |-> m.id, asSigned |-> TRUE, recordedBy |-> Null]}]
    BY DEF RecordRelease
<1> DEFINE release == [id |-> m.id, userId |-> m.id, asSigned |-> TRUE, recordedBy |-> Null]
<1>2. /\ target'.waivers = target.waivers \cup {release}
      /\ \A t \in Table \ {"waivers"} : target'[t] = target[t]
    BY <1>1 DEF Shapes, EmptyDatabase, Table
<1>3. tx' = tx
    BY DEF RecordRelease, run
<1>4. ASSUME NEW i \in Importer, Open(i)
      PROVE  Apart(tx[i].waivers, {release}, "waivers")
    <2>1. (\A w \in tx[i].waivers : w.id[1] = i) /\ i # Web
        BY <1>4, OpenRows, WebAssumption
    <2>2. KeysOf("waivers") = {"id"}
        BY DEF KeysOf
    <2>3. release.id[1] = Web
        BY <1>1 DEF WebInv, WebId
    <2> QED
        BY <2>1, <2>2, <2>3 DEF Apart, Clashes
<1>5. ASSUME NEW i \in Importer, Open(i), NEW t \in Table
      PROVE  Apart(tx[i][t], target'[t], t)
    <2>1. Apart(tx[i][t], target[t], t)
        BY <1>5, KeysInvApart
    <2> HIDE DEF release
    <2>2. CASE t = "waivers"
        BY <1>2, <1>4, <1>5, <2>1, <2>2 DEF Apart
    <2>3. CASE t # "waivers"
        BY <1>2, <2>1, <2>3
    <2> QED
        BY <2>2, <2>3
<1> QED
    BY <1>3, <1>5 DEF KeysInv, Apart, Open

LEMMA KeysKept ==
    ASSUME Shapes, \A k \in Importer : RunInv(k), KeysInv, WebInv, [Next]_vars
    PROVE  KeysInv'
<1>1. CASE RailsEdit \/ UNCHANGED vars
    BY <1>1 DEF RailsEdit, vars, run, KeysInv, Open
<1> QED
    BY <1>1, KeysOfRun, KeysOfSignUp, KeysOfRelease DEF Next, OneRunSteps

(***************************************************************************)
(* What passes the preflight.                                              *)
(***************************************************************************)

\* A check that refuses found no row.
LEMMA NoneRefused ==
    ASSUME NEW found, NEW accept, Refusals(found, accept) = {}, NEW check, NEW ids,
           Refuse(check, ids) \subseteq found
    PROVE  ids = {}
<1> SUFFICES ASSUME ids # {} PROVE FALSE
    OBVIOUS
<1> DEFINE f == [severity |-> "refusal", check |-> check, ids |-> ids, orphan |-> FALSE]
<1>1. f \in found
    BY DEF Refuse, Report
<1>2. f \in Refusals(found, accept)
    BY <1>1 DEF Refusals
<1> QED
    BY <1>2

\* A sound snapshot: what no check of the preflight refuses.
Sane(s) ==
    /\ \A u, v \in DOMAIN s.users : CanonicalEmail[s.users[u].email] = CanonicalEmail[s.users[v].email] => u = v
    /\ \A u \in DOMAIN s.users : s.users[u].hash \in BlankHash \cup {"bcrypt"}
    /\ \A c \in DOMAIN s.cards :
           /\ s.cards[c].number # Null /\ Canonical[s.cards[c].number] # Unreadable
           /\ s.cards[c].userId \in DOMAIN s.users /\ s.cards[c].permissions # Null /\ c \in 0..HighestSlot
    /\ \A c, d \in DOMAIN s.cards : Canonical[s.cards[c].number] = Canonical[s.cards[d].number] => c = d
    /\ \A c \in DOMAIN s.certifications : s.certifications[c].slug # Null
    /\ \A c, d \in DOMAIN s.certifications : s.certifications[c].slug = s.certifications[d].slug => c = d
    /\ \A p \in DOMAIN s.payments : FitsInCents(s.payments[p].amount)

LEMMA NoDuplicates ==
    ASSUME NEW key, Duplicates(key) = {}
    PROVE  \A q, r \in DOMAIN key : key[q] = key[r] => q = r
BY DEF Duplicates

LEMMA PreflightSane ==
    ASSUME NEW s, NEW accept, Refusals(Preflight(s), accept) = {}
    PROVE  Sane(s)
<1> DEFINE found == Preflight(s)
           email == [u \in DOMAIN s.users |-> CanonicalEmail[s.users[u].email]]
           hashes == {u \in DOMAIN s.users : s.users[u].hash \notin BlankHash \cup {"bcrypt"}}
           readable == {c \in DOMAIN s.cards : ~UnreadableNumber(s.cards[c])}
           number == [c \in readable |-> Canonical[s.cards[c].number]]
           orphans == {c \in DOMAIN s.cards : s.cards[c].userId \notin DOMAIN s.users}
           maskless == {c \in DOMAIN s.cards : s.cards[c].permissions = Null}
           outside == {c \in DOMAIN s.cards : c \notin 0..HighestSlot}
           slug == [c \in DOMAIN s.certifications |-> s.certifications[c].slug]
           slugless == {c \in DOMAIN s.certifications : slug[c] = Null}
           amounts == {p \in DOMAIN s.payments : ~FitsInCents(s.payments[p].amount)}
<1>1. /\ CheckMemberIdentity(s.users) \subseteq found /\ CheckMemberCredentials(s.users) \subseteq found
      /\ CheckCardNumbers(s.cards, DOMAIN s.users) \subseteq found /\ CheckCardSlots(s.cards) \subseteq found
      /\ CheckCertificationList(s.certifications) \subseteq found
      /\ CheckPaymentAmounts(s.payments) \subseteq found
    BY DEF Preflight
<1>2. /\ Refuse("duplicate email", Duplicates(email)) \subseteq found
      /\ Refuse("unexpected password hash", hashes) \subseteq found
    BY <1>1 DEF CheckMemberIdentity, CheckMemberCredentials
<1>3. /\ Refuse("card number unreadable", DOMAIN s.cards \ readable) \subseteq found
      /\ Refuse("duplicate card number", Duplicates(number)) \subseteq found
      /\ Refuse("orphan card", orphans) \subseteq found
      /\ Refuse("no permission mask", maskless) \subseteq found
    BY <1>1 DEF CheckCardNumbers
<1>4. Refuse("card slot outside the table", outside) \subseteq found
    BY <1>1 DEF CheckCardSlots
<1>5. /\ Refuse("certification without a slug", slugless) \subseteq found
      /\ Refuse("duplicate certification slug", Duplicates(slug)) \subseteq found
    BY <1>1 DEF CheckCertificationList
<1>6. Refuse("payment amount", amounts) \subseteq found
    BY <1>1 DEF CheckPaymentAmounts
<1>7. /\ Duplicates(email) = {} /\ hashes = {} /\ DOMAIN s.cards \ readable = {} /\ Duplicates(number) = {}
      /\ orphans = {} /\ maskless = {} /\ outside = {} /\ slugless = {} /\ Duplicates(slug) = {} /\ amounts = {}
    <2> HIDE DEF found, email, hashes, readable, number, orphans, maskless, outside, slugless, slug, amounts
    <2>1. Refusals(found, accept) = {}
        BY DEF found
    <2> QED
        BY <2>1, <1>2, <1>3, <1>4, <1>5, <1>6, NoneRefused
<1>8. \A u, v \in DOMAIN s.users : CanonicalEmail[s.users[u].email] = CanonicalEmail[s.users[v].email] => u = v
    <2>1. \A u, v \in DOMAIN email : email[u] = email[v] => u = v
        <3> HIDE DEF email
        <3> QED
            BY <1>7, NoDuplicates
    <2> QED
        BY <2>1
<1>9. \A c, d \in DOMAIN s.certifications : s.certifications[c].slug = s.certifications[d].slug => c = d
    <2>1. \A c, d \in DOMAIN slug : slug[c] = slug[d] => c = d
        <3> HIDE DEF slug
        <3> QED
            BY <1>7, NoDuplicates
    <2> QED
        BY <2>1
<1>10. \A c, d \in DOMAIN s.cards : Canonical[s.cards[c].number] = Canonical[s.cards[d].number] => c = d
    <2>1. \A c, d \in DOMAIN number : number[c] = number[d] => c = d
        <3> HIDE DEF number
        <3> QED
            BY <1>7, NoDuplicates
    <2>2. readable = DOMAIN s.cards
        BY <1>7
    <2> QED
        BY <2>1, <2>2
<1>11. \A c \in DOMAIN s.cards :
           /\ s.cards[c].number # Null /\ Canonical[s.cards[c].number] # Unreadable
           /\ s.cards[c].userId \in DOMAIN s.users /\ s.cards[c].permissions # Null /\ c \in 0..HighestSlot
    BY <1>7 DEF UnreadableNumber
<1> QED
    BY <1>7, <1>8, <1>9, <1>10, <1>11 DEF Sane

\* So a run that knows its whole snapshot knows it to be sound.
LEMMA KnowsSane ==
    ASSUME NEW i \in Importer, KnowsAll(i)
    PROVE  Sane(source[i])
BY PreflightSane DEF KnowsAll

\* What a check reported is found under its name.
FoundBy(found, check) == UNION {f.ids : f \in {f \in found : f.check = check}}

LEMMA Reported ==
    ASSUME NEW found, NEW severity, NEW check, NEW ids, NEW orphan,
           Report(severity, check, ids, orphan) \subseteq found
    PROVE  ids \subseteq FoundBy(found, check)
<1> USE DEF FoundBy
<1>1. CASE ids = {}
    BY <1>1
<1>2. CASE ids # {}
    <2> DEFINE f == [severity |-> severity, check |-> check, ids |-> ids, orphan |-> orphan]
    <2>1. f \in found /\ f.check = check /\ f.ids = ids
        BY <1>2 DEF Report
    <2> QED
        BY <2>1
<1> QED
    BY <1>1, <1>2

(***************************************************************************)
(* What came from the sign-up page.                                        *)
(***************************************************************************)

\* What a commit leaves.
LEMMA CommitTables ==
    ASSUME Shapes, NEW i \in Importer, RunInv(i), Commits(i)
    PROVE  /\ \A t \in Table : target'[t] = target[t] \cup AllRows(i)[t]
           /\ target'.nextCertification = NextCertification(source[i])
           /\ IsLegacy(source[i]) /\ Sane(source[i])
<1>1. /\ target' = Committed(i) /\ \A t \in Table : tx[i][t] = AllRows(i)[t]
      /\ tx[i].nextCertification = NextCertification(source[i])
      /\ DOMAIN target = DOMAIN EmptyDatabase /\ KnowsAll(i) /\ IsLegacy(source[i])
    BY DEF Commits, Shapes, RunInv
<1> QED
    BY <1>1, KnowsSane DEF Committed, Visible, EmptyDatabase, Table

LEMMA WebOfRun ==
    ASSUME Shapes, \A k \in Importer : RunInv(k), KeysInv, WebInv, NEW i \in Importer, OneRunSteps(i)
    PROVE  WebInv'
<1>1. CASE target' = target
    BY <1>1 DEF WebInv
<1>2. CASE Commits(i)
    <2> DEFINE s == source[i]
    <2>1. /\ target'.user = target.user \cup LinkedRows(i, s)
          /\ target'.account = target.account \cup AccountRows(i, s)
          /\ target'.waivers = target.waivers \cup WaiverRows(i, s)
          /\ IsLegacy(s) /\ Sane(s)
        BY <1>2, CommitTables DEF AllRows, Table
    <2>2. /\ \A m \in LinkedRows(i, s) : m.legacyId \in DOMAIN s.users /\ m.legacyId # Null
          /\ \A a \in AccountRows(i, s) : a.userId[1] # Web
          /\ \A w \in WaiverRows(i, s) : w.id[1] # Web
        BY <2>1, OwnRows, WebAssumption
    <2>3. \A p, q \in LinkedRows(i, s) : p.email = q.email => p = q
        BY <2>1 DEF LinkedRows, Sane
    <2>4. \A p \in LinkedRows(i, s), q \in target.user : p.email # q.email
        <3>1. \A t \in Table : tx[i][t] = AllRows(i)[t] /\ Open(i)
            BY <1>2 DEF Commits
        <3>2. Apart(LinkedRows(i, s), target.user, "user")
            BY <3>1, KeysInvApart DEF AllRows, Table
        <3> QED
            BY <3>2 DEF Apart, Clashes, KeysOf
    <2> HIDE DEF s
    <2>5. \A m \in target'.user : m.legacyId = Null => m.id = WebId(m.email) /\ m.orientedBy = Null
        BY <2>1, <2>2 DEF WebInv
    <2>6. \A p, q \in target'.user : p.email = q.email => p = q
        BY <2>1, <2>3, <2>4 DEF WebInv
    <2>7. \A a \in target'.account : a.userId[1] = Web => \E m \in target'.user : m.id = a.userId
        BY <2>1, <2>2 DEF WebInv
    <2>8. \A w, v \in target'.waivers : w.id[1] = Web =>
              /\ w.userId = w.id /\ w.recordedBy = Null /\ (w.id = v.id => w = v)
              /\ \E m \in target'.user : m.id = w.userId
        BY <2>1, <2>2 DEF WebInv
    <2> QED
        BY <2>5, <2>6, <2>7, <2>8 DEF WebInv
<1> QED
    BY <1>1, <1>2, RunMoves
    DEF Moves, LeavesBoth, OpensOne, RollsBack, InsertsOne, LinksMembers, MovesIdentity

LEMMA WebKept ==
    ASSUME Shapes, \A k \in Importer : RunInv(k), KeysInv, WebInv, [Next]_vars
    PROVE  WebInv'
<1>1. CASE RailsEdit \/ UNCHANGED vars
    BY <1>1 DEF RailsEdit, vars, run, WebInv
<1>2. CASE SignUp
    <2>1. PICK e \in WebEmail :
              /\ \A m \in target.user : m.email # e
              /\ target' = [target EXCEPT
                     !.user = @ \cup {[id |-> WebId(e), legacyId |-> Null, email |-> e,
                                       orientedBy |-> Null, cardAccess |-> FALSE]},
                     !.account = @ \cup {[userId |-> WebId(e)]}]
        BY <1>2 DEF SignUp
    <2> DEFINE member == [id |-> WebId(e), legacyId |-> Null, email |-> e, orientedBy |-> Null, cardAccess |-> FALSE]
               account == [userId |-> WebId(e)]
    <2>2. /\ target'.user = target.user \cup {member} /\ target'.account = target.account \cup {account}
          /\ target'.waivers = target.waivers
        BY <2>1 DEF Shapes, EmptyDatabase
    <2>3. /\ member.id = WebId(member.email) /\ member.orientedBy = Null /\ member.email = e
          /\ account.userId = member.id
        OBVIOUS
    <2> HIDE DEF member, account
    <2> QED
        BY <2>1, <2>2, <2>3 DEF WebInv
<1>3. CASE RecordRelease
    <2>1. PICK m \in target.user :
              /\ m.legacyId = Null /\ \A w \in target.waivers : w.userId # m.id
              /\ target' = [target EXCEPT !.waivers =
                     @ \cup {[id |-> m.id, userId |-> m.id, asSigned |-> TRUE, recordedBy |-> Null]}]
        BY <1>3 DEF RecordRelease
    <2> DEFINE release == [id |-> m.id, userId |-> m.id, asSigned |-> TRUE, recordedBy |-> Null]
    <2>2. /\ target'.waivers = target.waivers \cup {release}
          /\ target'.user = target.user /\ target'.account = target.account
        BY <2>1 DEF Shapes, EmptyDatabase
    <2>3. release.id = m.id /\ release.userId = m.id /\ release.recordedBy = Null /\ m.id[1] = Web
        BY <2>1 DEF WebInv, WebId
    <2> HIDE DEF release
    <2>4. \A w \in target.waivers : w.id # release.id
        BY <2>1, <2>3 DEF WebInv
    <2> QED
        BY <2>2, <2>3, <2>4 DEF WebInv
<1> QED
    BY <1>1, <1>2, <1>3, WebOfRun DEF Next, OneRunSteps

(***************************************************************************)
(* Nothing, or all of one.                                                 *)
(***************************************************************************)

\* Without members nothing is carried but the list of certifications.
LEMMA NoMembersNoRows ==
    ASSUME NEW i, NEW s, Sane(s), DOMAIN s.users = {}
    PROVE  /\ LinkedRows(i, s) = {} /\ AccountRows(i, s) = {} /\ CardRows(i, s) = {}
           /\ GrantRows(i, s) = {} /\ PaymentRows(i, s) = {} /\ WaiverRows(i, s) = {}
<1>1. LinkedRows(i, s) = {} /\ AccountRows(i, s) = {}
    BY DEF LinkedRows, AccountRows, HasPassword
<1>2. CardRows(i, s) = {}
    BY DEF CardRows, Sane
<1>3. GrantRows(i, s) = {}
    BY DEF GrantRows, CarriedGrants
<1>4. PaymentRows(i, s) = {}
    BY DEF PaymentRows, CarriedPayments
<1>5. WaiverRows(i, s) = {}
    BY DEF WaiverRows, CarriedContracts
<1> QED
    BY <1>1, <1>2, <1>3, <1>4, <1>5

\* What is in the database of Rails is among the rows of run i.
HoldsPartOf(i) ==
    /\ ImportedMembers \subseteq LinkedRows(i, source[i])
    /\ {a \in target.account : a.userId[1] # Web} \subseteq AccountRows(i, source[i])
    /\ {w \in target.waivers : w.id[1] # Web} \subseteq WaiverRows(i, source[i])
    /\ \A t \in {"cards", "certifications", "user_certifications", "payments"} : target[t] \subseteq AllRows(i)[t]

LEMMA NoneIsPart ==
    ASSUME NEW i, HoldsNone
    PROVE  HoldsPartOf(i)
BY DEF HoldsNone, NothingImported, HoldsPartOf

LEMMA AllIsPart ==
    ASSUME NEW k \in Importer, NEW i \in Importer, HoldsAllOf(k), Sane(source[k]), DOMAIN source[k].users = {},
           CertificationRows(source[k]) \subseteq CertificationRows(source[i])
    PROVE  HoldsPartOf(i)
<1>1. /\ LinkedRows(k, source[k]) = {} /\ AccountRows(k, source[k]) = {} /\ CardRows(k, source[k]) = {}
      /\ GrantRows(k, source[k]) = {} /\ PaymentRows(k, source[k]) = {} /\ WaiverRows(k, source[k]) = {}
    BY NoMembersNoRows
<1> QED
    BY <1>1 DEF HoldsAllOf, HoldsPartOf, AllRows

\* A commit completes what was part of it.
LEMMA CommitCompletes ==
    ASSUME Shapes, NEW i \in Importer, RunInv(i), Commits(i), HoldsPartOf(i)
    PROVE  HoldsAllOf(i)'
<1> DEFINE s == source[i]
<1>1. /\ \A t \in Table : target'[t] = target[t] \cup AllRows(i)[t]
      /\ IsLegacy(s) /\ source'[i] = s
    BY CommitTables DEF Commits
<1>2. /\ \A m \in LinkedRows(i, s) : m.legacyId # Null
      /\ \A a \in AccountRows(i, s) : a.userId[1] # Web
      /\ \A w \in WaiverRows(i, s) : w.id[1] # Web
    BY <1>1, OwnRows, WebAssumption
<1>3. ImportedMembers' = LinkedRows(i, s)
    <2>1. target'.user = target.user \cup LinkedRows(i, s)
        BY <1>1 DEF AllRows, Table
    <2> HIDE DEF s
    <2>2. ImportedMembers \subseteq LinkedRows(i, s)
        BY DEF HoldsPartOf, s
    <2> QED
        BY <1>2, <2>1, <2>2 DEF ImportedMembers
<1>4. {a \in target'.account : a.userId[1] # Web} = AccountRows(i, s)
    BY <1>1, <1>2 DEF HoldsPartOf, AllRows, Table
<1>5. {w \in target'.waivers : w.id[1] # Web} = WaiverRows(i, s)
    BY <1>1, <1>2 DEF HoldsPartOf, AllRows, Table
<1>6. \A t \in {"cards", "certifications", "user_certifications", "payments"} : target'[t] = AllRows(i)[t]
    BY <1>1 DEF HoldsPartOf, Table
<1>7. \A t \in Table : AllRows(i)'[t] = AllRows(i)[t]
    BY <1>1 DEF AllRows
<1> QED
    BY <1>1, <1>3, <1>4, <1>5, <1>6, <1>7 DEF HoldsAllOf, Table

\* A commit of a snapshot without members changes nothing, if its certifications are there.
LEMMA CommitOfNoMembers ==
    ASSUME Shapes, NEW i \in Importer, RunInv(i), Commits(i), NEW k \in Importer, HoldsAllOf(k),
           DOMAIN source[i].users = {}, CertificationRows(source[i]) \subseteq CertificationRows(source[k])
    PROVE  HoldsAllOf(k)'
<1> DEFINE s == source[i]
<1>1. /\ \A t \in Table : target'[t] = target[t] \cup AllRows(i)[t]
      /\ Sane(s) /\ source' = source
    BY CommitTables DEF Commits
<1>2. /\ LinkedRows(i, s) = {} /\ AccountRows(i, s) = {} /\ CardRows(i, s) = {}
      /\ GrantRows(i, s) = {} /\ PaymentRows(i, s) = {} /\ WaiverRows(i, s) = {}
    BY <1>1, NoMembersNoRows
<1>3. \A t \in Table : target'[t] = target[t]
    <2>1. \A t \in Table \ {"certifications"} : AllRows(i)[t] = {}
        BY <1>2 DEF AllRows, Table
    <2>2. AllRows(i).certifications \subseteq target.certifications
        BY DEF AllRows, HoldsAllOf
    <2> QED
        BY <1>1, <2>1, <2>2
<1>4. AllRows(k)' = AllRows(k)
    BY <1>1 DEF AllRows
<1> QED
    BY <1>1, <1>3, <1>4 DEF HoldsAllOf, ImportedMembers, Table

LEMMA EachHasItsRow ==
    ASSUME NEW i, NEW s, NEW u \in DOMAIN s.users
    PROVE  \E m \in LinkedRows(i, s) : m.legacyId = u
<1> DEFINE m == [id |-> MemberId(i, u), legacyId |-> u, email |-> CanonicalEmail[s.users[u].email],
                 orientedBy |-> Known(i, s, s.users[u].orientedBy), cardAccess |-> u \in MembersWithCardAccess(s)]
<1>1. m \in LinkedRows(i, s)
    BY DEF LinkedRows
<1>2. m.legacyId = u
    OBVIOUS
<1> QED
    BY <1>1, <1>2

\* Two runs cannot both bring members: the snapshots share one.
LEMMA MembersClash ==
    ASSUME NEW i \in Importer, Commits(i), KeysInv, SourcesInv, NEW k \in Importer, HoldsAllOf(k),
           DOMAIN source[i].users # {}, DOMAIN source[k].users # {}
    PROVE  FALSE
<1>1. PICK u \in DOMAIN source[i].users : u \in DOMAIN source[k].users
    BY DEF SourcesInv
<1>2. PICK p \in LinkedRows(i, source[i]) : p.legacyId = u
    BY <1>1, EachHasItsRow
<1>3. PICK q \in LinkedRows(k, source[k]) : q.legacyId = u
    <2>1. u \in DOMAIN source[k].users
        BY <1>1
    <2>2. \A v \in DOMAIN source[k].users : \E m \in LinkedRows(k, source[k]) : m.legacyId = v
        BY EachHasItsRow
    <2> QED
        BY <2>1, <2>2
<1>4. p \in tx[i].user /\ Open(i)
    BY <1>2 DEF Commits, AllRows, Table
<1>5. q \in target.user
    BY <1>3 DEF HoldsAllOf, ImportedMembers
<1>6. Clashes(p, q, KeysOf("user"))
    BY <1>2, <1>3 DEF Clashes, KeysOf
<1> QED
    BY <1>4, <1>5, <1>6 DEF KeysInv, Table

\* Snapshots with members, and those of open transactions, have the same certifications.
LEMMA SameCertifications ==
    ASSUME NEW i \in Importer, NEW k \in Importer, RunInv(i), Commits(i), SourcesInv
    PROVE  /\ CertificationRows(source[k]) \subseteq CertificationRows(source[i])
           /\ DOMAIN source[k].users # {} => CertificationRows(source[i]) = CertificationRows(source[k])
           /\ NextCertification(source[i]) = NextCertification(legacy)
<1>1. source[i].certifications = legacy.certifications
    BY DEF Commits, SourcesInv, RunInv
<1>2. CASE source[k].certifications = legacy.certifications
    BY <1>1, <1>2 DEF CertificationRows, NextCertification
<1>3. CASE source[k] = NoTables
    BY <1>1, <1>3 DEF CertificationRows, NextCertification, NoTables
<1> QED
    BY <1>2, <1>3 DEF SourcesInv

LEMMA CopyOfCommit ==
    ASSUME Shapes, \A k \in Importer : RunInv(k), SourcesInv, KeysInv, CopyInv,
           NEW i \in Importer, OneRunSteps(i), Commits(i)
    PROVE  CopyInv'
<1>1. /\ UNCHANGED <<source, snapshot, counts, findings, options, legacy>>
      /\ \A k \in Importer \ {i} : Same(k)
      /\ step'[i] = "ended" /\ ~DryRun(i) /\ KnowsAll(i) /\ i \in DOMAIN options /\ step[i] # "ended"
    BY OneRunAlone DEF Commits, Shapes
<1>2. \A k \in Importer : (KnowsAll(k)' <=> KnowsAll(k)) /\ (DryRun(k)' <=> DryRun(k))
    BY <1>1 DEF KnowsAll, AcceptsOrphans, DryRun
<1>3. ASSUME NEW k \in Importer, HoldsAllOf(k), KnowsAll(k)
      PROVE  /\ DOMAIN source[k].users = {} \/ DOMAIN source[i].users = {}
             /\ DOMAIN source[k].users = {} => HoldsAllOf(i)'
             /\ DOMAIN source[k].users # {} => HoldsAllOf(k)'
    <2>1. DOMAIN source[k].users = {} \/ DOMAIN source[i].users = {}
        BY <1>3, MembersClash
    <2>2. ASSUME DOMAIN source[k].users = {} PROVE HoldsAllOf(i)'
        BY <1>3, <2>2, KnowsSane, SameCertifications, AllIsPart, CommitCompletes
    <2>3. ASSUME DOMAIN source[k].users # {} PROVE HoldsAllOf(k)'
        BY <1>3, <2>1, <2>3, SameCertifications, CommitOfNoMembers
    <2> QED
        BY <2>1, <2>2, <2>3
<1>4. CASE HoldsNone
    <2>1. HoldsAllOf(i)'
        BY <1>4, NoneIsPart, CommitCompletes
    <2>2. \A j \in Importer \ {i} : said[j] = "committed" => DOMAIN source[j].users = {}
        <3>1. ASSUME NEW j \in Importer \ {i}, said[j] = "committed", DOMAIN source[j].users # {}
              PROVE  FALSE
            <4>1. HoldsAllOf(j)
                BY <3>1 DEF CopyInv
            <4>2. LinkedRows(j, source[j]) # {}
                BY <3>1 DEF LinkedRows
            <4> QED
                BY <1>4, <4>1, <4>2 DEF HoldsNone, NothingImported, HoldsAllOf
        <3> QED
            BY <3>1
    <2>3. \A j \in Importer : said'[j] = "committed" /\ DOMAIN source'[j].users # {} => j = i
        BY <1>1, <2>2 DEF Same
    <2>4. target'.nextCertification = NextCertification(legacy')
        BY <1>1, CommitTables, SameCertifications
    <2> QED
        BY <1>1, <1>2, <2>1, <2>3, <2>4 DEF CopyInv
<1>5. ASSUME NEW k \in DOMAIN options, ~DryRun(k), step[k] = "ended", KnowsAll(k), HoldsAllOf(k)
      PROVE  CopyInv'
    <2>0. k \in Importer /\ k # i
        BY <1>1, <1>5 DEF Shapes
    <2>1. HoldsAllOf(i)' \/ (HoldsAllOf(k)' /\ step'[k] = "ended")
        BY <1>1, <1>3, <1>5, <2>0 DEF Same
    <2>2. DOMAIN source[i].users # {} => HoldsAllOf(i)'
        BY <1>3, <1>5, <2>0
    <2>3. ASSUME NEW j \in Importer, said'[j] = "committed", DOMAIN source'[j].users # {}
          PROVE  KnowsAll(j)' /\ HoldsAllOf(j)'
        <3>1. CASE j = i
            BY <1>1, <1>2, <2>2, <2>3, <3>1
        <3>2. CASE j # i
            <4>1. KnowsAll(j) /\ HoldsAllOf(j) /\ DOMAIN source[j].users # {}
                BY <1>1, <2>3, <3>2 DEF CopyInv, Same
            <4> QED
                BY <1>2, <1>3, <4>1
        <3> QED
            BY <3>1, <3>2
    <2>4. target'.nextCertification = NextCertification(legacy')
        BY <1>1, <2>0, CommitTables, SameCertifications
    <2> QED
        BY <1>1, <1>2, <1>5, <2>0, <2>1, <2>3, <2>4 DEF CopyInv
<1> QED
    BY <1>4, <1>5 DEF CopyInv

\* Where neither the rows of Rails nor what the runs know change, nothing does.
LEMMA CopyFrame ==
    ASSUME CopyInv, options' = options,
           \A k \in Importer : said'[k] = "committed" => said[k] = "committed",
           \A k \in Importer : step[k] = "ended" \/ said'[k] = "committed" =>
               Same(k),
           DOMAIN options \subseteq Importer,
           ImportedMembers' = ImportedMembers,
           {a \in target'.account : a.userId[1] # Web} = {a \in target.account : a.userId[1] # Web},
           {w \in target'.waivers : w.id[1] # Web} = {w \in target.waivers : w.id[1] # Web},
           \A t \in {"cards", "certifications", "user_certifications", "payments"} : target'[t] = target[t],
           target'.nextCertification = target.nextCertification,
           legacy'.certifications = legacy.certifications
    PROVE  CopyInv'
<1>1. HoldsNone => HoldsNone'
    BY DEF HoldsNone, NothingImported
<1>2. ASSUME NEW k \in Importer, Same(k)
      PROVE  /\ KnowsAll(k)' <=> KnowsAll(k)
             /\ DryRun(k)' <=> DryRun(k)
             /\ HoldsAllOf(k) => HoldsAllOf(k)'
    <2>1. AllRows(k)' = AllRows(k)
        BY <1>2 DEF AllRows, Same
    <2> QED
        BY <1>2, <2>1 DEF KnowsAll, AcceptsOrphans, DryRun, HoldsAllOf, Same
<1>3. HoldsNone' \/ \E k \in DOMAIN options' : ~DryRun(k)' /\ step'[k] = "ended" /\ KnowsAll(k)' /\ HoldsAllOf(k)'
    <2>1. ASSUME NEW k \in DOMAIN options, ~DryRun(k), step[k] = "ended", KnowsAll(k), HoldsAllOf(k)
          PROVE  ~DryRun(k)' /\ step'[k] = "ended" /\ KnowsAll(k)' /\ HoldsAllOf(k)'
        <3>1. k \in Importer /\ Same(k)
            BY <2>1
        <3>2. step'[k] = "ended"
            BY <2>1, <3>1 DEF Same
        <3> QED
            BY <1>2, <2>1, <3>1, <3>2
    <2> QED
        BY <1>1, <2>1 DEF CopyInv
<1>4. \A k \in Importer : said'[k] = "committed" /\ DOMAIN source'[k].users # {} => KnowsAll(k)' /\ HoldsAllOf(k)'
    BY <1>2 DEF CopyInv, Same
<1>5. target'.certifications # {} => target'.nextCertification = NextCertification(legacy')
    BY DEF CopyInv, NextCertification
<1> QED
    BY <1>3, <1>4, <1>5 DEF CopyInv

LEMMA CopyKept ==
    ASSUME Shapes, \A k \in Importer : RunInv(k), SourcesInv, KeysInv, WebInv, CopyInv, [Next]_vars
    PROVE  CopyInv'
<1>1. ASSUME NEW i \in Importer, OneRunSteps(i), ~Commits(i)
      PROVE  CopyInv'
    <2>1. /\ target' = target /\ (said'[i] # "committed" \/ said' = said)
          /\ step[i] # "ended" /\ legacy' = legacy /\ options' = options
          /\ \A k \in Importer \ {i} : Same(k)
        BY <1>1, RunMoves, OneRunAlone
        DEF Moves, LeavesBoth, OpensOne, RollsBack, InsertsOne, LinksMembers, MovesIdentity
    <2>2. said'[i] # "committed"
        BY <2>1 DEF Shapes
    <2>3. \A k \in Importer : step[k] = "ended" \/ said'[k] = "committed" => Same(k)
        BY <2>1, <2>2
    <2>4. \A k \in Importer : said'[k] = "committed" => said[k] = "committed"
        BY <2>3 DEF Same
    <2>5. ImportedMembers' = ImportedMembers /\ DOMAIN options \subseteq Importer
        BY <2>1 DEF ImportedMembers, Shapes
    <2> QED
        BY <2>1, <2>3, <2>4, <2>5, CopyFrame
<1>2. CASE RailsEdit \/ UNCHANGED vars
    <2>1. /\ target' = target /\ options' = options /\ said' = said /\ \A k \in Importer : Same(k)
        BY <1>2 DEF RailsEdit, vars, run, Same
    <2>2. legacy'.certifications = legacy.certifications
        BY <1>2, RailsStaysLegacy DEF vars, Shapes
    <2>3. ImportedMembers' = ImportedMembers /\ DOMAIN options \subseteq Importer
        BY <2>1 DEF ImportedMembers, Shapes
    <2> QED
        BY <2>1, <2>2, <2>3, CopyFrame
<1>3. CASE SignUp
    <2>1. PICK e \in WebEmail :
              target' = [target EXCEPT
                     !.user = @ \cup {[id |-> WebId(e), legacyId |-> Null, email |-> e,
                                       orientedBy |-> Null, cardAccess |-> FALSE]},
                     !.account = @ \cup {[userId |-> WebId(e)]}]
        BY <1>3 DEF SignUp
    <2> DEFINE member == [id |-> WebId(e), legacyId |-> Null, email |-> e, orientedBy |-> Null, cardAccess |-> FALSE]
               account == [userId |-> WebId(e)]
    <2>2. /\ target'.user = target.user \cup {member} /\ target'.account = target.account \cup {account}
          /\ \A t \in DOMAIN EmptyDatabase \ {"user", "account"} : target'[t] = target[t]
        BY <2>1 DEF Shapes, EmptyDatabase
    <2>3. member.legacyId = Null /\ account.userId[1] = Web
        BY DEF WebId
    <2>4. /\ options' = options /\ said' = said /\ legacy' = legacy /\ (\A k \in Importer : Same(k))
          /\ DOMAIN options \subseteq Importer
        BY <1>3 DEF SignUp, run, Same, Shapes
    <2> HIDE DEF member, account
    <2>5. ImportedMembers' = ImportedMembers
        BY <2>2, <2>3 DEF ImportedMembers
    <2>6. {a \in target'.account : a.userId[1] # Web} = {a \in target.account : a.userId[1] # Web}
        BY <2>2, <2>3
    <2>7. /\ \A t \in {"cards", "certifications", "user_certifications", "payments"} : target'[t] = target[t]
          /\ target'.waivers = target.waivers /\ target'.nextCertification = target.nextCertification
        BY <2>2 DEF EmptyDatabase
    <2> QED
        BY <2>4, <2>5, <2>6, <2>7, CopyFrame
<1>4. CASE RecordRelease
    <2>1. PICK m \in target.user :
              /\ m.legacyId = Null
              /\ target' = [target EXCEPT !.waivers =
                     @ \cup {[id |-> m.id, userId |-> m.id, asSigned |-> TRUE, recordedBy |-> Null]}]
        BY <1>4 DEF RecordRelease
    <2> DEFINE release == [id |-> m.id, userId |-> m.id, asSigned |-> TRUE, recordedBy |-> Null]
    <2>2. /\ target'.waivers = target.waivers \cup {release}
          /\ \A t \in DOMAIN EmptyDatabase \ {"waivers"} : target'[t] = target[t]
        BY <2>1 DEF Shapes, EmptyDatabase
    <2>3. release.id[1] = Web
        BY <2>1 DEF WebInv, WebId
    <2>4. /\ options' = options /\ said' = said /\ legacy' = legacy /\ (\A k \in Importer : Same(k))
          /\ DOMAIN options \subseteq Importer
        BY <1>4 DEF RecordRelease, run, Same, Shapes
    <2> HIDE DEF release
    <2>5. {w \in target'.waivers : w.id[1] # Web} = {w \in target.waivers : w.id[1] # Web}
        BY <2>2, <2>3
    <2>6. /\ \A t \in {"cards", "certifications", "user_certifications", "payments"} : target'[t] = target[t]
          /\ target'.account = target.account /\ target'.user = target.user
          /\ target'.nextCertification = target.nextCertification
        BY <2>2 DEF EmptyDatabase
    <2>7. ImportedMembers' = ImportedMembers
        BY <2>6 DEF ImportedMembers
    <2> QED
        BY <2>4, <2>5, <2>6, <2>7, CopyFrame
<1>5. ASSUME NEW i \in Importer, OneRunSteps(i), Commits(i)
      PROVE  CopyInv'
    BY <1>5, CopyOfCommit
<1> QED
    BY <1>1, <1>2, <1>3, <1>4, <1>5 DEF Next, OneRunSteps

(***************************************************************************)
(* The invariant holds.                                                    *)
(***************************************************************************)

LEMMA ImportInit ==
    ASSUME Init
    PROVE  IInv
<1>0. MaxEdits \in Nat /\ MaxSignUps \in Nat /\ MaxFaults \in Nat
    BY BoundsAssumption
<1>1. PICK start \in Starts :
          /\ legacy = start.legacy /\ options = start.options /\ calm = start.calm
          /\ step = [i \in Importer |-> IF i \in DOMAIN start.options THEN "begin" ELSE "off"]
    BY DEF Init
<1>2. Shapes
    BY <1>0, <1>1, StartsAssumption DEF Init, Shapes, Steps, Loading, Answers
<1>3. IsLegacy(NoTables)
    <2>1. DOMAIN <<>> = {}
        OBVIOUS
    <2>2. <<>> \in [{} -> [number : Number \cup {Null}, permissions : Int \cup {Null}, userId : Int \cup {Null}]]
        OBVIOUS
    <2> QED
        BY <2>1, <2>2 DEF IsLegacy, NoTables
<1>4. ASSUME NEW i \in Importer
      PROVE  RunInv(i) /\ ~Open(i) /\ source[i] = NoTables /\ step[i] \in {"begin", "off"} /\ said[i] = "nothing"
    <2>1. /\ source[i] = NoTables /\ snapshot[i] = NoTables /\ tx[i] = NoTransaction
          /\ step[i] \in {"begin", "off"} /\ said[i] = "nothing"
        BY <1>1 DEF Init
    <2>2. ~Open(i)
        BY <2>1 DEF Open, NoTransaction
    <2> QED
        BY <1>3, <2>1, <2>2 DEF RunInv, Loading
<1>5. SourcesInv
    <2>1. DOMAIN NoTables.users = {}
        BY DEF NoTables
    <2> QED
        BY <1>4, <2>1 DEF SourcesInv, Loading
<1>6. KeysInv
    BY <1>4 DEF KeysInv
<1>7. target = EmptyDatabase
    BY DEF Init
<1>8. WebInv
    BY <1>7 DEF WebInv, EmptyDatabase
<1>9. CopyInv
    BY <1>4, <1>7 DEF CopyInv, HoldsNone, NothingImported, ImportedMembers, EmptyDatabase
<1> QED
    BY <1>2, <1>4, <1>5, <1>6, <1>8, <1>9 DEF IInv

\* Every step keeps the invariant.
LEMMA ImportStep ==
    ASSUME IInv, [Next]_vars
    PROVE  IInv'
<1>1. Shapes /\ (\A i \in Importer : RunInv(i)) /\ SourcesInv /\ KeysInv /\ WebInv /\ CopyInv
    BY DEF IInv
<1>2. Shapes'
    BY <1>1, ShapesInv
<1>3. \A i \in Importer : RunInv(i)'
    BY <1>1, RunsInv
<1>4. SourcesInv' /\ KeysInv'
    BY <1>1, SourcesKept, KeysKept
<1>5. WebInv' /\ CopyInv'
    BY <1>1, WebKept, CopyKept
<1> QED
    BY <1>2, <1>3, <1>4, <1>5 DEF IInv

LEMMA ImportInvariant == Spec => []IInv
<1>1. Init => IInv
    BY ImportInit
<1>2. IInv /\ [Next]_vars => IInv'
    BY ImportStep
<1> QED
    BY <1>1, <1>2, PTL DEF Spec

(***************************************************************************)
(* The members database.                                                   *)
(***************************************************************************)

\* A bounded set of numbers has a highest, so the identity restarts past every id.
LEMMA IdentityIsPast ==
    ASSUME NEW s, IsLegacy(s), NEW c \in DOMAIN s.certifications
    PROVE  c \in Int /\ NextCertification(s) \in Int /\ c < NextCertification(s)
<1> DEFINE ids == DOMAIN s.certifications \cup {0}
           below == {IntegerLimit - id : id \in ids}
<1>0. IntegerLimit \in Nat
    BY LimitsAssumption
<1>1. ids \subseteq (-IntegerLimit - 1)..IntegerLimit
    BY <1>0 DEF IsLegacy
<1>2. \A id \in ids : id \in Int /\ id <= IntegerLimit
    BY <1>0, <1>1
<1> HIDE DEF ids
<1>3. below \in SUBSET Nat /\ below # {}
    <2>1. \A id \in ids : IntegerLimit - id \in Nat
        BY <1>0, <1>2
    <2>2. 0 \in ids
        BY DEF ids
    <2> QED
        BY <2>1, <2>2
<1>4. PICK least \in below : \A d \in below : ~ (<<d, least>> \in OpToRel(<, Nat))
    <2> HIDE DEF below
    <2> QED
        BY <1>3, NatLessThanWellFounded, WFMin
<1>5. PICK highest \in ids : least = IntegerLimit - highest
    BY <1>4
<1>6. \A id \in ids : id <= highest
    <2>1. ASSUME NEW id \in ids PROVE id <= highest
        <3>1. IntegerLimit - id \in below /\ IntegerLimit - id \in Nat /\ least \in Nat
            BY <1>3, <1>4
        <3>2. ~(IntegerLimit - id < least)
            BY <1>4, <3>1 DEF OpToRel
        <3> QED
            BY <1>0, <1>2, <1>5, <3>1, <3>2
    <2> QED
        BY <2>1
<1> DEFINE top == CHOOSE id \in ids : \A other \in ids : other <= id
<1>7. top \in ids /\ \A id \in ids : id <= top
    BY <1>6
<1>8. NextCertification(s) = 1 + top
    BY DEF NextCertification, ids
<1>9. c \in ids
    BY DEF ids
<1> HIDE DEF top
<1> QED
    BY <1>2, <1>7, <1>8, <1>9

\* The rows of Rails in the database are all of one sound snapshot, or of the empty one.
LEMMA RailsRows ==
    ASSUME IInv
    PROVE  \E k, s :
               /\ k # Web /\ IsLegacy(s) /\ Sane(s) /\ s.certifications \in {<<>>, legacy.certifications}
               /\ ImportedMembers = LinkedRows(k, s)
               /\ {a \in target.account : a.userId[1] # Web} = AccountRows(k, s)
               /\ {w \in target.waivers : w.id[1] # Web} = WaiverRows(k, s)
               /\ target.cards = CardRows(k, s) /\ target.certifications = CertificationRows(s)
               /\ target.user_certifications = GrantRows(k, s) /\ target.payments = PaymentRows(k, s)
<1>1. CASE HoldsNone
    <2> DEFINE s == NoTables
    <2>1. IsLegacy(s)
        <3>1. DOMAIN <<>> = {}
            OBVIOUS
        <3>2. <<>> \in [{} -> [number : Number \cup {Null}, permissions : Int \cup {Null}, userId : Int \cup {Null}]]
            OBVIOUS
        <3> QED
            BY <3>1, <3>2 DEF IsLegacy, NoTables
    <2>2. Sane(s) /\ s.certifications = <<>> /\ DOMAIN s.users = {} /\ CertificationRows(s) = {}
        BY DEF Sane, NoTables, CertificationRows
    <2>3. "none" # Web
        BY DEF Web
    <2> HIDE DEF s
    <2>4. /\ LinkedRows("none", s) = {} /\ AccountRows("none", s) = {} /\ CardRows("none", s) = {}
          /\ GrantRows("none", s) = {} /\ PaymentRows("none", s) = {} /\ WaiverRows("none", s) = {}
        BY <2>2, NoMembersNoRows
    <2>5. /\ ImportedMembers = {} /\ target.cards = {} /\ target.certifications = {}
          /\ target.user_certifications = {} /\ target.payments = {}
          /\ {a \in target.account : a.userId[1] # Web} = {} /\ {w \in target.waivers : w.id[1] # Web} = {}
        BY <1>1 DEF HoldsNone, NothingImported
    <2>6. s.certifications \in {<<>>, legacy.certifications}
        BY <2>2
    <2> WITNESS "none", s
    <2> QED
        BY <2>1, <2>2, <2>3, <2>4, <2>5, <2>6
<1>2. ASSUME NEW k \in DOMAIN options, KnowsAll(k), HoldsAllOf(k)
      PROVE  /\ k # Web /\ IsLegacy(source[k]) /\ Sane(source[k])
             /\ source[k].certifications \in {<<>>, legacy.certifications}
    <2>1. k \in Importer
        BY DEF IInv, Shapes
    <2>2. IsLegacy(source[k]) /\ Sane(source[k]) /\ k # Web
        BY <1>2, <2>1, KnowsSane, WebAssumption DEF IInv, RunInv
    <2>3. source[k].certifications \in {<<>>, legacy.certifications}
        BY <2>1 DEF IInv, SourcesInv, NoTables
    <2> QED
        BY <2>2, <2>3
<1> QED
    BY <1>1, <1>2 DEF IInv, CopyInv, HoldsAllOf, AllRows

\* The keys of the members database, its references and its identity.
LEMMA TablesSound ==
    ASSUME IInv
    PROVE  /\ \A t \in {"user", "cards", "certifications", "user_certifications", "payments", "waivers"} :
                  \A p, q \in target[t] : p.id = q.id => p = q
           /\ \A p, q \in target.user : p.email = q.email => p = q
           /\ \A p, q \in target.cards : p.cardNumber = q.cardNumber => p = q
           /\ \A c \in target.cards : c.id \in 0..HighestSlot /\ c.cardNumber # Unreadable
           /\ LET members == {m.id : m \in target.user}
              IN  /\ \A t \in {"account", "cards", "user_certifications", "payments", "waivers"} :
                         \A r \in target[t] : r.userId \in members
                  /\ \A m \in target.user : m.orientedBy \in members \cup {Null}
                  /\ \A t \in {"payments", "waivers"} :
                         \A r \in target[t] : r.recordedBy \in members \cup {Null}
           /\ \A c \in target.certifications : c.id < target.nextCertification
<1>1. PICK k, s :
          /\ k # Web /\ IsLegacy(s) /\ Sane(s) /\ s.certifications \in {<<>>, legacy.certifications}
          /\ ImportedMembers = LinkedRows(k, s)
          /\ {a \in target.account : a.userId[1] # Web} = AccountRows(k, s)
          /\ {w \in target.waivers : w.id[1] # Web} = WaiverRows(k, s)
          /\ target.cards = CardRows(k, s) /\ target.certifications = CertificationRows(s)
          /\ target.user_certifications = GrantRows(k, s) /\ target.payments = PaymentRows(k, s)
    BY RailsRows
<1> DEFINE members == {m.id : m \in target.user}
<1>2. WebInv
    BY DEF IInv
<1>3. \A p, q \in target.user : p.email = q.email => p = q
    BY <1>2 DEF WebInv
<1>4. \A m \in target.user : m.legacyId # Null => m \in LinkedRows(k, s)
    BY <1>1 DEF ImportedMembers
<1>5. \A u \in DOMAIN s.users : <<k, u>> \in members
    <2>1. ASSUME NEW u \in DOMAIN s.users PROVE <<k, u>> \in members
        <3>1. PICK m \in LinkedRows(k, s) : m.legacyId = u
            BY EachHasItsRow
        <3>2. m.id = <<k, u>> /\ m \in target.user
            BY <1>1, <3>1 DEF LinkedRows, MemberId, ImportedMembers
        <3> QED
            BY <3>2
    <2> QED
        BY <2>1
<1>6. \A p, q \in target.user : p.id = q.id => p = q
    <2>1. ASSUME NEW p \in target.user, NEW q \in target.user, p.id = q.id
          PROVE  p = q
        <3>1. CASE p.legacyId # Null /\ q.legacyId # Null
            <4>1. p \in LinkedRows(k, s) /\ q \in LinkedRows(k, s)
                BY <1>4, <3>1
            <4> QED
                BY <2>1, <4>1 DEF LinkedRows, MemberId
        <3>2. CASE p.legacyId = Null /\ q.legacyId = Null
            <4>1. p.id = WebId(p.email) /\ q.id = WebId(q.email)
                BY <1>2, <3>2 DEF WebInv
            <4>2. p.email = q.email
                <5>1. p.id[2] = p.email /\ q.id[2] = q.email
                    BY <4>1 DEF WebId
                <5> QED
                    BY <2>1, <5>1
            <4> QED
                BY <1>3, <4>2
        <3>3. ASSUME NEW m \in target.user, m.legacyId # Null, NEW n \in target.user, n.legacyId = Null
              PROVE  m.id # n.id
            <4>1. m.id[1] = k /\ n.id[1] = Web
                BY <1>1, <1>2, <1>4, <3>3 DEF WebInv, WebId, LinkedRows, MemberId
            <4> QED
                BY <1>1, <4>1
        <3> QED
            BY <2>1, <3>1, <3>2, <3>3
    <2> QED
        BY <2>1
<1>7. /\ \A p, q \in target.cards : p.id = q.id => p = q
      /\ \A p, q \in target.certifications : p.id = q.id => p = q
      /\ \A p, q \in target.user_certifications : p.id = q.id => p = q
      /\ \A p, q \in target.payments : p.id = q.id => p = q
    <2>1. \A p, q \in target.cards : p.id = q.id => p = q
        BY <1>1 DEF CardRows
    <2>2. \A p, q \in target.certifications : p.id = q.id => p = q
        BY <1>1 DEF CertificationRows
    <2>3. \A p, q \in target.user_certifications : p.id = q.id => p = q
        BY <1>1 DEF GrantRows
    <2>4. \A p, q \in target.payments : p.id = q.id => p = q
        BY <1>1 DEF PaymentRows
    <2> QED
        BY <2>1, <2>2, <2>3, <2>4
<1>8. \A p, q \in target.waivers : p.id = q.id => p = q
    <2>1. ASSUME NEW p \in target.waivers, NEW q \in target.waivers, p.id = q.id
          PROVE  p = q
        <3>1. CASE p.id[1] = Web
            BY <1>2, <2>1, <3>1 DEF WebInv
        <3>2. CASE p.id[1] # Web
            <4>1. p \in WaiverRows(k, s) /\ q \in WaiverRows(k, s)
                BY <1>1, <2>1, <3>2
            <4> QED
                BY <2>1, <4>1 DEF WaiverRows
        <3> QED
            BY <3>1, <3>2
    <2> QED
        BY <2>1
<1>9. \A p, q \in target.cards : p.cardNumber = q.cardNumber => p = q
    BY <1>1 DEF CardRows, Sane
<1>10. \A c \in target.cards : c.id \in 0..HighestSlot /\ c.cardNumber # Unreadable
    BY <1>1 DEF CardRows, Sane
<1>11. \A a \in target.account : a.userId \in members
    <2>1. ASSUME NEW a \in target.account, a.userId[1] # Web PROVE a.userId \in members
        <3>1. PICK u \in HasPassword(s) : a.userId = <<k, u>>
            BY <1>1, <2>1 DEF AccountRows, MemberId
        <3> QED
            BY <1>5, <3>1 DEF HasPassword
    <2> QED
        BY <1>2, <2>1 DEF WebInv
<1> HIDE DEF members
<1>12. \A c \in target.cards : c.userId \in members
    <2>1. ASSUME NEW c \in CardRows(k, s) PROVE c.userId \in members
        <3>1. PICK d \in DOMAIN s.cards : c.userId = <<k, s.cards[d].userId>>
            BY <2>1 DEF CardRows, MemberId
        <3>2. s.cards[d].userId \in DOMAIN s.users
            BY <1>1 DEF Sane
        <3> QED
            BY <1>5, <3>1, <3>2
    <2> QED
        BY <1>1, <2>1
<1>13. \A g \in target.user_certifications : g.userId \in members
    <2>1. ASSUME NEW g \in GrantRows(k, s) PROVE g.userId \in members
        <3>1. PICK h \in CarriedGrants(s) : g.userId = <<k, s.userCertifications[h].userId>>
            BY <2>1 DEF GrantRows, MemberId
        <3> QED
            BY <1>5, <3>1 DEF CarriedGrants
    <2> QED
        BY <1>1, <2>1
<1>14. \A u : Known(k, s, u) \in members \cup {Null}
    BY <1>5 DEF Known, MemberId
<1>15. \A p \in target.payments : p.userId \in members /\ p.recordedBy \in members \cup {Null}
    <2>1. ASSUME NEW p \in PaymentRows(k, s) PROVE p.userId \in members /\ p.recordedBy \in members \cup {Null}
        <3>1. PICK q \in CarriedPayments(s) :
                  /\ p.userId = <<k, s.payments[q].userId>>
                  /\ p.recordedBy = Known(k, s, s.payments[q].createdBy)
            BY <2>1 DEF PaymentRows, MemberId
        <3> QED
            BY <1>5, <1>14, <3>1 DEF CarriedPayments
    <2> QED
        BY <1>1, <2>1
<1>16. \A w \in target.waivers : w.userId \in members /\ w.recordedBy \in members \cup {Null}
    <2>1. ASSUME NEW w \in WaiverRows(k, s) PROVE w.userId \in members /\ w.recordedBy \in members \cup {Null}
        <3>1. PICK c \in CarriedContracts(s) :
                  /\ w.userId = <<k, s.contracts[c].userId>>
                  /\ w.recordedBy = Known(k, s, s.contracts[c].createdBy)
            BY <2>1 DEF WaiverRows, MemberId
        <3> QED
            BY <1>5, <1>14, <3>1 DEF CarriedContracts
    <2>2. ASSUME NEW w \in target.waivers, w.id[1] = Web
          PROVE  w.userId \in members /\ w.recordedBy \in members \cup {Null}
        BY <1>2, <2>2 DEF WebInv, members
    <2> QED
        BY <1>1, <2>1, <2>2
<1>17. \A m \in target.user : m.orientedBy \in members \cup {Null}
    <2>1. ASSUME NEW m \in LinkedRows(k, s) PROVE m.orientedBy \in members \cup {Null}
        <3>1. PICK u \in DOMAIN s.users : m.orientedBy = Known(k, s, s.users[u].orientedBy)
            BY <2>1 DEF LinkedRows
        <3> QED
            BY <1>14, <3>1
    <2> QED
        BY <1>2, <1>4, <2>1 DEF WebInv
<1>18. \A c \in target.certifications : c.id < target.nextCertification
    <2>1. ASSUME NEW c \in target.certifications PROVE c.id < target.nextCertification
        <3>1. c.id \in DOMAIN s.certifications
            BY <1>1, <2>1 DEF CertificationRows
        <3>2. s.certifications = legacy.certifications
            BY <1>1, <3>1
        <3>3. target.nextCertification = NextCertification(legacy) /\ IsLegacy(legacy)
            BY <2>1 DEF IInv, CopyInv, Shapes
        <3> QED
            BY <3>1, <3>2, <3>3, IdentityIsPast
    <2> QED
        BY <2>1
<1> QED
    BY <1>3, <1>6, <1>7, <1>8, <1>9, <1>10, <1>11, <1>12, <1>13, <1>15, <1>16, <1>17, <1>18 DEF members

\* The members database holds what the rest of the system starts from, whatever is
\* imported, however often, and whoever signs up meanwhile: no key twice, no reference
\* at a row that is gone, canonical numbers at slots the table has, and an identity past
\* every certification (load.ts, tables.ts).
THEOREM TypeCorrect == Spec => []TypeOK
<1>1. IInv => TypeOK
    <2> SUFFICES ASSUME IInv PROVE TypeOK
        OBVIOUS
    <2>1. /\ \A i \in Importer : said[i] \in Answers /\ (said[i] # "nothing" <=> step[i] = "ended")
          /\ edits \in 0..MaxEdits /\ signUps \in 0..MaxSignUps /\ faults \in 0..MaxFaults
        BY DEF IInv, Shapes
    <2> QED
        BY <2>1, TablesSound DEF TypeOK
<1> QED
    BY <1>1, ImportInvariant, PTL

(***************************************************************************)
(* How many rows.                                                          *)
(***************************************************************************)

\* Rows told apart by what they are made of are as many as that.
LEMMA OneRowEach ==
    ASSUME NEW S, IsFiniteSet(S), NEW f, DOMAIN f = S, \A x, y \in S : f[x] = f[y] => x = y
    PROVE  /\ IsFiniteSet({f[x] : x \in S})
           /\ Cardinality({f[x] : x \in S}) = Cardinality(S)
<1> DEFINE T == {f[x] : x \in S}
           g == [x \in S |-> f[x]]
<1>1. g \in Bijection(S, T)
    <2>1. g \in [S -> T]
        OBVIOUS
    <2>2. \A x, y \in S : g[x] = g[y] => x = y
        OBVIOUS
    <2>3. \A t \in T : \E x \in S : g[x] = t
        OBVIOUS
    <2> HIDE DEF g, T
    <2> QED
        BY <2>1, <2>2, <2>3 DEF Bijection, Injection, Surjection, IsInjective
<1>2. ExistsBijection(S, T)
    BY <1>1 DEF ExistsBijection
<1> HIDE DEF T
<1>3. IsFiniteSet(T) /\ Cardinality(T) = Cardinality(S)
    BY <1>2, FS_Bijection
<1> QED
    BY <1>3 DEF T

\* A table of Rails is finite.
LEMMA LegacyFinite ==
    ASSUME NEW s, IsLegacy(s)
    PROVE  \A t \in LegacyTables : \A rows \in SUBSET DOMAIN s[t] : IsFiniteSet(rows)
<1>1. IntegerLimit \in Nat
    BY LimitsAssumption
<1>2. IsFiniteSet((-IntegerLimit - 1)..IntegerLimit)
    <2>1. -IntegerLimit - 1 \in Int /\ IntegerLimit \in Int
        BY <1>1
    <2> QED
        BY <2>1, FS_Interval
<1>3. \A t \in LegacyTables : DOMAIN s[t] \subseteq (-IntegerLimit - 1)..IntegerLimit
    BY DEF IsLegacy, LegacyTables
<1>4. ASSUME NEW t \in LegacyTables, NEW rows \in SUBSET DOMAIN s[t]
      PROVE  IsFiniteSet(rows)
    <2>1. rows \in SUBSET ((-IntegerLimit - 1)..IntegerLimit)
        BY <1>3
    <2> QED
        BY <1>2, <2>1, FS_Subset
<1> QED
    BY <1>4

\* Each table of a run has a row for each row of Rails it carries.
LEMMA RowCounts ==
    ASSUME NEW i, NEW s, IsLegacy(s)
    PROVE  /\ Cardinality(LinkedRows(i, s)) = Size(s.users)
           /\ Cardinality(AccountRows(i, s)) = Cardinality(HasPassword(s))
           /\ Cardinality(GrantRows(i, s)) = Cardinality(CarriedGrants(s))
           /\ Cardinality(PaymentRows(i, s)) = Cardinality(CarriedPayments(s))
           /\ Cardinality(WaiverRows(i, s)) = Cardinality(CarriedContracts(s))
<1>1. /\ IsFiniteSet(DOMAIN s.users) /\ IsFiniteSet(HasPassword(s)) /\ IsFiniteSet(CarriedGrants(s))
      /\ IsFiniteSet(CarriedPayments(s)) /\ IsFiniteSet(CarriedContracts(s))
    BY LegacyFinite DEF LegacyTables, HasPassword, CarriedGrants, CarriedPayments, CarriedContracts
<1>2. Cardinality(LinkedRows(i, s)) = Size(s.users)
    <2> DEFINE f == [u \in DOMAIN s.users |->
                        [id |-> MemberId(i, u), legacyId |-> u, email |-> CanonicalEmail[s.users[u].email],
                         orientedBy |-> Known(i, s, s.users[u].orientedBy),
                         cardAccess |-> u \in MembersWithCardAccess(s)]]
    <2>1. \A x, y \in DOMAIN s.users : f[x] = f[y] => x = y
        OBVIOUS
    <2>2. LinkedRows(i, s) = {f[x] : x \in DOMAIN s.users}
        BY DEF LinkedRows
    <2>3. DOMAIN f = DOMAIN s.users
        OBVIOUS
    <2> HIDE DEF f
    <2> QED
        BY <1>1, <2>1, <2>2, <2>3, OneRowEach DEF Size
<1>3. Cardinality(AccountRows(i, s)) = Cardinality(HasPassword(s))
    <2> DEFINE f == [u \in HasPassword(s) |-> [userId |-> MemberId(i, u)]]
    <2>1. \A x, y \in HasPassword(s) : f[x] = f[y] => x = y
        BY DEF MemberId
    <2>2. AccountRows(i, s) = {f[x] : x \in HasPassword(s)}
        BY DEF AccountRows
    <2>3. DOMAIN f = HasPassword(s)
        OBVIOUS
    <2> HIDE DEF f
    <2> QED
        BY <1>1, <2>1, <2>2, <2>3, OneRowEach
<1>4. Cardinality(GrantRows(i, s)) = Cardinality(CarriedGrants(s))
    <2> DEFINE grants == s.userCertifications
               f == [g \in CarriedGrants(s) |->
                        [id |-> <<i, g>>, userId |-> MemberId(i, grants[g].userId),
                         certificationId |-> grants[g].certificationId,
                         grantedBy |-> Known(i, s, grants[g].createdBy)]]
    <2>1. \A x, y \in CarriedGrants(s) : f[x] = f[y] => x = y
        OBVIOUS
    <2>2. GrantRows(i, s) = {f[x] : x \in CarriedGrants(s)}
        BY DEF GrantRows
    <2>3. DOMAIN f = CarriedGrants(s)
        OBVIOUS
    <2> HIDE DEF f
    <2> QED
        BY <1>1, <2>1, <2>2, <2>3, OneRowEach
<1>5. Cardinality(PaymentRows(i, s)) = Cardinality(CarriedPayments(s))
    <2> DEFINE f == [p \in CarriedPayments(s) |->
                        [id |-> <<i, p>>, userId |-> MemberId(i, s.payments[p].userId),
                         amountCents |-> AmountToCents(s.payments[p].amount), noted |-> s.payments[p].amount = Null,
                         recordedBy |-> Known(i, s, s.payments[p].createdBy)]]
    <2>1. \A x, y \in CarriedPayments(s) : f[x] = f[y] => x = y
        OBVIOUS
    <2>2. PaymentRows(i, s) = {f[x] : x \in CarriedPayments(s)}
        BY DEF PaymentRows
    <2>3. DOMAIN f = CarriedPayments(s)
        OBVIOUS
    <2> HIDE DEF f
    <2> QED
        BY <1>1, <2>1, <2>2, <2>3, OneRowEach
<1>6. Cardinality(WaiverRows(i, s)) = Cardinality(CarriedContracts(s))
    <2> DEFINE f == [c \in CarriedContracts(s) |->
                        [id |-> <<i, c>>, userId |-> MemberId(i, s.contracts[c].userId),
                         asSigned |-> s.contracts[c].signed,
                         recordedBy |-> Known(i, s, s.contracts[c].createdBy)]]
    <2>1. \A x, y \in CarriedContracts(s) : f[x] = f[y] => x = y
        OBVIOUS
    <2>2. WaiverRows(i, s) = {f[x] : x \in CarriedContracts(s)}
        BY DEF WaiverRows
    <2>3. DOMAIN f = CarriedContracts(s)
        OBVIOUS
    <2> HIDE DEF f
    <2> QED
        BY <1>1, <2>1, <2>2, <2>3, OneRowEach
<1> QED
    BY <1>2, <1>3, <1>4, <1>5, <1>6

\* What holds all of a run is the whole of its snapshot.
LEMMA AllIsWhole ==
    ASSUME NEW i \in Importer, IsLegacy(source[i]), KnowsAll(i), WebInv, HoldsAllOf(i)
    PROVE  WholeOf(i)
<1>0. PICK s : s = source[i]
    OBVIOUS
<1>1. /\ ImportedMembers = LinkedRows(i, s)
      /\ {a \in target.account : a.userId[1] # Web} = AccountRows(i, s)
      /\ {w \in target.waivers : w.id[1] # Web} = WaiverRows(i, s)
      /\ target.certifications = CertificationRows(s)
      /\ target.user_certifications = GrantRows(i, s) /\ target.payments = PaymentRows(i, s)
    BY <1>0 DEF HoldsAllOf, AllRows
<1>2. i # Web /\ snapshot[i] = s /\ IsLegacy(s)
    BY <1>0, WebAssumption DEF KnowsAll
<1>3. /\ Carried(i).user_certifications = CarriedGrants(s) /\ Carried(i).payments = CarriedPayments(s)
      /\ Carried(i).waivers = CarriedContracts(s)
    BY <1>2 DEF Carried
<1>4. ASSUME NEW u \in DOMAIN s.users
      PROVE  Cardinality({m \in target.user : m.id = MemberId(i, u)}) = 1
    <2>1. PICK row \in LinkedRows(i, s) : row.legacyId = u
        BY EachHasItsRow
    <2>2. row \in target.user /\ row.id = MemberId(i, u)
        BY <1>1, <2>1 DEF ImportedMembers, LinkedRows
    <2>3. ASSUME NEW m \in target.user, m.id = MemberId(i, u) PROVE m = row
        <3>1. m.legacyId # Null
            <4>1. m.id[1] = i
                BY <2>3 DEF MemberId
            <4> QED
                BY <1>2, <4>1 DEF WebInv, WebId
        <3>2. m \in LinkedRows(i, s)
            BY <1>1, <3>1 DEF ImportedMembers
        <3> QED
            BY <2>1, <2>3, <3>2 DEF LinkedRows, MemberId
    <2>4. {m \in target.user : m.id = MemberId(i, u)} = {row}
        BY <2>2, <2>3
    <2> QED
        BY <2>4, FS_Singleton
<1>5. {a \in target.account : a.userId[1] = i} = AccountRows(i, s)
    <2>1. \A a \in AccountRows(i, s) : a.userId[1] = i
        BY DEF AccountRows, MemberId
    <2> QED
        BY <1>1, <1>2, <2>1
<1>6. {w \in target.waivers : w.id[1] = i} = WaiverRows(i, s)
    <2>1. \A w \in WaiverRows(i, s) : w.id[1] = i
        BY DEF WaiverRows
    <2> QED
        BY <1>1, <1>2, <2>1
<1>7. DOMAIN s.certifications = {c.id : c \in target.certifications}
    <2>1. \A c \in DOMAIN s.certifications : [id |-> c, slug |-> s.certifications[c].slug] \in target.certifications
        BY <1>1 DEF CertificationRows
    <2>2. \A c \in target.certifications : c.id \in DOMAIN s.certifications
        BY <1>1 DEF CertificationRows
    <2>3. ASSUME NEW c \in DOMAIN s.certifications
          PROVE  c \in {d.id : d \in target.certifications}
        <3>1. PICK d \in target.certifications : d = [id |-> c, slug |-> s.certifications[c].slug]
            BY <2>1
        <3>2. d.id = c
            BY <3>1
        <3> QED
            BY <3>2
    <2> QED
        BY <2>2, <2>3
<1>8. /\ \A r \in target.user_certifications : r.id[1] = i /\ r.userId[1] = i
      /\ \A r \in target.payments : r.id[1] = i /\ r.userId[1] = i
    BY <1>1 DEF GrantRows, PaymentRows, MemberId
<1>9. /\ Cardinality(ImportedMembers) = Size(s.users)
      /\ Cardinality({a \in target.account : a.userId[1] = i}) = Cardinality(HasPassword(s))
      /\ Cardinality(target.user_certifications) = Cardinality(Carried(i).user_certifications)
      /\ Cardinality(target.payments) = Cardinality(Carried(i).payments)
      /\ Cardinality({w \in target.waivers : w.id[1] = i}) = Cardinality(Carried(i).waivers)
    <2>1. /\ Cardinality(LinkedRows(i, s)) = Size(s.users)
          /\ Cardinality(AccountRows(i, s)) = Cardinality(HasPassword(s))
          /\ Cardinality(GrantRows(i, s)) = Cardinality(CarriedGrants(s))
          /\ Cardinality(PaymentRows(i, s)) = Cardinality(CarriedPayments(s))
          /\ Cardinality(WaiverRows(i, s)) = Cardinality(CarriedContracts(s))
        BY <1>2, RowCounts
    <2> QED
        BY <1>1, <1>3, <1>5, <1>6, <2>1
<1> QED
    BY <1>0, <1>4, <1>7, <1>8, <1>9 DEF WholeOf

\* Whatever fails, and whoever imports or signs up meanwhile, the members database
\* holds nothing of the legacy one or the whole of one snapshot, by a run that was not
\* a dry one (main.ts:15-17).
THEOREM ImportsAllOrNothing == Spec => []AllOrNothing
<1>1. IInv => AllOrNothing
    <2> SUFFICES ASSUME IInv PROVE AllOrNothing
        OBVIOUS
    <2>1. CASE HoldsNone
        BY <2>1 DEF HoldsNone, AllOrNothing
    <2>2. ASSUME NEW i \in DOMAIN options, ~DryRun(i), KnowsAll(i), HoldsAllOf(i)
          PROVE  AllOrNothing
        <3>1. i \in Importer /\ IsLegacy(source[i]) /\ WebInv
            BY DEF IInv, Shapes, RunInv
        <3> QED
            BY <2>2, <3>1, AllIsWhole DEF AllOrNothing
    <2> QED
        BY <2>1, <2>2 DEF IInv, CopyInv
<1> QED
    BY <1>1, ImportInvariant, PTL

(***************************************************************************)
(* What a committed run carried.                                           *)
(***************************************************************************)

\* What it found is what the preflight finds in its snapshot.
LEMMA CommittedHolds ==
    ASSUME IInv, NEW i \in DOMAIN options, said[i] = "committed", DOMAIN source[i].users # {}
    PROVE  /\ i \in Importer /\ i # Web /\ IsLegacy(source[i]) /\ Sane(source[i])
           /\ findings[i] = Preflight(source[i]) /\ HoldsAllOf(i) /\ WebInv
<1>1. i \in Importer
    BY DEF IInv, Shapes
<1>2. KnowsAll(i) /\ HoldsAllOf(i) /\ IsLegacy(source[i])
    BY <1>1 DEF IInv, CopyInv, RunInv
<1> QED
    BY <1>1, <1>2, KnowsSane, WebAssumption DEF KnowsAll, IInv

\* The door is as it was when the snapshot of a run that committed was taken: every
\* card at its slot, for its holder, and card access with the holders of a mask of 1
\* (legacy.ts:9-12, transform.ts:84-89).
THEOREM TheDoorIsAsItWas == Spec => []DoorIsAsItWas
<1>1. ASSUME IInv, NEW i \in DOMAIN options, said[i] = "committed", DOMAIN source[i].users # {},
             NEW s, s = source[i]
      PROVE  LET mask(m) == {s.cards[c].permissions : c \in {c \in DOMAIN s.cards :
                                 MemberId(i, s.cards[c].userId) = m.id}}
             IN  /\ {<<c.id, c.userId, c.cardNumber, c.permissions>> : c \in target.cards} =
                        {<<c, MemberId(i, s.cards[c].userId), Canonical[s.cards[c].number],
                           s.cards[c].permissions>> : c \in DOMAIN s.cards}
                 /\ \A m \in ImportedMembers : m.cardAccess <=> 1 \in mask(m)
    <2>1. /\ target.cards = CardRows(i, s) /\ ImportedMembers = LinkedRows(i, s) /\ IsLegacy(s) /\ Sane(s)
        BY <1>1, CommittedHolds DEF HoldsAllOf, AllRows
    <2>2. {<<c.id, c.userId, c.cardNumber, c.permissions>> : c \in target.cards} =
              {<<c, MemberId(i, s.cards[c].userId), Canonical[s.cards[c].number], s.cards[c].permissions>> :
                  c \in DOMAIN s.cards}
        <3> DEFINE row(c) == [id |-> c, cardNumber |-> Canonical[s.cards[c].number],
                              userId |-> MemberId(i, s.cards[c].userId), permissions |-> s.cards[c].permissions]
                   columns(r) == <<r.id, r.userId, r.cardNumber, r.permissions>>
                   there(c) == <<c, MemberId(i, s.cards[c].userId), Canonical[s.cards[c].number],
                                 s.cards[c].permissions>>
        <3>1. \A c \in DOMAIN s.cards : columns(row(c)) = there(c)
            OBVIOUS
        <3>2. target.cards = {row(c) : c \in DOMAIN s.cards}
            BY <2>1 DEF CardRows
        <3> HIDE DEF row, columns, there
        <3>3. {columns(r) : r \in target.cards} = {there(c) : c \in DOMAIN s.cards}
            BY <3>1, <3>2
        <3> QED
            BY <3>3 DEF columns, there
    <2>3. ASSUME NEW m \in ImportedMembers
          PROVE  m.cardAccess <=> 1 \in {s.cards[c].permissions : c \in {c \in DOMAIN s.cards :
                                            MemberId(i, s.cards[c].userId) = m.id}}
        <3>1. PICK u \in DOMAIN s.users : m.id = MemberId(i, u) /\ m.cardAccess = (u \in MembersWithCardAccess(s))
            BY <2>1 DEF LinkedRows
        <3>2. u # Null
            <4>1. i \in Importer
                BY <1>1, CommittedHolds
            <4>2. \A v \in DOMAIN s.users : v # Null
                BY <2>1, <4>1, OwnRows
            <4> QED
                BY <4>2
        <3>3. u \in MembersWithCardAccess(s) <=>
                  \E c \in DOMAIN s.cards : s.cards[c].permissions = 1 /\ s.cards[c].userId = u
            BY <3>2 DEF MembersWithCardAccess
        <3>4. \A c \in DOMAIN s.cards : MemberId(i, s.cards[c].userId) = m.id <=> s.cards[c].userId = u
            BY <3>1 DEF MemberId
        <3> QED
            BY <3>1, <3>3, <3>4
    <2> QED
        BY <2>2, <2>3
<1>2. IInv => DoorIsAsItWas
    BY <1>1 DEF DoorIsAsItWas
<1> QED
    BY <1>2, ImportInvariant, PTL

\* Each row a run that committed left behind, and each grantor, recorder or orienter it
\* dropped, is one its preflight reported, and no card is left behind (main.ts:31-32).
THEOREM NothingLostUnreported == Spec => []NothingIsLostUnreported
<1>1. ASSUME IInv, NEW i \in DOMAIN options, said[i] = "committed", DOMAIN source[i].users # {},
             NEW s, s = source[i]
      PROVE  LET found(check) == UNION {f.ids : f \in {f \in findings[i] : f.check = check}}
                 kept(t) == {r.id[2] : r \in {r \in target[t] : r.id[1] = i}}
             IN  /\ DOMAIN s.userCertifications \ kept("user_certifications")
                        \subseteq found("orphan certification grant")
                 /\ DOMAIN s.payments \ kept("payments")
                        \subseteq found("orphan payment") \cup found("payment with no date")
                 /\ DOMAIN s.contracts \ kept("waivers") \subseteq found("orphan signed release")
                 /\ {c.id : c \in target.cards} = DOMAIN s.cards
                 /\ \A g \in target.user_certifications :
                        g.grantedBy = Null /\ s.userCertifications[g.id[2]].createdBy # Null
                        => g.id[2] \in found("granted by an unknown member")
                 /\ \A p \in target.payments :
                        p.recordedBy = Null /\ s.payments[p.id[2]].createdBy # Null
                        => p.id[2] \in found("payment recorded by an unknown member")
                 /\ \A m \in ImportedMembers :
                        m.orientedBy = Null /\ s.users[m.legacyId].orientedBy # Null
                        => m.legacyId \in found("oriented by an unknown member")
    <2> DEFINE found(check) == UNION {f.ids : f \in {f \in findings[i] : f.check = check}}
               kept(t) == {r.id[2] : r \in {r \in target[t] : r.id[1] = i}}
    <2>1. /\ target.cards = CardRows(i, s) /\ ImportedMembers = LinkedRows(i, s)
          /\ target.user_certifications = GrantRows(i, s) /\ target.payments = PaymentRows(i, s)
          /\ {w \in target.waivers : w.id[1] # Web} = WaiverRows(i, s) /\ i # Web
          /\ findings[i] = Preflight(s)
        BY <1>1, CommittedHolds DEF HoldsAllOf, AllRows
    <2>2. ASSUME NEW severity, NEW check, NEW ids, NEW orphan, Report(severity, check, ids, orphan) \subseteq Preflight(s)
          PROVE  ids \subseteq found(check)
        <3>1. ids \subseteq FoundBy(Preflight(s), check)
            BY <2>2, Reported
        <3> QED
            BY <2>1, <3>1 DEF FoundBy
    <2>3. /\ OrphanGrants(s) \subseteq found("orphan certification grant")
          /\ {g \in DOMAIN s.userCertifications :
                 s.userCertifications[g].createdBy \notin DOMAIN s.users \cup {Null}}
                 \subseteq found("granted by an unknown member")
        <3>1. CheckCertificationGrants(s) \subseteq Preflight(s)
            BY DEF Preflight
        <3> HIDE DEF found
        <3> QED
            BY <2>2, <3>1 DEF CheckCertificationGrants, RefuseOrphan, Notice
    <2>4. /\ {p \in DOMAIN s.payments : s.payments[p].userId \notin DOMAIN s.users} \subseteq found("orphan payment")
          /\ {p \in DOMAIN s.payments : ~s.payments[p].dated} \subseteq found("payment with no date")
          /\ {p \in DOMAIN s.payments : s.payments[p].createdBy \notin DOMAIN s.users \cup {Null}}
                 \subseteq found("payment recorded by an unknown member")
        <3>1. CheckPaymentOwnership(s.payments, DOMAIN s.users) \subseteq Preflight(s)
            BY DEF Preflight
        <3> HIDE DEF found
        <3> QED
            BY <2>2, <3>1 DEF CheckPaymentOwnership, RefuseOrphan, Notice
    <2>5. {c \in DOMAIN s.contracts : s.contracts[c].userId \notin DOMAIN s.users} \subseteq found("orphan signed release")
        <3>1. CheckContracts(s.contracts, DOMAIN s.users) \subseteq Preflight(s)
            BY DEF Preflight
        <3> HIDE DEF found
        <3> QED
            BY <2>2, <3>1 DEF CheckContracts, RefuseOrphan
    <2>6. {u \in DOMAIN s.users : s.users[u].orientedBy \notin DOMAIN s.users \cup {Null}}
              \subseteq found("oriented by an unknown member")
        <3>1. CheckMemberCredentials(s.users) \subseteq Preflight(s)
            BY DEF Preflight
        <3> HIDE DEF found
        <3> QED
            BY <2>2, <3>1 DEF CheckMemberCredentials, Notice
    <2> HIDE DEF found
    <2>7. DOMAIN s.userCertifications \ kept("user_certifications") \subseteq OrphanGrants(s)
        <3>1. ASSUME NEW g \in CarriedGrants(s) PROVE g \in kept("user_certifications")
            <4>1. PICK r \in target.user_certifications : r = [id |-> <<i, g>>, userId |-> MemberId(i, s.userCertifications[g].userId),
                                      certificationId |-> s.userCertifications[g].certificationId,
                                      grantedBy |-> Known(i, s, s.userCertifications[g].createdBy)]
                BY <2>1 DEF GrantRows
            <4>2. r.id[1] = i /\ r.id[2] = g
                BY <4>1
            <4> QED
                BY <4>2
        <3> QED
            BY <3>1 DEF CarriedGrants, OrphanGrants
    <2>8. DOMAIN s.payments \ kept("payments")
              \subseteq {p \in DOMAIN s.payments : s.payments[p].userId \notin DOMAIN s.users}
                  \cup {p \in DOMAIN s.payments : ~s.payments[p].dated}
        <3>1. ASSUME NEW p \in CarriedPayments(s) PROVE p \in kept("payments")
            <4>1. PICK r \in target.payments : r = [id |-> <<i, p>>, userId |-> MemberId(i, s.payments[p].userId),
                                      amountCents |-> AmountToCents(s.payments[p].amount),
                                      noted |-> s.payments[p].amount = Null,
                                      recordedBy |-> Known(i, s, s.payments[p].createdBy)]
                BY <2>1 DEF PaymentRows
            <4>2. r.id[1] = i /\ r.id[2] = p
                BY <4>1
            <4> QED
                BY <4>2
        <3> QED
            BY <3>1 DEF CarriedPayments
    <2>9. DOMAIN s.contracts \ kept("waivers")
              \subseteq {c \in DOMAIN s.contracts : s.contracts[c].userId \notin DOMAIN s.users}
        <3>1. ASSUME NEW c \in CarriedContracts(s) PROVE c \in kept("waivers")
            <4>1. PICK r \in target.waivers : r = [id |-> <<i, c>>, userId |-> MemberId(i, s.contracts[c].userId),
                                      asSigned |-> s.contracts[c].signed,
                                      recordedBy |-> Known(i, s, s.contracts[c].createdBy)]
                BY <2>1 DEF WaiverRows
            <4>2. r.id[1] = i /\ r.id[2] = c
                BY <4>1
            <4> QED
                BY <4>2
        <3> QED
            BY <3>1 DEF CarriedContracts
    <2>10. {c.id : c \in target.cards} = DOMAIN s.cards
        <3> DEFINE row(c) == [id |-> c, cardNumber |-> Canonical[s.cards[c].number],
                              userId |-> MemberId(i, s.cards[c].userId), permissions |-> s.cards[c].permissions]
        <3>1. \A c \in DOMAIN s.cards : row(c).id = c
            OBVIOUS
        <3>2. target.cards = {row(c) : c \in DOMAIN s.cards}
            BY <2>1 DEF CardRows
        <3> HIDE DEF row
        <3> QED
            BY <3>1, <3>2
    <2>11. \A u : Known(i, s, u) = Null => u \notin DOMAIN s.users
        <3>1. i \in Importer /\ IsLegacy(s)
            BY <1>1, CommittedHolds
        <3>2. \A u \in DOMAIN s.users : u \in Int
            BY <3>1, OwnRows
        <3>3. \A u \in DOMAIN s.users : <<i, u>> # Null
            BY <3>1, <3>2, NullAssumption
        <3> QED
            BY <3>3 DEF Known, MemberId
    <2>12. ASSUME NEW g \in target.user_certifications, g.grantedBy = Null,
                  s.userCertifications[g.id[2]].createdBy # Null
           PROVE  g.id[2] \in found("granted by an unknown member")
        <3>1. PICK h \in CarriedGrants(s) : g.id = <<i, h>> /\ g.grantedBy = Known(i, s, s.userCertifications[h].createdBy)
            BY <2>1 DEF GrantRows
        <3> QED
            <4>1. g.id[2] = h /\ h \in DOMAIN s.userCertifications
                BY <3>1 DEF CarriedGrants
            <4>2. s.userCertifications[h].createdBy \notin DOMAIN s.users \cup {Null}
                BY <2>11, <2>12, <3>1, <4>1
            <4> QED
                BY <2>3, <4>1, <4>2
    <2>13. ASSUME NEW p \in target.payments, p.recordedBy = Null, s.payments[p.id[2]].createdBy # Null
           PROVE  p.id[2] \in found("payment recorded by an unknown member")
        <3>1. PICK q \in CarriedPayments(s) : p.id = <<i, q>> /\ p.recordedBy = Known(i, s, s.payments[q].createdBy)
            BY <2>1 DEF PaymentRows
        <3> QED
            <4>1. p.id[2] = q /\ q \in DOMAIN s.payments
                BY <3>1 DEF CarriedPayments
            <4>2. s.payments[q].createdBy \notin DOMAIN s.users \cup {Null}
                BY <2>11, <2>13, <3>1, <4>1
            <4> QED
                BY <2>4, <4>1, <4>2
    <2>14. ASSUME NEW m \in ImportedMembers, m.orientedBy = Null, s.users[m.legacyId].orientedBy # Null
           PROVE  m.legacyId \in found("oriented by an unknown member")
        <3>1. PICK u \in DOMAIN s.users : m.legacyId = u /\ m.orientedBy = Known(i, s, s.users[u].orientedBy)
            BY <2>1 DEF LinkedRows
        <3> QED
            BY <2>6, <2>11, <2>14, <3>1
    <2> HIDE DEF kept
    <2>15. /\ DOMAIN s.userCertifications \ kept("user_certifications") \subseteq found("orphan certification grant")
           /\ DOMAIN s.payments \ kept("payments") \subseteq found("orphan payment") \cup found("payment with no date")
           /\ DOMAIN s.contracts \ kept("waivers") \subseteq found("orphan signed release")
        BY <2>3, <2>4, <2>5, <2>7, <2>8, <2>9
    <2> QED
        BY <2>10, <2>12, <2>13, <2>14, <2>15 DEF found, kept
<1>2. IInv => NothingIsLostUnreported
    BY <1>1 DEF NothingIsLostUnreported
<1> QED
    BY <1>2, ImportInvariant, PTL

(***************************************************************************)
(* A run nothing gets in the way of.                                       *)
(***************************************************************************)

\* A run with nobody else about finds the database empty, and sees its own rows alone.
LEMMA LoneRun ==
    ASSUME IInv, AloneInv, NEW i \in Importer, Alone(i), step[i] \in Loading
    PROVE  /\ \A t \in Table : Visible(i, t) = Written(i, t)
           /\ KnowsAll(i) /\ IsLegacy(source[i]) /\ Sane(source[i])
           /\ HasPassword(source[i]) = Credentials(source[i])
<1>1. /\ RunInv(i) /\ KnowsAll(i) /\ IsLegacy(source[i]) /\ Open(i)
      /\ \A t \in Table : tx[i][t] = Written(i, t)
    BY DEF IInv, RunInv
<1>2. Sane(source[i])
    BY <1>1, KnowsSane
<1>3. HoldsNone
    <2>1. DOMAIN options = {i} /\ step[i] # "ended"
        BY DEF Alone, Loading
    <2> QED
        BY <2>1 DEF IInv, CopyInv
<1>4. target.user = {}
    BY <1>3 DEF HoldsNone, NothingImported, ImportedMembers, AloneInv, Alone
<1>5. target.account = {} /\ target.waivers = {}
    BY <1>3, <1>4 DEF HoldsNone, IInv, WebInv
<1>6. \A t \in Table : target[t] = {}
    BY <1>3, <1>4, <1>5 DEF HoldsNone, NothingImported, Table
<1>7. HasPassword(source[i]) = Credentials(source[i])
    BY DEF HasPassword, Credentials, BlankHash, Alone
<1> QED
    BY <1>1, <1>2, <1>6, <1>7 DEF Visible

\* No two rows a sound snapshot gives a table share a key.
LEMMA OwnKeys ==
    ASSUME NEW i \in Importer, NEW s, IsLegacy(s), Sane(s)
    PROVE  /\ \A r, q \in UserRows(i, s) : Clashes(r, q, KeysOf("user")) => r = q
           /\ \A r, q \in AccountRows(i, s) : Clashes(r, q, KeysOf("account")) => r = q
           /\ \A r, q \in CardRows(i, s) : Clashes(r, q, KeysOf("cards")) => r = q
           /\ \A r, q \in CertificationRows(s) : Clashes(r, q, KeysOf("certifications")) => r = q
           /\ \A r, q \in GrantRows(i, s) : Clashes(r, q, KeysOf("user_certifications")) => r = q
           /\ \A r, q \in PaymentRows(i, s) : Clashes(r, q, KeysOf("payments")) => r = q
           /\ \A r, q \in WaiverRows(i, s) : Clashes(r, q, KeysOf("waivers")) => r = q
<1>1. /\ KeysOf("user") = {"id", "email", "legacyId"} /\ KeysOf("account") = {"userId"}
      /\ KeysOf("cards") = {"id", "cardNumber"} /\ KeysOf("certifications") = {"id", "slug"}
      /\ KeysOf("user_certifications") = {"id"} /\ KeysOf("payments") = {"id"} /\ KeysOf("waivers") = {"id"}
    BY DEF KeysOf
<1>2. \A r, q \in UserRows(i, s) : r.id = q.id \/ r.email = q.email \/ r.legacyId = q.legacyId => r = q
    BY DEF UserRows, MemberId, Sane
<1>3. \A r, q \in AccountRows(i, s) : r.userId = q.userId => r = q
    BY DEF AccountRows
<1>4. \A r, q \in CardRows(i, s) : r.id = q.id \/ r.cardNumber = q.cardNumber => r = q
    BY DEF CardRows, Sane
<1>5. \A r, q \in CertificationRows(s) : r.id = q.id \/ r.slug = q.slug => r = q
    BY DEF CertificationRows, Sane
<1>6. \A r, q \in GrantRows(i, s) : r.id = q.id => r = q
    BY DEF GrantRows
<1>7. \A r, q \in PaymentRows(i, s) : r.id = q.id => r = q
    BY DEF PaymentRows
<1>8. \A r, q \in WaiverRows(i, s) : r.id = q.id => r = q
    BY DEF WaiverRows
<1> QED
    BY <1>1, <1>2, <1>3, <1>4, <1>5, <1>6, <1>7, <1>8 DEF Clashes

\* What a sound snapshot gives the tables names members and tools it gives too, and
\* has no null and no amount a column cannot hold.
LEMMA OwnReferences ==
    ASSUME NEW i \in Importer, NEW s, IsLegacy(s), Sane(s)
    PROVE  /\ {m.id : m \in UserRows(i, s)} \subseteq {m.id : m \in LinkedRows(i, s)}
           /\ \A r \in AccountRows(i, s) \cup CardRows(i, s) \cup GrantRows(i, s)
                           \cup PaymentRows(i, s) \cup WaiverRows(i, s) :
                  r.userId \in {m.id : m \in UserRows(i, s)}
           /\ \A r \in CardRows(i, s) : r.permissions # Null
           /\ \A r \in CertificationRows(s) : r.slug # Null
           /\ \A r \in GrantRows(i, s) : \E c \in CertificationRows(s) : c.id = r.certificationId
           /\ \A r \in PaymentRows(i, s) : r.amountCents \in (-IntegerLimit - 1)..IntegerLimit
<1>1. {m.id : m \in UserRows(i, s)} = {<<i, u>> : u \in DOMAIN s.users}
    <2> DEFINE row(u) == [id |-> MemberId(i, u), legacyId |-> u, email |-> CanonicalEmail[s.users[u].email],
                          orientedBy |-> Null, cardAccess |-> u \in MembersWithCardAccess(s)]
    <2>1. \A u \in DOMAIN s.users : row(u).id = <<i, u>>
        BY DEF MemberId
    <2>2. UserRows(i, s) = {row(u) : u \in DOMAIN s.users}
        BY DEF UserRows
    <2> HIDE DEF row
    <2> QED
        BY <2>1, <2>2
<1>2. \A u \in DOMAIN s.users : \E m \in LinkedRows(i, s) : m.id = <<i, u>>
    <2>1. ASSUME NEW u \in DOMAIN s.users PROVE \E m \in LinkedRows(i, s) : m.id = <<i, u>>
        <3>1. PICK m \in LinkedRows(i, s) : m.legacyId = u
            BY EachHasItsRow
        <3>2. m.id = <<i, u>>
            BY <3>1 DEF LinkedRows, MemberId
        <3> QED
            BY <3>2
    <2> QED
        BY <2>1
<1>3. /\ \A r \in AccountRows(i, s) : \E u \in DOMAIN s.users : r.userId = <<i, u>>
      /\ \A r \in CardRows(i, s) : \E u \in DOMAIN s.users : r.userId = <<i, u>>
    BY DEF AccountRows, CardRows, HasPassword, MemberId, Sane
<1>4. \A r \in GrantRows(i, s) : /\ \E u \in DOMAIN s.users : r.userId = <<i, u>>
                                 /\ r.certificationId \in DOMAIN s.certifications
    BY DEF GrantRows, CarriedGrants, MemberId
<1>5. \A r \in PaymentRows(i, s) : \E u \in DOMAIN s.users : r.userId = <<i, u>>
    BY DEF PaymentRows, CarriedPayments, MemberId
<1>6. \A r \in WaiverRows(i, s) : \E u \in DOMAIN s.users : r.userId = <<i, u>>
    BY DEF WaiverRows, CarriedContracts, MemberId
<1>7. /\ \A r \in CardRows(i, s) : r.permissions # Null
      /\ \A r \in CertificationRows(s) : r.slug # Null
    BY DEF CardRows, CertificationRows, Sane
<1>8. \A c \in DOMAIN s.certifications : \E row \in CertificationRows(s) : row.id = c
    <2>1. ASSUME NEW c \in DOMAIN s.certifications PROVE \E row \in CertificationRows(s) : row.id = c
        <3>1. [id |-> c, slug |-> s.certifications[c].slug] \in CertificationRows(s)
            BY DEF CertificationRows
        <3> QED
            BY <3>1
    <2> QED
        BY <2>1
<1>9. \A p \in DOMAIN s.payments : AmountToCents(s.payments[p].amount) \in (-IntegerLimit - 1)..IntegerLimit
    <2>1. ASSUME NEW a, FitsInCents(a) PROVE AmountToCents(a) \in (-IntegerLimit - 1)..IntegerLimit
        BY <2>1, LimitsAssumption DEF FitsInCents, AmountToCents
    <2> QED
        BY <2>1 DEF Sane
<1>10. \A r \in PaymentRows(i, s) : r.amountCents \in (-IntegerLimit - 1)..IntegerLimit
    BY <1>9 DEF PaymentRows, CarriedPayments
<1>11. {m.id : m \in UserRows(i, s)} \subseteq {m.id : m \in LinkedRows(i, s)}
    BY <1>1, <1>2
<1>12. \A r \in AccountRows(i, s) \cup CardRows(i, s) \cup GrantRows(i, s)
                    \cup PaymentRows(i, s) \cup WaiverRows(i, s) :
           r.userId \in {m.id : m \in UserRows(i, s)}
    BY <1>1, <1>3, <1>4, <1>5, <1>6
<1>13. \A r \in GrantRows(i, s) : \E c \in CertificationRows(s) : c.id = r.certificationId
    BY <1>4, <1>8
<1> QED
    BY <1>7, <1>10, <1>11, <1>12, <1>13

\* What a lone run inserts breaks no constraint.
LEMMA LoneInsertHolds ==
    ASSUME IInv, AloneInv, NEW i \in Importer, Alone(i), step[i] = "load", todo[i] # <<>>,
           NEW t, t = Head(todo[i]), t \in DOMAIN Inserts(i)
    PROVE  ~BreaksConstraint(i, t, Inserts(i)[t])
<1>1. PICK s : s = source[i]
    OBVIOUS
<1>2. /\ \A u \in Table : Visible(i, u) = Written(i, u)
      /\ snapshot[i] = s /\ IsLegacy(s) /\ Sane(s)
    BY <1>1, LoneRun DEF KnowsAll, Loading
<1>3. /\ t \in Table /\ t \in Items(i)
      /\ t # "user" => "user" \notin Items(i)
      /\ t = "user_certifications" => "certifications" \notin Items(i)
    <2>1. t \in Table
        BY DEF Inserts, Table
    <2> QED
        BY <2>1, LoadLeft DEF IInv
<1>4. Visible(i, t) = {}
    BY <1>2, <1>3 DEF Written
<1>5. t # "user" => \A r \in {m.id : m \in UserRows(i, s)} : r \in {m.id : m \in Visible(i, "user")}
    <2>1. t # "user" => Visible(i, "user") \in {UserRows(i, s), LinkedRows(i, s)}
        BY <1>1, <1>2, <1>3 DEF Written, AllRows, Table
    <2> QED
        BY <1>2, <2>1, OwnReferences
<1>6. t = "user_certifications" => Visible(i, "certifications") = CertificationRows(s)
    BY <1>1, <1>2, <1>3 DEF Written, AllRows, Table
<1>7. PICK rows : rows = Inserts(i)[t]
    OBVIOUS
<1>8. /\ t = "user" => rows = UserRows(i, s)
      /\ t = "account" => rows = AccountRows(i, s)
      /\ t = "cards" => rows = CardRows(i, s)
      /\ t = "certifications" => rows = CertificationRows(s)
      /\ t = "user_certifications" => rows = GrantRows(i, s)
      /\ t = "payments" => rows = PaymentRows(i, s)
      /\ t = "waivers" => rows = WaiverRows(i, s)
    BY <1>2, <1>7 DEF Inserts
<1>9. \A r, q \in rows : Clashes(r, q, KeysOf(t)) => r = q
    BY <1>2, <1>3, <1>8, OwnKeys DEF Table
<1>10. t \notin {"user", "certifications"} => \A r \in rows : r.userId \in {m.id : m \in Visible(i, "user")}
    <2>1. t \notin {"user", "certifications"} => \A r \in rows : r.userId \in {m.id : m \in UserRows(i, s)}
        BY <1>2, <1>3, <1>8, OwnReferences DEF Table
    <2> QED
        BY <1>5, <2>1
<1>11. /\ t = "cards" => \A r \in rows : r.permissions # Null
       /\ t = "certifications" => \A r \in rows : r.slug # Null
       /\ t = "user_certifications" =>
              \A r \in rows : \E c \in Visible(i, "certifications") : c.id = r.certificationId
       /\ t = "payments" => \A r \in rows : r.amountCents \in (-IntegerLimit - 1)..IntegerLimit
    BY <1>2, <1>6, <1>8, OwnReferences
<1> HIDE DEF Inserts
<1> QED
    BY <1>4, <1>7, <1>9, <1>10, <1>11 DEF BreaksConstraint

\* A card of each slot of the snapshot, and no other.
LEMMA SlotsOfCards ==
    ASSUME NEW i, NEW s
    PROVE  {c.id : c \in CardRows(i, s)} = DOMAIN s.cards
<1> DEFINE row(c) == [id |-> c, cardNumber |-> Canonical[s.cards[c].number],
                      userId |-> MemberId(i, s.cards[c].userId), permissions |-> s.cards[c].permissions]
<1>1. \A c \in DOMAIN s.cards : row(c).id = c
    OBVIOUS
<1>2. CardRows(i, s) = {row(c) : c \in DOMAIN s.cards}
    BY DEF CardRows
<1> HIDE DEF row
<1> QED
    BY <1>1, <1>2

\* A lone run finds every slot where it put it.
LEMMA LoneSlotsHold ==
    ASSUME IInv, AloneInv, NEW i \in Importer, Alone(i), step[i] = "load", todo[i] # <<>>, Head(todo[i]) = "slots"
    PROVE  {c.id : c \in Visible(i, "cards")} = DOMAIN snapshot[i].cards
<1>1. /\ \A u \in Table : Visible(i, u) = Written(i, u)
      /\ snapshot[i] = source[i]
    BY LoneRun DEF KnowsAll, Loading
<1>2. "cards" \notin Items(i)
    BY LoadLeft DEF IInv
<1>3. Visible(i, "cards") = CardRows(i, source[i])
    BY <1>1, <1>2 DEF Written, AllRows, Table
<1> QED
    BY <1>1, <1>3, SlotsOfCards

\* The counts of the rows whose lines RowCounts leaves out.
LEMMA DoorCounts ==
    ASSUME NEW i, NEW s, IsLegacy(s), Sane(s), i \in Importer
    PROVE  /\ Cardinality(CardRows(i, s)) = Size(s.cards)
           /\ Cardinality(CertificationRows(s)) = Size(s.certifications)
           /\ Cardinality({m \in LinkedRows(i, s) : m.cardAccess}) = Cardinality(MembersWithCardAccess(s))
<1>1. Cardinality(CardRows(i, s)) = Size(s.cards)
    <2> DEFINE f == [c \in DOMAIN s.cards |->
                        [id |-> c, cardNumber |-> Canonical[s.cards[c].number],
                         userId |-> MemberId(i, s.cards[c].userId), permissions |-> s.cards[c].permissions]]
    <2>1. \A x, y \in DOMAIN s.cards : f[x] = f[y] => x = y
        OBVIOUS
    <2>2. CardRows(i, s) = {f[x] : x \in DOMAIN s.cards}
        BY DEF CardRows
    <2>3. DOMAIN f = DOMAIN s.cards /\ IsFiniteSet(DOMAIN s.cards)
        BY LegacyFinite DEF LegacyTables
    <2> HIDE DEF f
    <2> QED
        BY <2>1, <2>2, <2>3, OneRowEach DEF Size
<1>2. Cardinality(CertificationRows(s)) = Size(s.certifications)
    <2> DEFINE f == [c \in DOMAIN s.certifications |-> [id |-> c, slug |-> s.certifications[c].slug]]
    <2>1. \A x, y \in DOMAIN s.certifications : f[x] = f[y] => x = y
        OBVIOUS
    <2>2. CertificationRows(s) = {f[x] : x \in DOMAIN s.certifications}
        BY DEF CertificationRows
    <2>3. DOMAIN f = DOMAIN s.certifications /\ IsFiniteSet(DOMAIN s.certifications)
        BY LegacyFinite DEF LegacyTables
    <2> HIDE DEF f
    <2> QED
        BY <2>1, <2>2, <2>3, OneRowEach DEF Size
<1>3. Cardinality({m \in LinkedRows(i, s) : m.cardAccess}) = Cardinality(MembersWithCardAccess(s))
    <2>1. MembersWithCardAccess(s) \subseteq DOMAIN s.users
        BY DEF MembersWithCardAccess, Sane
    <2> DEFINE row(u) == [id |-> MemberId(i, u), legacyId |-> u, email |-> CanonicalEmail[s.users[u].email],
                          orientedBy |-> Known(i, s, s.users[u].orientedBy),
                          cardAccess |-> u \in MembersWithCardAccess(s)]
               f == [u \in MembersWithCardAccess(s) |-> row(u)]
    <2>2. \A u : row(u).legacyId = u /\ row(u).cardAccess = (u \in MembersWithCardAccess(s))
        OBVIOUS
    <2>3. LinkedRows(i, s) = {row(u) : u \in DOMAIN s.users}
        BY DEF LinkedRows
    <2> HIDE DEF row
    <2>4. {m \in LinkedRows(i, s) : m.cardAccess} = {f[u] : u \in MembersWithCardAccess(s)}
        BY <2>1, <2>2, <2>3
    <2>5. \A x, y \in MembersWithCardAccess(s) : f[x] = f[y] => x = y
        BY <2>2
    <2>6. DOMAIN f = MembersWithCardAccess(s) /\ IsFiniteSet(MembersWithCardAccess(s))
        BY <2>1, LegacyFinite DEF LegacyTables
    <2> HIDE DEF f
    <2> QED
        BY <2>4, <2>5, <2>6, OneRowEach
<1> QED
    BY <1>1, <1>2, <1>3

\* What is carried of a table and what is left behind are all of it.
LEMMA CarriedAndLeft ==
    ASSUME NEW s, IsLegacy(s), NEW t \in DOMAIN LegacyTable
    PROVE  Cardinality(CarriedOf(s)[t]) + LeftBehind(s, t) = Size(s[LegacyTable[t]])
<1>1. LegacyTable[t] \in LegacyTables /\ CarriedOf(s)[t] \subseteq DOMAIN s[LegacyTable[t]]
    BY DEF LegacyTable, LegacyTables, CarriedOf, CarriedGrants, CarriedPayments, CarriedContracts
<1>2. IsFiniteSet(CarriedOf(s)[t]) /\ IsFiniteSet(DOMAIN s[LegacyTable[t]])
    BY <1>1, LegacyFinite
<1>3. Cardinality(CarriedOf(s)[t]) \in Nat /\ Size(s[LegacyTable[t]]) \in Nat
    BY <1>2, FS_CardinalityType DEF Size
<1> QED
    BY <1>3 DEF LeftBehind

\* Each line a lone run counts agrees with what the legacy database counted.
LEMMA LoneLinesAgree ==
    ASSUME IInv, SkippedInv, AloneInv, NEW i \in Importer, Alone(i), step[i] = "count", NEW line \in Lines
    PROVE  counts[i][line] = Cardinality(Imported(i, line))
                                 + IF line \in DOMAIN skipped[i] THEN skipped[i][line] ELSE 0
<1>1. PICK s : s = source[i]
    OBVIOUS
<1>2. /\ \A u \in Table : Visible(i, u) = AllRows(i)[u]
      /\ counts[i] = CountsOf(s) /\ IsLegacy(s) /\ Sane(s) /\ HasPassword(s) = Credentials(s)
    BY <1>1, LoneRun DEF KnowsAll, Loading, Written
<1>3. skipped[i] = [t \in DOMAIN LegacyTable |-> LeftBehind(s, t)]
    BY <1>1 DEF SkippedInv, SkippedSoFar, Past
<1>4. DOMAIN LegacyTable = {"user_certifications", "payments", "waivers"}
    BY DEF LegacyTable
<1>5. /\ Cardinality(LinkedRows(i, s)) = Size(s.users)
      /\ Cardinality(AccountRows(i, s)) = Cardinality(Credentials(s))
      /\ Cardinality(CardRows(i, s)) = Size(s.cards)
      /\ Cardinality(CertificationRows(s)) = Size(s.certifications)
      /\ Cardinality({m \in LinkedRows(i, s) : m.cardAccess}) = Cardinality(MembersWithCardAccess(s))
      /\ Cardinality(GrantRows(i, s)) = Cardinality(CarriedGrants(s))
      /\ Cardinality(PaymentRows(i, s)) = Cardinality(CarriedPayments(s))
      /\ Cardinality(WaiverRows(i, s)) = Cardinality(CarriedContracts(s))
    BY <1>2, RowCounts, DoorCounts
<1>6. /\ Size(s.users) \in Nat /\ Size(s.cards) \in Nat /\ Size(s.certifications) \in Nat
      /\ Cardinality(Credentials(s)) \in Nat /\ Cardinality(MembersWithCardAccess(s)) \in Nat
    <2>1. /\ IsFiniteSet(DOMAIN s.users) /\ IsFiniteSet(DOMAIN s.cards) /\ IsFiniteSet(DOMAIN s.certifications)
          /\ IsFiniteSet(Credentials(s)) /\ IsFiniteSet(MembersWithCardAccess(s))
        <3>1. Credentials(s) \subseteq DOMAIN s.users /\ MembersWithCardAccess(s) \subseteq DOMAIN s.users
            <4>1. \A c \in DOMAIN s.cards : s.cards[c].userId \in DOMAIN s.users
                BY <1>2 DEF Sane
            <4> QED
                BY <4>1 DEF Credentials, MembersWithCardAccess
        <3> QED
            BY <1>2, <3>1, LegacyFinite DEF LegacyTables
    <2> QED
        BY <2>1, FS_CardinalityType DEF Size
<1>7. line = "cardAccess" => counts[i][line] = Cardinality(MembersWithCardAccess(s))
    BY <1>2 DEF CountsOf, MembersWithCardAccess
<1>8. CASE line = "cardAccess"
    <2>1. Imported(i, line) = {m \in LinkedRows(i, s) : m.cardAccess}
        BY <1>1, <1>2, <1>8 DEF Imported, AllRows, Table
    <2>2. line \notin DOMAIN skipped[i]
        BY <1>3, <1>4, <1>8
    <2>3. Cardinality(Imported(i, line)) = counts[i][line] /\ counts[i][line] \in Nat
        BY <1>5, <1>6, <1>7, <1>8, <2>1
    <2> QED
        BY <2>2, <2>3
<1>9. ASSUME line # "cardAccess" PROVE line \in Table /\ Imported(i, line) = AllRows(i)[line]
    BY <1>2, <1>9 DEF Imported, Lines
<1>10. CASE line \in {"user", "account", "cards", "certifications"}
    <2>1. Cardinality(Imported(i, line)) = counts[i][line] /\ counts[i][line] \in Nat
        BY <1>1, <1>2, <1>5, <1>6, <1>9, <1>10 DEF AllRows, CountsOf
    <2>2. line \notin DOMAIN skipped[i]
        BY <1>3, <1>4, <1>10
    <2> QED
        BY <2>1, <2>2
<1>11. CASE line \in DOMAIN LegacyTable
    <2>1. Cardinality(Imported(i, line)) = Cardinality(CarriedOf(s)[line])
        BY <1>1, <1>4, <1>5, <1>9, <1>11 DEF AllRows, CarriedOf
    <2>2. counts[i][line] = Size(s[LegacyTable[line]])
        BY <1>2, <1>4, <1>11 DEF CountsOf, LegacyTable
    <2>3. line \in DOMAIN skipped[i] /\ skipped[i][line] = LeftBehind(s, line)
        BY <1>3, <1>11
    <2> QED
        BY <1>2, <1>11, <2>1, <2>2, <2>3, CarriedAndLeft
<1> QED
    BY <1>4, <1>8, <1>10, <1>11 DEF Lines, Table

(***************************************************************************)
(* What is left behind, and what a lone run says.                          *)
(***************************************************************************)

\* The count of what is left behind follows the tables the load is past.
LEMMA SkippedOfRun ==
    ASSUME Shapes, NEW i \in Importer, RunInv(i), OneRunSteps(i), step'[i] # "ended",
           skipped[i] = SkippedSoFar(i)
    PROVE  skipped'[i] = SkippedSoFar(i)'
<1>1. DOMAIN LegacyTable = {"user_certifications", "payments", "waivers"}
    BY DEF LegacyTable
<1>2. CASE BeginReadOnly(i) \/ ReadTable(i) \/ CheckSnapshot(i)
    <2>1. /\ skipped' = skipped /\ step[i] \in {"begin", "read"} /\ step'[i] \in {"read", "empty"}
        BY <1>2 DEF BeginReadOnly, ReadTable, CheckSnapshot, Fail, End, GoTo, Continue, Shapes
    <2>2. \A t : ~Past(i, t) /\ ~Past(i, t)'
        BY <2>1 DEF Past
    <2> QED
        BY <2>1, <2>2 DEF SkippedSoFar
<1>3. CASE AssertTableEmpty(i)
    <2>1. /\ skipped' = skipped /\ step[i] = "empty"
          /\ step'[i] = "empty" \/ (step'[i] = "load" /\ todo'[i] = LoadOrder)
        BY <1>3 DEF AssertTableEmpty, Fail, End, GoTo, Continue, Shapes
    <2>2. step'[i] = "load" => Items(i)' = LoadItems
        BY <2>1, Orders DEF Items, Elements
    <2>3. \A t \in DOMAIN LegacyTable : ~Past(i, t) /\ ~Past(i, t)'
        BY <1>1, <2>1, <2>2 DEF Past, LoadItems, Table
    <2> QED
        BY <2>1, <2>3 DEF SkippedSoFar
<1>4. ASSUME NEW t, step[i] = "load", step'[i] = "load", todo[i] # <<>>, t = Head(todo[i]),
             todo'[i] = Tail(todo[i]), source' = source
      PROVE  \A u \in DOMAIN LegacyTable : Past(i, u)' <=> Past(i, u) \/ u = t
    <2>1. Items(i)' = Items(i) \ {t} /\ t \in Items(i)
        <3>1. Items(i)' = Elements(todo'[i])
            BY DEF Items, Elements
        <3> QED
            BY <1>4, <3>1, LoadLeft
    <2> QED
        BY <1>4, <2>1 DEF Past
<1>5. CASE InsertRows(i)
    <2>0. PICK t : t = Head(todo[i])
        OBVIOUS
    <2>1. step[i] = "load" /\ step'[i] = "load" /\ source' = source
        BY <1>5 DEF InsertRows, Fail, End, GoTo, Continue, Shapes, reading
    <2>2. /\ todo[i] # <<>> /\ t \in Table /\ todo'[i] = Tail(todo[i])
          /\ skipped' = [skipped EXCEPT ![i] = SkippedAfter(i, t)]
        BY <1>5, <2>0, <2>1, InsertWrites
    <2>3. \A u \in DOMAIN LegacyTable : Past(i, u)' <=> Past(i, u) \/ u = t
        BY <1>4, <2>0, <2>1, <2>2
    <2>4. snapshot[i] = source[i]
        BY <2>1 DEF RunInv, KnowsAll, Loading
    <2>5. SkippedAfter(i, t) = IF t \in DOMAIN LegacyTable THEN [skipped[i] EXCEPT ![t] = LeftBehind(source[i], t)]
                               ELSE skipped[i]
        BY <2>4 DEF SkippedAfter, LeftBehind, Carried, CarriedOf
    <2>6. skipped'[i] = SkippedAfter(i, t)
        BY <2>2 DEF Shapes
    <2> QED
        BY <2>1, <2>3, <2>5, <2>6 DEF SkippedSoFar
<1>6. CASE LinkOrientedBy(i) \/ RestartIdentity(i) \/ VerifySlots(i)
    <2>0. PICK t : t = Head(todo[i])
        OBVIOUS
    <2>1. /\ skipped' = skipped /\ source' = source /\ step[i] = "load" /\ step'[i] = "load"
          /\ todo[i] # <<>> /\ todo'[i] = Tail(todo[i]) /\ t \notin DOMAIN LegacyTable
        BY <1>1, <1>6, <2>0 DEF LinkOrientedBy, RestartIdentity, VerifySlots, Fail, End, GoTo, Continue, Shapes, reading
    <2>2. \A u \in DOMAIN LegacyTable : Past(i, u)' <=> Past(i, u)
        BY <1>4, <2>0, <2>1
    <2> QED
        BY <2>1, <2>2 DEF SkippedSoFar
<1>7. CASE BeginCounting(i)
    <2>1. skipped' = skipped /\ source' = source /\ step[i] = "load" /\ todo[i] = <<>> /\ step'[i] = "count"
        BY <1>7 DEF BeginCounting, GoTo, Shapes, reading
    <2>2. Items(i) = {}
        BY <2>1, LoadLeft
    <2>3. \A t : Past(i, t) /\ Past(i, t)'
        BY <2>1, <2>2 DEF Past
    <2> QED
        BY <2>1, <2>3 DEF SkippedSoFar
<1>8. CASE CountLine(i)
    <2>1. skipped' = skipped /\ source' = source /\ step[i] = "count" /\ step'[i] = "count"
        BY <1>8 DEF CountLine, Continue, reading
    <2>2. \A t : Past(i, t) /\ Past(i, t)'
        BY <2>1 DEF Past
    <2> QED
        BY <2>1, <2>2 DEF SkippedSoFar
<1>9. ~(Finish(i) \/ DeadlockAborts(i) \/ ConnectionDrops(i) \/ CommitAnswerLost(i))
    BY EndsInv
<1> QED
    BY <1>2, <1>3, <1>5, <1>6, <1>7, <1>8, <1>9 DEF OneRunSteps, RunStep

\* The runs that do not step, and the edits and sign-ups, leave it as it is.
LEMMA SkippedKept ==
    ASSUME IInv, SkippedInv, [Next]_vars
    PROVE  SkippedInv'
<1>1. ASSUME NEW k \in Importer, Same(k), step'[k] # "ended"
      PROVE  skipped'[k] = SkippedSoFar(k)'
    <2>1. /\ skipped'[k] = skipped[k] /\ skipped[k] = SkippedSoFar(k) /\ source'[k] = source[k]
        BY <1>1 DEF Same, SkippedInv
    <2>2. \A t : Past(k, t)' <=> Past(k, t)
        BY <1>1 DEF Same, Past, Items
    <2> QED
        BY <2>1, <2>2 DEF SkippedSoFar
<1>2. ASSUME NEW i \in Importer, OneRunSteps(i), NEW k \in Importer, step'[k] # "ended"
      PROVE  skipped'[k] = SkippedSoFar(k)'
    <2>1. CASE k = i
        <3>1. step[i] # "ended"
            BY <1>2, RunMoves DEF IInv
        <3>2. skipped[i] = SkippedSoFar(i)
            BY <3>1 DEF SkippedInv
        <3> QED
            BY <1>2, <2>1, <3>2, SkippedOfRun DEF IInv
    <2>2. CASE k # i
        BY <1>1, <1>2, <2>2, OneRunAlone DEF IInv
    <2> QED
        BY <2>1, <2>2
<1>3. CASE \E i \in Importer : OneRunSteps(i)
    BY <1>2, <1>3 DEF SkippedInv
<1>4. CASE RailsEdit \/ SignUp \/ RecordRelease \/ UNCHANGED vars
    <2>1. \A k \in Importer : Same(k)
        BY <1>4 DEF RailsEdit, SignUp, RecordRelease, vars, run, Same
    <2> QED
        BY <1>1, <2>1 DEF SkippedInv
<1> QED
    BY <1>3, <1>4 DEF Next, OneRunSteps

\* Nothing a lone run counts or checks is against it, whatever step it takes.
LEMMA LoneRunStep ==
    ASSUME IInv, SkippedInv, AloneInv, [Next]_vars, NEW i \in Importer, OneRunSteps(i)
    PROVE  /\ agrees'[i] \/ step'[i] \in {"count", "ended"}
           /\ Alone(i)' => /\ agrees'[i] \/ step'[i] = "ended"
                           /\ said'[i] \notin {"constraint", "slots", "disagrees"}
<1>1. Shapes /\ Shapes' /\ RunInv(i)
    BY ShapesInv DEF IInv
<1>2. /\ step[i] \notin {"off", "ended"} /\ options' = options /\ signUps' = signUps
      /\ UNCHANGED source \/ step[i] = "begin"
    BY <1>1, RunMoves, OneRunAlone
<1>3. step'[i] # "ended" => said'[i] = "nothing"
    BY <1>1 DEF Shapes
<1>4. step[i] # "begin" => (Alone(i)' <=> Alone(i))
    BY <1>2 DEF Alone
<1>ends. \A why : Fail(i, why) \/ End(i, why) => said'[i] = why
    BY <1>1 DEF Fail, End, Shapes
<1>5. CASE BeginReadOnly(i) \/ ReadTable(i)
    <2>1. agrees' = agrees /\ step[i] \in {"begin", "read"} /\ step'[i] = "read"
        BY <1>1, <1>5 DEF BeginReadOnly, ReadTable, GoTo, Continue, Shapes
    <2> QED
        BY <1>3, <2>1 DEF AloneInv
<1>6. CASE CheckSnapshot(i) \/ AssertTableEmpty(i) \/ LinkOrientedBy(i) \/ RestartIdentity(i) \/ BeginCounting(i)
    <2>1. agrees' = agrees /\ step[i] \in {"read", "empty", "load"}
        BY <1>6 DEF CheckSnapshot, AssertTableEmpty, LinkOrientedBy, RestartIdentity, BeginCounting
    <2>3. said' = said \/ Fail(i, "refused") \/ Fail(i, "not empty")
        BY <1>6 DEF CheckSnapshot, AssertTableEmpty, LinkOrientedBy, RestartIdentity, BeginCounting
    <2>2. said[i] = "nothing"
        BY <1>1, <1>2 DEF Shapes
    <2> QED
        BY <1>ends, <2>1, <2>2, <2>3 DEF AloneInv
<1>7. CASE InsertRows(i)
    <2>1. agrees' = agrees /\ step[i] = "load" /\ todo[i] # <<>>
        BY <1>7 DEF InsertRows
    <2>2. agrees'[i]
        BY <2>1 DEF AloneInv
    <2>3. Alone(i) => said'[i] \notin {"constraint", "slots", "disagrees"}
        <3>1. Alone(i) => ~BreaksConstraint(i, Head(todo[i]), Inserts(i)[Head(todo[i])])
            BY <1>7, <2>1, LoneInsertHolds DEF InsertRows
        <3>2. Alone(i) => said' = said
            BY <1>7, <3>1 DEF InsertRows
        <3> QED
            BY <3>2 DEF AloneInv
    <2> QED
        BY <1>4, <2>1, <2>2, <2>3
<1>8. CASE VerifySlots(i)
    <2>1. agrees' = agrees /\ step[i] = "load" /\ todo[i] # <<>> /\ Head(todo[i]) = "slots"
        BY <1>8 DEF VerifySlots
    <2>2. agrees'[i]
        BY <2>1 DEF AloneInv
    <2>3. Alone(i) => said' = said
        BY <1>8, <2>1, LoneSlotsHold DEF VerifySlots
    <2> QED
        BY <1>4, <2>1, <2>2, <2>3 DEF AloneInv
<1>9. CASE CountLine(i)
    <2>1. step[i] = "count" /\ todo[i] # <<>> /\ step'[i] = "count" /\ said' = said
        BY <1>9 DEF CountLine, Continue
    <2>2. Suffix(todo[i], LineOrder)
        BY <1>1, <2>1 DEF RunInv
    <2>3. Head(todo[i]) \in Lines
        BY <2>1, <2>2, LineParts
    <2>4. Alone(i) => agrees'[i]
        <3>1. Alone(i) => agrees[i]
            BY <2>1 DEF AloneInv
        <3>2. Alone(i) => counts[i][Head(todo[i])] = Cardinality(Imported(i, Head(todo[i])))
                                + IF Head(todo[i]) \in DOMAIN skipped[i] THEN skipped[i][Head(todo[i])] ELSE 0
            BY <2>1, <2>3, LoneLinesAgree
        <3>3. DOMAIN agrees = Importer
            BY <1>1 DEF Shapes
        <3> QED
            BY <1>9, <3>1, <3>2, <3>3 DEF CountLine
    <2> QED
        BY <1>4, <2>1, <2>4 DEF AloneInv
<1>10. CASE Finish(i)
    <2>1. step[i] = "count" /\ step'[i] = "ended"
        BY <1>10, <1>1, EndsInv DEF Finish
    <2>2. Alone(i) => agrees[i]
        BY <2>1 DEF AloneInv
    <2>3. agrees[i] => said'[i] \in {"dry run", "committed"}
        <3>1. agrees[i] => Fail(i, "dry run") \/ End(i, "committed")
            BY <1>10 DEF Finish
        <3> QED
            BY <1>ends, <3>1
    <2> QED
        BY <1>4, <2>1, <2>2, <2>3
<1>11. CASE DeadlockAborts(i) \/ ConnectionDrops(i) \/ CommitAnswerLost(i)
    <2>1. step'[i] = "ended"
        BY <1>1, <1>11, EndsInv
    <2>2. said'[i] \in {"deadlock", "no answer"}
        <3>1. Fail(i, "deadlock") \/ Fail(i, "no answer") \/ End(i, "no answer")
            BY <1>11 DEF DeadlockAborts, ConnectionDrops, CommitAnswerLost
        <3> QED
            BY <1>ends, <3>1
    <2> QED
        BY <2>1, <2>2
<1> QED
    BY <1>5, <1>6, <1>7, <1>8, <1>9, <1>10, <1>11 DEF OneRunSteps, RunStep

\* As long as nobody signs up, every member is imported.
LEMMA NoWebMembersKept ==
    ASSUME IInv, AloneInv, [Next]_vars, signUps' = 0
    PROVE  \A m \in target'.user : m.legacyId # Null
<1>1. Shapes /\ signUps \in Nat
    <2>1. Shapes /\ MaxSignUps \in Nat
        BY BoundsAssumption DEF IInv
    <2> QED
        BY <2>1 DEF Shapes
<1>2. ~SignUp
    <2>1. SignUp => signUps' = signUps + 1
        BY DEF SignUp
    <2> QED
        BY <1>1, <2>1
<1>3. ASSUME NEW i \in Importer, OneRunSteps(i)
      PROVE  \A m \in target'.user : m.legacyId # Null
    <2>1. signUps = 0 /\ Moves(i) /\ RunInv(i)
        BY <1>1, <1>3, OneRunAlone, RunMoves DEF IInv
    <2>2. \A m \in target.user : m.legacyId # Null
        BY <2>1 DEF AloneInv
    <2>3. CASE Commits(i)
        <3>1. target'.user = target.user \cup LinkedRows(i, source[i]) /\ IsLegacy(source[i])
            BY <1>1, <2>1, <2>3, CommitTables DEF AllRows, Table
        <3>2. \A m \in LinkedRows(i, source[i]) : m.legacyId # Null
            BY <3>1, OwnRows
        <3> QED
            BY <2>2, <3>1, <3>2
    <2>4. CASE ~Commits(i)
        <3>1. target' = target
            BY <2>1, <2>4 DEF Moves, LeavesBoth, OpensOne, RollsBack, InsertsOne, LinksMembers, MovesIdentity
        <3> QED
            BY <2>2, <3>1
    <2> QED
        BY <2>3, <2>4
<1>4. CASE RailsEdit \/ RecordRelease \/ UNCHANGED vars
    <2>1. signUps' = signUps /\ target'.user = target.user
        BY <1>1, <1>4 DEF RailsEdit, RecordRelease, vars, bounds, Shapes, EmptyDatabase
    <2> QED
        BY <2>1 DEF AloneInv
<1> QED
    BY <1>2, <1>3, <1>4 DEF Next, OneRunSteps

LEMMA AloneKept ==
    ASSUME IInv, SkippedInv, AloneInv, [Next]_vars
    PROVE  AloneInv'
<1>1. Shapes /\ signUps \in Nat
    <2>1. Shapes /\ MaxSignUps \in Nat
        BY BoundsAssumption DEF IInv
    <2> QED
        BY <2>1 DEF Shapes
<1>2. ASSUME NEW k \in Importer, Same(k), options' = options, signUps' # 0 \/ signUps' = signUps
      PROVE  /\ agrees'[k] \/ step'[k] \in {"count", "ended"}
             /\ Alone(k)' => /\ agrees'[k] \/ step'[k] = "ended"
                             /\ said'[k] \notin {"constraint", "slots", "disagrees"}
    <2>1. Alone(k)' => Alone(k)
        BY <1>2 DEF Same, Alone
    <2> QED
        BY <1>2, <2>1 DEF Same, AloneInv
<1>3. ASSUME NEW k \in Importer
      PROVE  /\ agrees'[k] \/ step'[k] \in {"count", "ended"}
             /\ Alone(k)' => /\ agrees'[k] \/ step'[k] = "ended"
                             /\ said'[k] \notin {"constraint", "slots", "disagrees"}
    <2>1. ASSUME NEW i \in Importer, OneRunSteps(i), i # k
          PROVE  Same(k) /\ options' = options /\ signUps' = signUps
        BY <1>1, <1>3, <2>1, OneRunAlone
    <2>2. CASE RailsEdit \/ SignUp \/ RecordRelease \/ UNCHANGED vars
        <3>1. Same(k) /\ options' = options /\ (signUps' = signUps + 1 \/ signUps' = signUps)
            BY <2>2 DEF RailsEdit, SignUp, RecordRelease, vars, bounds, run, Same
        <3>2. signUps' # 0 \/ signUps' = signUps
            BY <1>1, <3>1
        <3> QED
            BY <1>2, <3>1, <3>2
    <2>3. CASE OneRunSteps(k)
        BY <2>3, LoneRunStep
    <2>4. CASE \E i \in Importer : OneRunSteps(i) /\ i # k
        BY <1>2, <2>1, <2>4
    <2> QED
        BY <2>2, <2>3, <2>4 DEF Next, OneRunSteps
<1>4. signUps' = 0 => \A m \in target'.user : m.legacyId # Null
    BY NoWebMembersKept
<1> QED
    BY <1>3, <1>4 DEF AloneInv

\* A lone run that passed its preflight is refused by no constraint, no slot and no
\* count of the members database (transform.ts:65-67).
THEOREM ThePreflightIsEnough == Spec => []PreflightIsEnough
<1>1. Init => SkippedInv /\ AloneInv
    <2> SUFFICES ASSUME Init PROVE SkippedInv /\ AloneInv
        OBVIOUS
    <2>1. \A i \in Importer : /\ skipped[i] = [t \in DOMAIN LegacyTable |-> 0] /\ agrees[i]
                              /\ step[i] \in {"begin", "off"} /\ said[i] = "nothing"
        BY DEF Init
    <2>2. \A i \in Importer : \A t : ~Past(i, t)
        BY <2>1 DEF Past
    <2>3. target.user = {}
        BY DEF Init, EmptyDatabase
    <2>4. SkippedInv
        BY <2>1, <2>2 DEF SkippedInv, SkippedSoFar
    <2>5. AloneInv
        BY <2>1, <2>3 DEF AloneInv
    <2> QED
        BY <2>4, <2>5
<1>2. IInv /\ SkippedInv /\ AloneInv /\ [Next]_vars => (SkippedInv /\ AloneInv)'
    BY SkippedKept, AloneKept
<1>3. IInv /\ AloneInv => PreflightIsEnough
    <2> SUFFICES ASSUME IInv, AloneInv, NEW i \in DOMAIN options, said[i] \in {"constraint", "slots", "disagrees"}
                 PROVE  \/ signUps > 0 \/ DOMAIN options # {i}
                        \/ \E u \in DOMAIN source[i].users : source[i].users[u].hash = "white"
        BY DEF PreflightIsEnough
    <2>1. i \in Importer /\ (signUps = 0 \/ signUps > 0)
        BY BoundsAssumption DEF IInv, Shapes
    <2>2. ~Alone(i)
        BY <2>1 DEF AloneInv
    <2> QED
        BY <2>1, <2>2 DEF Alone
<1> QED
    BY <1>1, <1>2, <1>3, ImportInvariant, PTL DEF Spec
=============================================================================
