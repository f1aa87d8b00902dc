-------------------------- MODULE IssueClaimProofs --------------------------
(***************************************************************************)
(* Proofs about IssueClaim for any loops, persons, priorities, TTL, verify *)
(* window, delay and number of faults: the type invariant, that no loop    *)
(* removes a person and that a person takes over within a TTL, that a      *)
(* lease ends with its claim, and, if a stake takes less time than the     *)
(* verify window and no loop retries within it, that leases exclude each   *)
(* other and implement ExclusiveClaim, but for the lease of a loop whose   *)
(* login a person assigned or removed meanwhile.  Without the two          *)
(* conditions they do not (README, "Stated, and refuted by the code").     *)
(***************************************************************************)
EXTENDS IssueClaim, TLAPS

USE TimingAssumption

-----------------------------------------------------------------------------
(* The claim comments *)

Board == {c \in Seq(Claim) : \A i, k \in DOMAIN c : c[i].login = c[k].login => i = k}

\* HasClaim, IdOf, AgeOf and WithComment of a given board.
Has(c, x) == \E i \in DOMAIN c : c[i].login = x
Pos(c, x) == CHOOSE i \in DOMAIN c : c[i].login = x
Age(c, x) == c[Pos(c, x)].age
Without(c, x) ==
  IF Has(c, x)
  THEN [k \in 1..(Len(c) - 1) |-> c[IF k < Pos(c, x) THEN k ELSE k + 1]]
  ELSE c
Posted(c, x) == Append(Without(c, x), [login |-> x, age |-> 0])

(* The latest comment of a login is one comment of the board.              *)
LEMMA PosFacts ==
  ASSUME NEW c \in Board, NEW x, Has(c, x)
  PROVE  /\ Pos(c, x) \in DOMAIN c /\ c[Pos(c, x)].login = x
         /\ \A i \in DOMAIN c : c[i].login = x => i = Pos(c, x)
         /\ x \in Loops /\ Age(c, x) \in 0..MaxAge
<1>1. Pos(c, x) \in DOMAIN c /\ c[Pos(c, x)].login = x
  BY DEF Has, Pos
<1>2. \A i \in DOMAIN c : c[i].login = x => i = Pos(c, x)
  BY <1>1 DEF Board
<1>3. c[Pos(c, x)] \in Claim
  BY <1>1 DEF Board
<1> QED BY <1>1, <1>2, <1>3 DEF Claim, Age

(* A comment that is known by its place is the latest of its login.        *)
LEMMA AtPos ==
  ASSUME NEW c \in Board, NEW i \in DOMAIN c
  PROVE  Has(c, c[i].login) /\ Pos(c, c[i].login) = i
<1>1. Has(c, c[i].login)
  BY DEF Has
<1> QED BY <1>1, PosFacts

(* Leaving out one login's comment keeps the others and their order.       *)
LEMMA WithoutFacts ==
  ASSUME NEW c \in Board, NEW x
  PROVE  LET w == Without(c, x) IN
         /\ w \in Board
         /\ \A i \in DOMAIN w : w[i].login # x
         /\ \A y : Has(w, y) <=> Has(c, y) /\ y # x
         /\ \A y : Has(w, y) => Age(w, y) = Age(c, y)
         /\ \A y, z : Has(w, y) /\ Has(w, z) => (Pos(w, y) < Pos(w, z) <=> Pos(c, y) < Pos(c, z))
<1> DEFINE w == Without(c, x)
<1>1. CASE ~Has(c, x)
  BY <1>1 DEF Without, Has
<1>2. CASE Has(c, x)
  <2> DEFINE p == Pos(c, x)
             at(k) == IF k < p THEN k ELSE k + 1
  <2>1. p \in 1..Len(c) /\ Len(c) \in Nat /\ DOMAIN c = 1..Len(c) /\ c[p].login = x
    BY <1>2, PosFacts DEF Board
  <2>2. w = [k \in 1..(Len(c) - 1) |-> c[at(k)]]
    BY <1>2 DEF Without
  <2>3. \A k \in 1..(Len(c) - 1) : at(k) \in 1..Len(c) /\ at(k) # p
    BY <2>1
  <2>4. Len(c) - 1 \in Nat
    BY <2>1
  <2>5. w \in Seq(Claim) /\ Len(w) = Len(c) - 1 /\ DOMAIN w = 1..(Len(c) - 1)
    <3>1. \A k \in 1..(Len(c) - 1) : c[at(k)] \in Claim
      BY <2>1, <2>3 DEF Board
    <3> HIDE DEF at, p, w
    <3> QED BY <2>2, <2>4, <3>1
  <2>6. \A i, k \in 1..(Len(c) - 1) : i # k => at(i) # at(k)
    BY <2>1
  <2>7. \A i, k \in 1..(Len(c) - 1) : i < k <=> at(i) < at(k)
    BY <2>1
  <2>8. \A j \in 1..Len(c) : j # p => \E k \in 1..(Len(c) - 1) : at(k) = j
    <3> SUFFICES ASSUME NEW j \in 1..Len(c), j # p PROVE \E k \in 1..(Len(c) - 1) : at(k) = j
      OBVIOUS
    <3>1. CASE j < p
      BY <2>1, <3>1
    <3>2. CASE j > p
      <4>1. j - 1 \in 1..(Len(c) - 1) /\ at(j - 1) = j
        BY <2>1, <3>2
      <4> QED BY <4>1
    <3> QED BY <2>1, <3>1, <3>2
  <2> HIDE DEF at, p, w
  <2>9. \A k \in 1..(Len(c) - 1) : w[k] = c[at(k)] /\ Pos(c, w[k].login) = at(k) /\ Has(c, w[k].login)
    BY <2>1, <2>2, <2>3, AtPos
  <2>10. w \in Board
    BY <2>1, <2>3, <2>5, <2>6, <2>9 DEF Board
  <2>11. \A k \in 1..(Len(c) - 1) : Pos(w, w[k].login) = k /\ Has(w, w[k].login)
    BY <2>5, <2>10, AtPos
  <2>12. \A i \in DOMAIN w : w[i].login # x
    BY <2>3, <2>5, <2>9 DEF p
  <2>13. ASSUME NEW y, Has(c, y), y # x PROVE Has(w, y)
    <3>1. Pos(c, y) \in 1..Len(c) /\ c[Pos(c, y)].login = y
      BY <2>1, <2>13, PosFacts
    <3>2. Pos(c, y) # p
      BY <2>1, <2>13, <3>1
    <3>3. PICK k \in 1..(Len(c) - 1) : at(k) = Pos(c, y)
      BY <2>8, <3>1, <3>2
    <3> QED BY <2>9, <2>11, <3>1, <3>3
  <2>14. ASSUME NEW y, Has(w, y)
         PROVE  /\ Has(c, y) /\ y # x /\ Age(w, y) = Age(c, y)
                /\ Pos(w, y) \in 1..(Len(c) - 1) /\ Pos(c, y) = at(Pos(w, y))
    <3>1. Pos(w, y) \in 1..(Len(c) - 1) /\ w[Pos(w, y)].login = y
      BY <2>5, <2>10, <2>14, PosFacts
    <3> QED BY <2>5, <2>9, <2>12, <3>1 DEF Age
  <2> QED BY <2>7, <2>10, <2>12, <2>13, <2>14 DEF w
<1> QED BY <1>1, <1>2

(* A post puts the login's comment last, with age 0, and leaves the others *)
(* as they were.                                                           *)
LEMMA PostFacts ==
  ASSUME NEW c \in Board, NEW x \in Loops
  PROVE  LET d == Posted(c, x) IN
         /\ d \in Board
         /\ \A y : Has(d, y) <=> Has(c, y) \/ y = x
         /\ Age(d, x) = 0
         /\ \A y : Has(c, y) /\ y # x => Age(d, y) = Age(c, y)
         /\ \A y, z : Has(c, y) /\ Has(c, z) /\ x \notin {y, z}
              => (Pos(d, y) < Pos(d, z) <=> Pos(c, y) < Pos(c, z))
<1> DEFINE w == Without(c, x)
           d == Posted(c, x)
           n == Len(w) + 1
<1>1. /\ w \in Board /\ \A i \in DOMAIN w : w[i].login # x
      /\ \A y : Has(w, y) <=> Has(c, y) /\ y # x
      /\ \A y : Has(w, y) => Age(w, y) = Age(c, y)
      /\ \A y, z : Has(w, y) /\ Has(w, z) => (Pos(w, y) < Pos(w, z) <=> Pos(c, y) < Pos(c, z))
  BY WithoutFacts
<1>2. [login |-> x, age |-> 0] \in Claim
  BY DEF Claim, MaxAge
<1> HIDE DEF w
<1>3. /\ d \in Seq(Claim) /\ DOMAIN d = 1..n /\ Len(w) \in Nat /\ DOMAIN w = 1..Len(w)
      /\ d[n] = [login |-> x, age |-> 0] /\ \A i \in DOMAIN w : d[i] = w[i]
  BY <1>1, <1>2 DEF Posted, Board, w
<1> HIDE DEF d
<1>4. d \in Board
  <2> SUFFICES ASSUME NEW i \in DOMAIN d, NEW k \in DOMAIN d, d[i].login = d[k].login PROVE i = k
    BY <1>3 DEF Board
  <2>1. \A j \in DOMAIN d : j = n \/ (j \in DOMAIN w /\ j # n)
    BY <1>3
  <2> QED BY <1>1, <1>3, <2>1 DEF Board
<1>5. Has(d, x) /\ Pos(d, x) = n /\ Age(d, x) = 0
  <2>1. n \in DOMAIN d /\ d[n].login = x
    BY <1>3
  <2>2. Has(d, x) /\ Pos(d, x) = n
    BY <1>4, <2>1, AtPos
  <2> QED BY <1>3, <2>2 DEF Age
<1>6. ASSUME NEW y, Has(w, y) PROVE Has(d, y) /\ Pos(d, y) = Pos(w, y) /\ Age(d, y) = Age(w, y)
  <2>1. Pos(w, y) \in DOMAIN w /\ w[Pos(w, y)].login = y
    BY <1>1, <1>6, PosFacts
  <2>2. Pos(w, y) \in DOMAIN d /\ d[Pos(w, y)] = w[Pos(w, y)]
    BY <1>3, <2>1
  <2>3. Has(d, y) /\ Pos(d, y) = Pos(w, y)
    BY <1>4, <2>1, <2>2, AtPos
  <2> QED BY <2>2, <2>3 DEF Age
<1>7. ASSUME NEW y, Has(d, y), y # x PROVE Has(w, y)
  <2>1. Pos(d, y) \in DOMAIN d /\ d[Pos(d, y)].login = y
    BY <1>4, <1>7, PosFacts
  <2>2. Pos(d, y) \in DOMAIN w
    BY <1>3, <1>7, <2>1
  <2> QED BY <1>3, <2>1, <2>2 DEF Has
<1> QED BY <1>1, <1>4, <1>5, <1>6, <1>7 DEF d

(* A change of ages keeps the comments' logins and places.                 *)
LEMMA SameOrder ==
  ASSUME NEW c \in Board, NEW d \in Seq(Claim), DOMAIN d = DOMAIN c,
         \A i \in DOMAIN c : d[i].login = c[i].login
  PROVE  /\ d \in Board /\ \A y : Has(d, y) <=> Has(c, y)
         /\ \A y : Has(c, y) => Pos(d, y) = Pos(c, y)
<1>1. d \in Board /\ \A y : Has(d, y) <=> Has(c, y)
  BY DEF Board, Has
<1>2. ASSUME NEW y, Has(c, y) PROVE Pos(d, y) = Pos(c, y)
  <2>1. Pos(c, y) \in DOMAIN d /\ d[Pos(c, y)].login = y
    BY <1>2, PosFacts
  <2> QED BY <1>1, <2>1, AtPos
<1> QED BY <1>1, <1>2

(* A renewal sets the age of its comment to 0 and moves no other.          *)
LEMMA RenewFacts ==
  ASSUME TypeOK, NEW x \in Loops, Has(claims, x)
  PROVE  /\ Renewed(x) \in Board /\ \A y : Has(Renewed(x), y) <=> Has(claims, y)
         /\ \A y : Has(claims, y) => /\ Pos(Renewed(x), y) = Pos(claims, y)
                                     /\ y # x => Age(Renewed(x), y) = Age(claims, y)
         /\ Age(Renewed(x), x) = 0
<1> DEFINE p == Pos(claims, x)
           d == Renewed(x)
<1>1. claims \in Board
  BY DEF TypeOK, Board
<1>2. p \in DOMAIN claims /\ claims[p].login = x /\ claims[p] \in Claim
  BY <1>1, PosFacts DEF Board
<1>3. d = [claims EXCEPT ![p] = [claims[p] EXCEPT !.age = 0]]
  BY DEF Renewed, IdOf, Pos
<1>4. PICK e \in Claim : e = [claims[p] EXCEPT !.age = 0] /\ e.login = x /\ e.age = 0
  <2>1. LET e == [claims[p] EXCEPT !.age = 0] IN e \in Claim /\ e.login = x /\ e.age = 0
    BY <1>2 DEF Claim, MaxAge
  <2> QED BY <2>1
<1> HIDE DEF p, d
<1>5. /\ d \in Seq(Claim) /\ DOMAIN d = DOMAIN claims
      /\ \A i \in DOMAIN claims : d[i].login = claims[i].login /\ (i # p => d[i] = claims[i])
      /\ d[p].age = 0
  <2>1. d = [claims EXCEPT ![p] = e] /\ claims \in Seq(Claim)
    BY <1>1, <1>3, <1>4 DEF Board
  <2>2. d \in Seq(Claim) /\ DOMAIN d = DOMAIN claims
    BY <1>2, <2>1
  <2>3. d[p] = e /\ \A i \in DOMAIN claims : i # p => d[i] = claims[i]
    BY <1>2, <2>1
  <2> QED BY <1>2, <1>4, <2>2, <2>3
<1>6. /\ d \in Board /\ \A y : Has(d, y) <=> Has(claims, y)
      /\ \A y : Has(claims, y) => Pos(d, y) = Pos(claims, y)
  BY <1>1, <1>5, SameOrder
<1>7. Age(d, x) = 0
  BY <1>5, <1>6 DEF Age, p
<1>8. ASSUME NEW y, Has(claims, y), y # x PROVE Age(d, y) = Age(claims, y)
  <2>1. Pos(claims, y) \in DOMAIN claims /\ claims[Pos(claims, y)].login = y
    BY <1>1, <1>8, PosFacts
  <2>2. Pos(claims, y) # p
    BY <1>2, <1>8, <2>1
  <2> QED BY <1>5, <1>6, <1>8, <2>1, <2>2 DEF Age
<1> QED BY <1>6, <1>7, <1>8 DEF d

(* Time ages every comment and moves none.                                 *)
LEMMA TickFacts ==
  ASSUME TypeOK, Tick
  PROVE  /\ claims' \in Board /\ \A y : Has(claims', y) <=> Has(claims, y)
         /\ \A y : Has(claims, y) => /\ Pos(claims', y) = Pos(claims, y)
                                     /\ Age(claims', y) = UpTo(MaxAge, Age(claims, y))
<1>1. claims \in Board /\ MaxAge \in Nat
  BY DEF TypeOK, Board, MaxAge
<1>2. claims' = [i \in DOMAIN claims |-> [claims[i] EXCEPT !.age = UpTo(MaxAge, @)]]
  BY DEF Tick
<1>3. ASSUME NEW i \in DOMAIN claims
      PROVE  /\ claims'[i] \in Claim /\ claims'[i].login = claims[i].login
             /\ claims'[i].age = UpTo(MaxAge, claims[i].age)
  <2>1. claims[i] \in Claim
    BY <1>1 DEF Board
  <2>2. PICK n \in 0..MaxAge : n = UpTo(MaxAge, claims[i].age)
    BY <1>1, <2>1 DEF Claim, UpTo
  <2>3. claims'[i] = [claims[i] EXCEPT !.age = n]
    BY <1>2, <2>2
  <2> QED BY <2>1, <2>2, <2>3 DEF Claim
<1>4. claims' \in Seq(Claim) /\ DOMAIN claims' = DOMAIN claims
  <2>1. claims \in Seq(Claim) /\ DOMAIN claims = 1..Len(claims) /\ Len(claims) \in Nat
    BY <1>1 DEF Board
  <2>2. claims' = [i \in 1..Len(claims) |-> claims'[i]]
    BY <1>2, <2>1
  <2>3. \A i \in 1..Len(claims) : claims'[i] \in Claim
    BY <1>3, <2>1
  <2>4. claims' \in [1..Len(claims) -> Claim]
    BY <2>2, <2>3
  <2> QED BY <2>1, <2>4
<1>5. /\ claims' \in Board /\ \A y : Has(claims', y) <=> Has(claims, y)
      /\ \A y : Has(claims, y) => Pos(claims', y) = Pos(claims, y)
  BY <1>1, <1>3, <1>4, SameOrder
<1>6. ASSUME NEW y, Has(claims, y) PROVE Age(claims', y) = UpTo(MaxAge, Age(claims, y))
  <2>1. Pos(claims, y) \in DOMAIN claims
    BY <1>1, <1>6, PosFacts
  <2> QED BY <1>3, <1>5, <1>6, <2>1 DEF Age
<1> QED BY <1>5, <1>6

-----------------------------------------------------------------------------
(* What a step does *)

\* The steps of one loop.
LoopAct(a) ==
  StakeBegin(a) \/ StakeStep(a) \/ SettleStep(a) \/ RenewStep(a) \/ WorkStep(a) \/ FaultStep(a)

\* A person assigns or unassigns somebody.
HandStep == \E x \in Persons \cup Managed : HandAssign(x) \/ HandUnassign(x)

\* A step of one loop leaves what the others know alone.
Frame(a) ==
  /\ personAge' = personAge
  /\ \A l \in Loops \ {a} :
       /\ pc'[l] = pc[l] /\ ren'[l] = ren[l] /\ el'[l] = el[l] /\ snap'[l] = snap[l]
       /\ stale'[l] = stale[l] /\ wait'[l] = wait[l] /\ left'[l] = left[l] /\ lost'[l] = lost[l]
       /\ l \in touched' <=> l \in touched

(* The renewer runs under a lease only, whose claim is on the board; the   *)
(* clock of a stake and of a settle is within the delay; nothing is left   *)
(* of a verify window once the loop goes on; and only loops are found      *)
(* stale.                                                                  *)
Shape ==
  \A l \in Loops :
    /\ pc[l] \notin Working => ren[l] = "stopped"
    /\ pc[l] \in Working => Has(claims, l)
    /\ pc[l] \in StakePhases \cup SettlePhases => el[l] <= MaxDelay
    /\ pc[l] \notin {"idle", "verify", "stake_undo"} => wait[l] = 0
    /\ stale[l] \subseteq Loops

Base == TypeOK /\ Shape

(* A step of one loop leaves the variables of the other loops alone.       *)
LEMMA LoopFrame ==
  ASSUME TypeOK, NEW a \in Loops, LoopAct(a)
  PROVE  Frame(a)
<1> USE DEF Frame, TypeOK, people
<1>1. CASE StakeBegin(a)
  BY <1>1 DEF StakeBegin, Goto, lease
<1>2. CASE StakeStep(a)
  <2>1. CASE StakeDecide(a)
    BY <2>1 DEF StakeDecide, Goto, ClearClock, StartLease, lease
  <2>2. CASE ReadAssignees(a, "stake_view", "stake_claims") \/ StakeCheckPr(a) \/ StakeUnassign(a)
    BY <2>2 DEF ReadAssignees, StakeCheckPr, StakeUnassign, Goto, ClearClock, lease
  <2>3. CASE StakeAssign(a) \/ StakePost(a) \/ StakeUndo(a)
    BY <2>3 DEF StakeAssign, StakePost, StakeUndo, Goto, ClearClock, lease
  <2> QED BY <1>2, <2>1, <2>2, <2>3 DEF StakeStep
<1>3. CASE SettleStep(a)
  <2>1. CASE SettleDecide(a)
    BY <2>1 DEF SettleDecide, Goto, ClearClock, StartLease, lease
  <2>2. CASE ~SettleDecide(a)
    BY <1>3, <2>2 DEF SettleStep, SettleBegin, ReadAssignees, SettleUnassign, Goto, lease
  <2> QED BY <2>1, <2>2
<1>4. CASE RenewStep(a)
  <2>1. CASE RenewBegin(a)
    BY <2>1 DEF RenewBegin, GotoRen, ClearClock, lease
  <2>2. CASE RenewReadAssignees(a)
    BY <2>2 DEF RenewReadAssignees, GotoRen, ClearClock, lease
  <2>3. CASE RenewDecide(a)
    BY <2>3 DEF RenewDecide, GotoRen, ClearClock, lease
  <2>4. CASE RenewEdit(a)
    BY <2>4 DEF RenewEdit, GotoRen, ClearClock, lease
  <2>5. CASE confirm_renewal(a)
    BY <2>5 DEF confirm_renewal, GotoRen, ClearClock, lease
  <2>6. CASE RenewCutOff(a)
    BY <2>6 DEF RenewCutOff, GotoRen, ClearClock, lease
  <2> QED BY <1>4, <2>1, <2>2, <2>3, <2>4, <2>5, <2>6 DEF RenewStep
<1>5. CASE WorkStep(a)
  BY <1>5 DEF WorkStep, PublishCheck, Publish, Abandon, EndLease, Goto, GotoRen, lease
<1>6. CASE CallFails(a)
  BY <1>6 DEF CallFails, EndLease, Goto, GotoRen, ClearClock, lease
<1>7. CASE RenewFails(a)
  BY <1>7 DEF RenewFails, EndLease, Goto, GotoRen, ClearClock, lease
<1>8. CASE Crash(a)
  BY <1>8 DEF Crash, EndLease, Goto, GotoRen, ClearClock, lease
<1> QED BY <1>1, <1>2, <1>3, <1>4, <1>5, <1>6, <1>7, <1>8 DEF LoopAct, FaultStep

\* What happens to the comments in a step.
ClaimsMove ==
  \/ claims' = claims
  \/ \E a \in Loops : /\ LoopAct(a) /\ claims' = Posted(claims, a)
                      /\ pc[a] = "stake_post" /\ pc'[a] \in {"verify", "stake_undo"}
                      /\ wait'[a] = Verify
  \/ \E a \in Loops : /\ LoopAct(a) /\ claims' = Renewed(a)
                      /\ ren[a] = "edit" /\ left[a] > 0
                      /\ pc'[a] = pc[a] /\ left'[a] = left[a]
  \/ Tick

(* Every step changes the claim comments in one of these ways.             *)
LEMMA ClaimsStep ==
  ASSUME TypeOK, [Next]_vars
  PROVE  ClaimsMove
<1> USE DEF TypeOK
<1>1. ASSUME NEW a \in Loops, LoopAct(a) PROVE ClaimsMove
  <2>1. WithComment(a) = Posted(claims, a)
    BY DEF WithComment, Others, HasClaim, IdOf, Posted, Without, Has, Pos
  <2>2. CASE StakePost(a)
    BY <1>1, <2>1, <2>2 DEF StakePost, Goto, ClaimsMove
  <2>3. CASE CallFails(a)
    <3>1. CASE pc[a] = "stake_post"
      BY <1>1, <2>1, <2>3, <3>1 DEF CallFails, Goto, ClaimsMove
    <3>2. CASE pc[a] # "stake_post"
      BY <2>3, <3>2 DEF CallFails, ClaimsMove
    <3> QED BY <3>1, <3>2
  <2>4. CASE RenewEdit(a) \/ RenewFails(a)
    BY <1>1, <2>4 DEF RenewEdit, RenewFails, lease, ClaimsMove
  <2>5. CASE StakeBegin(a) \/ StakeUnassign(a) \/ StakeAssign(a) \/ StakeUndo(a) \/ StakeDecide(a)
             \/ StakeCheckPr(a) \/ ReadAssignees(a, "stake_view", "stake_claims")
    BY <2>5 DEF StakeBegin, StakeUnassign, StakeAssign, StakeUndo, StakeDecide, StakeCheckPr,
      ReadAssignees, board, ClaimsMove
  <2>6. CASE SettleStep(a) \/ WorkStep(a) \/ Crash(a)
    BY <2>6 DEF SettleStep, SettleBegin, ReadAssignees, SettleDecide, SettleUnassign, WorkStep,
      PublishCheck, Publish, Abandon, Crash, board, ClaimsMove
  <2>7. CASE RenewBegin(a) \/ RenewReadAssignees(a) \/ RenewDecide(a) \/ confirm_renewal(a)
             \/ RenewCutOff(a)
    BY <2>7 DEF RenewBegin, RenewReadAssignees, RenewDecide, confirm_renewal, RenewCutOff,
      board, ClaimsMove
  <2> QED BY <1>1, <2>2, <2>3, <2>4, <2>5, <2>6, <2>7
    DEF LoopAct, StakeStep, RenewStep, FaultStep
<1>2. CASE PrClosed \/ HandStep \/ UNCHANGED vars
  BY <1>2 DEF PrClosed, HandStep, HandAssign, HandUnassign, ByHand, vars, ClaimsMove
<1>3. CASE Tick
  BY <1>3 DEF ClaimsMove
<1> QED BY <1>1, <1>2, <1>3 DEF Next, Step, LoopAct, HandStep

(* The board stays a board, and no login loses its claim.                  *)
LEMMA BoardStep ==
  ASSUME Base, [Next]_vars
  PROVE  /\ claims \in Board /\ claims' \in Board
         /\ \A y : Has(claims, y) => Has(claims', y)
<1>1. TypeOK /\ claims \in Board
  BY DEF Base, TypeOK, Board
<1>2. ASSUME NEW a \in Loops, ren[a] = "edit" PROVE Has(claims, a)
  BY <1>2 DEF Base, Shape
<1> QED BY <1>1, <1>2, ClaimsStep, PostFacts, RenewFacts, TickFacts DEF ClaimsMove

\* What happens to the assignees.
AssigneesMove ==
  \/ assignees' \cap Loops = assignees \cap Loops
  \/ \E a \in Loops : /\ LoopAct(a) /\ pc[a] = "stake_unassign"
                      /\ assignees' = assignees \ stale[a]
  \/ \E a \in Loops : /\ LoopAct(a) /\ pc[a] = "stake_assign"
                      /\ assignees' = assignees \cup {a}
                      /\ pc'[a] = "stake_post" \/ wait'[a] = Verify
  \/ \E a \in Loops : /\ LoopAct(a) /\ pc[a] \in {"stake_undo", "settle_unassign"}
                      /\ pc'[a] = "idle" /\ assignees' = assignees \ {a}
  \/ \E a \in Loops : /\ a \in touched'
                      /\ assignees' \in {assignees \cup {a}, assignees \ {a}}

(* Every step changes the assignees in one of these ways.                  *)
LEMMA AssigneesStep ==
  ASSUME TypeOK, [Next]_vars
  PROVE  AssigneesMove
<1> USE DEF TypeOK
<1>1. ASSUME NEW a \in Loops, LoopAct(a) PROVE AssigneesMove
  <2>1. CASE StakeUnassign(a)
    BY <1>1, <2>1 DEF StakeUnassign, AssigneesMove
  <2>2. CASE StakeAssign(a)
    BY <1>1, <2>2 DEF StakeAssign, Goto, AssigneesMove
  <2>3. CASE StakeUndo(a) \/ SettleUnassign(a)
    BY <1>1, <2>3 DEF StakeUndo, SettleUnassign, Goto, AssigneesMove
  <2>4. CASE CallFails(a)
    <3>1. assignees' = assignees \/ pc[a] \in {"stake_unassign", "stake_assign", "settle_unassign"}
      BY <2>4 DEF CallFails
    <3>2. CASE pc[a] = "stake_unassign"
      BY <1>1, <2>4, <3>2 DEF CallFails, AssigneesMove
    <3>3. CASE pc[a] = "stake_assign"
      BY <1>1, <2>4, <3>3 DEF CallFails, AssigneesMove
    <3>4. CASE pc[a] = "settle_unassign"
      BY <1>1, <2>4, <3>4 DEF CallFails, Goto, AssigneesMove
    <3> QED BY <3>1, <3>2, <3>3, <3>4 DEF AssigneesMove
  <2>5. CASE StakeBegin(a) \/ StakeDecide(a) \/ StakeCheckPr(a) \/ StakePost(a)
             \/ ReadAssignees(a, "stake_view", "stake_claims")
             \/ ReadAssignees(a, "settle_view", "settle_claims")
    BY <2>5 DEF StakeBegin, StakeDecide, StakeCheckPr, StakePost, ReadAssignees, board,
      AssigneesMove
  <2>6. CASE SettleBegin(a) \/ SettleDecide(a) \/ WorkStep(a) \/ Crash(a) \/ RenewFails(a)
    BY <2>6 DEF SettleBegin, SettleDecide, WorkStep, PublishCheck, Publish, Abandon, Crash,
      RenewFails, board, AssigneesMove
  <2>7. CASE RenewStep(a)
    BY <2>7 DEF RenewStep, RenewBegin, RenewReadAssignees, RenewDecide, RenewEdit,
      confirm_renewal, RenewCutOff, board, AssigneesMove
  <2> QED BY <1>1, <2>1, <2>2, <2>3, <2>4, <2>5, <2>6, <2>7
    DEF LoopAct, StakeStep, SettleStep, FaultStep
<1>2. CASE PrClosed \/ UNCHANGED vars
  BY <1>2 DEF PrClosed, vars, AssigneesMove
<1>4. CASE HandStep
  <2>1. PICK x \in Persons \cup Managed : HandAssign(x) \/ HandUnassign(x)
    BY <1>4 DEF HandStep
  <2>2. assignees' \in {assignees \cup {x}, assignees \ {x}} /\ touched' = touched \cup ({x} \cap Loops)
    BY <2>1 DEF HandAssign, HandUnassign, ByHand
  <2> QED BY <2>2 DEF AssigneesMove
<1>3. CASE Tick
  BY <1>3 DEF Tick, AssigneesMove
<1> QED BY <1>1, <1>2, <1>3, <1>4 DEF Next, Step, LoopAct, HandStep

(* A loop that people touched is untouched again when it assigns itself.   *)
LEMMA TouchedStep ==
  ASSUME TypeOK, [Next]_vars, NEW l \in Loops, l \in touched, l \notin touched'
  PROVE  /\ pc[l] = "stake_assign"
         /\ pc'[l] = "stake_post" \/ (pc'[l] = "idle" /\ wait'[l] = Verify)
<1>1. ASSUME NEW a \in Loops, LoopAct(a), a # l PROVE FALSE
  BY <1>1, LoopFrame DEF Frame
<1>2. CASE PrClosed \/ HandStep \/ Tick \/ UNCHANGED vars
  BY <1>2 DEF PrClosed, HandStep, HandAssign, HandUnassign, ByHand, Tick, vars, people
<1>3. CASE StakeAssign(l)
  BY <1>3 DEF StakeAssign, Goto, TypeOK
<1>4. CASE CallFails(l)
  BY <1>4 DEF CallFails, Goto, TypeOK
<1>5. CASE LoopAct(l) /\ ~StakeAssign(l) /\ ~CallFails(l)
  <2>1. CASE StakeBegin(l) \/ StakeStep(l) \/ SettleStep(l)
    BY <1>5, <2>1 DEF StakeStep, SettleStep, StakeBegin, ReadAssignees, StakeDecide, StakeCheckPr,
      StakeUnassign, StakePost, StakeUndo, SettleBegin, SettleDecide, SettleUnassign, people
  <2>2. CASE RenewStep(l) \/ WorkStep(l) \/ RenewFails(l) \/ Crash(l)
    BY <2>2 DEF RenewStep, WorkStep, RenewBegin, RenewReadAssignees, RenewDecide, RenewEdit,
      confirm_renewal, RenewCutOff, PublishCheck, Publish, Abandon, RenewFails, Crash, people
  <2> QED BY <1>5, <2>1, <2>2 DEF LoopAct, FaultStep
<1> QED BY <1>1, <1>2, <1>3, <1>4, <1>5 DEF Next, Step, LoopAct, HandStep

\* One step of loop a's dispatch, from one phase to another.
Phase(a, from, to) == pc[a] \in from /\ pc'[a] \in to
KeepsLease(a) == ren'[a] = ren[a] /\ left'[a] = left[a] /\ lost'[a] = lost[a]
KeepsView(a) == snap'[a] = snap[a] /\ stale'[a] = stale[a]

DispatchMove(a) ==
  \/ /\ Phase(a, {"idle"}, {"stake_view"}) /\ (QuickRetry \/ wait[a] = 0)
     /\ KeepsLease(a) /\ KeepsView(a) /\ el'[a] = 0 /\ wait'[a] = 0
  \/ /\ Phase(a, {"stake_view"}, {"stake_claims"}) \/ Phase(a, {"settle_view"}, {"settle_claims"})
     /\ KeepsLease(a) /\ snap'[a] = assignees /\ stale'[a] = stale[a]
     /\ el'[a] = el[a] /\ wait'[a] = wait[a] /\ UNCHANGED board
  \/ /\ Phase(a, {"stake_claims", "settle_claims"}, {"held"})
     /\ standing(a, snap[a], el[a]).is = "mine"
     /\ ren'[a] = "wait" /\ left'[a] = Remaining(a) /\ lost'[a] = FALSE
     /\ stale'[a] = stale[a] /\ wait'[a] = wait[a] /\ UNCHANGED board
     /\ el'[a] = 0
  \/ /\ Phase(a, {"stake_claims"}, {"idle", "stake_assign", "stake_pr"})
     /\ pc'[a] = "idle" \/ (standing(a, snap[a], el[a]).is \in {"unclaimed", "stale"} /\ el'[a] = el[a])
     /\ KeepsLease(a) /\ stale'[a] = standing(a, snap[a], el[a]).stale
     /\ el'[a] \in {0, el[a]} /\ wait'[a] = wait[a]
  \/ /\ Phase(a, {"settle_claims"}, {"settle_unassign"})
     /\ KeepsLease(a) /\ stale'[a] = stale[a] /\ wait'[a] = wait[a] /\ el'[a] = 0
  \/ /\ \/ Phase(a, {"stake_pr"}, {"stake_unassign"}) \/ Phase(a, {"stake_unassign"}, {"stake_assign"})
        \/ Phase(a, {"stake_assign"}, {"stake_post"})
        \/ Phase(a, {"stake_pr", "stake_undo", "settle_unassign"}, {"idle"})
     /\ KeepsLease(a) /\ snap'[a] = snap[a] /\ stale'[a] \in {{}, stale[a]}
     /\ wait'[a] = wait[a] /\ (el'[a] = el[a] \/ pc'[a] = "idle")
  \/ /\ Phase(a, {"stake_post"}, {"verify"})
     /\ KeepsLease(a) /\ KeepsView(a) /\ wait'[a] = Verify
  \/ /\ Phase(a, {"verify"}, {"settle_view"}) /\ wait[a] = 0
     /\ KeepsLease(a) /\ KeepsView(a) /\ wait'[a] = wait[a] /\ el'[a] = 0
  \/ /\ Phase(a, {"held"}, {"publish"}) /\ KeepsLease(a) /\ KeepsView(a)
     /\ wait'[a] = wait[a] /\ el'[a] = el[a]
  \/ /\ Phase(a, Working, {"idle"}) /\ ren'[a] = "stopped" /\ left'[a] = 0
     /\ KeepsView(a) /\ wait'[a] = wait[a]
  \/ /\ Phase(a, Phases \ Working, {"idle", "stake_undo"}) /\ KeepsLease(a)
     /\ stale'[a] = {} /\ wait'[a] = Verify
  \/ /\ Phase(a, Phases \ {"idle"}, {"idle"}) /\ ren'[a] = "stopped" /\ left'[a] = 0
     /\ stale'[a] = {} /\ wait'[a] = Verify

\* One step of its renewer.
RenewMove(a) ==
  /\ pc'[a] = pc[a] /\ ren[a] # "stopped" /\ wait'[a] = wait[a] /\ stale'[a] = stale[a]
  /\ \/ ren'[a] \in {"wait", "stopped"} /\ left'[a] = left[a]
     \/ ren[a] = "wait" /\ ren'[a] = "view" /\ left'[a] = left[a]
     \/ /\ ren[a] = "view" /\ ren'[a] = "claims" /\ snap'[a] = assignees
        /\ left'[a] = left[a] /\ el'[a] = el[a] /\ UNCHANGED board
     \/ /\ ren[a] = "claims" /\ ren'[a] = "edit" /\ left'[a] = left[a] /\ el'[a] = el[a]
        /\ standing(a, snap[a], el[a]).is = "mine" /\ UNCHANGED board
     \/ /\ ren[a] = "edit" /\ ren'[a] = "confirm" /\ left[a] > 0 /\ left'[a] = left[a]
        /\ el'[a] = el[a] /\ claims' = Renewed(a) /\ assignees' = assignees
     \/ /\ ren[a] = "confirm" /\ ren'[a] = "wait" /\ left[a] > 0
        /\ left'[a] = IF el[a] < TTL THEN TTL - el[a] ELSE 0
        /\ UNCHANGED board

(* Every step of a loop is one of these.                                   *)
LEMMA LoopMoves ==
  ASSUME TypeOK, NEW a \in Loops, LoopAct(a)
  PROVE  DispatchMove(a) \/ RenewMove(a)
<1> USE DEF TypeOK
<1>1. CASE StakeBegin(a)
  BY <1>1 DEF StakeBegin, Goto, lease, DispatchMove, Phase, KeepsLease, KeepsView
<1>2. CASE \/ ReadAssignees(a, "stake_view", "stake_claims")
           \/ ReadAssignees(a, "settle_view", "settle_claims")
  BY <1>2 DEF ReadAssignees, Goto, lease, board, DispatchMove, Phase, KeepsLease, KeepsView
<1>3. CASE StakeDecide(a)
  <2> DEFINE st == standing(a, snap[a], el[a])
  <2>1. st.is \in {"mine", "theirs", "unclaimed", "stale"}
    BY DEF standing
  <2> HIDE DEF st
  <2>2. CASE st.is = "mine"
    BY <1>3, <2>2 DEF StakeDecide, StartLease, ClearClock, Goto, board, st, DispatchMove, Phase
  <2>3. CASE st.is # "mine"
    <3>1. /\ pc[a] = "stake_claims" /\ stale'[a] = st.stale /\ KeepsLease(a) /\ wait'[a] = wait[a]
          /\ pc'[a] = CASE st.is = "theirs"    -> "idle"
                     [] st.is = "unclaimed" -> "stake_assign"
                     [] st.is = "stale"     -> "stake_pr"
          /\ el'[a] = IF st.is = "theirs" THEN 0 ELSE el[a]
      BY <1>3, <2>3 DEF StakeDecide, Goto, ClearClock, lease, KeepsLease, st
    <3>2. /\ Phase(a, {"stake_claims"}, {"idle", "stake_assign", "stake_pr"})
          /\ pc'[a] = "idle" \/ (st.is \in {"unclaimed", "stale"} /\ el'[a] = el[a])
          /\ el'[a] \in {0, el[a]}
      BY <2>1, <2>3, <3>1 DEF Phase
    <3> QED BY <3>1, <3>2 DEF DispatchMove, st
  <2> QED BY <2>2, <2>3
<1>4. CASE SettleDecide(a)
  BY <1>4 DEF SettleDecide, StartLease, ClearClock, Goto, lease, board, DispatchMove, Phase,
    KeepsLease
<1>5. CASE StakeCheckPr(a) \/ StakeUnassign(a) \/ StakeAssign(a) \/ StakeUndo(a) \/ SettleUnassign(a)
  BY <1>5 DEF StakeCheckPr, StakeUnassign, StakeAssign, StakeUndo, SettleUnassign, ClearClock,
    Goto, lease, DispatchMove, Phase, KeepsLease
<1>6. CASE StakePost(a) \/ SettleBegin(a) \/ PublishCheck(a)
  BY <1>6 DEF StakePost, SettleBegin, PublishCheck, ClearClock, Goto, lease, DispatchMove,
    Phase, KeepsLease, KeepsView
<1>7. CASE Publish(a) \/ Abandon(a)
  BY <1>7 DEF Publish, Abandon, EndLease, Goto, GotoRen, DispatchMove, Phase, KeepsView, Working
<1>8. CASE CallFails(a)
  BY <1>8 DEF CallFails, Goto, lease, DispatchMove, Phase, KeepsLease, Working, Phases
<1>9. CASE Crash(a)
  BY <1>9 DEF Crash, EndLease, Goto, GotoRen, DispatchMove, Phase
<1>10. CASE RenewBegin(a) \/ RenewReadAssignees(a) \/ RenewDecide(a) \/ RenewEdit(a)
            \/ RenewCutOff(a) \/ RenewFails(a)
  BY <1>10 DEF RenewBegin, RenewReadAssignees, RenewDecide, RenewEdit, RenewCutOff, RenewFails,
    GotoRen, ClearClock, lease, board, RenewMove
<1>11. CASE confirm_renewal(a)
  BY <1>11 DEF confirm_renewal, GotoRen, ClearClock, lease, board, RenewMove
<1> QED BY <1>1, <1>2, <1>3, <1>4, <1>5, <1>6, <1>7, <1>8, <1>9, <1>10, <1>11
  DEF LoopAct, StakeStep, SettleStep, RenewStep, WorkStep, FaultStep

(* A loop's view of the item is a set of logins, and those it finds stale  *)
(* have a claim, so they are loops.                                        *)
LEMMA StaleAreLoops ==
  ASSUME TypeOK, NEW a \in Loops, NEW seen, NEW n
  PROVE  standing(a, seen, n).stale \subseteq Loops
<1>1. claims \in Board
  BY DEF TypeOK, Board
<1>2. \A x : HasClaim(x) => x \in Loops
  BY <1>1, PosFacts DEF HasClaim, Has
<1> QED BY <1>2 DEF standing

\* TypeOK but for the comments.
RestOK ==
  /\ assignees \subseteq Logins /\ prOpen \in BOOLEAN
  /\ pc \in [Loops -> Phases] /\ ren \in [Loops -> RenewPhases]
  /\ el \in [Loops -> 0..MaxAge]
  /\ snap \in [Loops -> SUBSET Logins] /\ stale \in [Loops -> SUBSET Logins]
  /\ wait \in [Loops -> 0..Verify] /\ left \in [Loops -> 0..TTL] /\ lost \in [Loops -> BOOLEAN]
  /\ personAge \in 0..TTL /\ touched \subseteq Loops /\ faults \in 0..Faults

(* Every step keeps the type of the state.                                 *)
LEMMA TypeStep ==
  ASSUME Base, [Next]_vars
  PROVE  TypeOK'
<1>1. TypeOK /\ Shape /\ claims' \in Board
  BY BoardStep DEF Base
<1>2. RestOK
  BY <1>1 DEF TypeOK, RestOK
<1>3. MaxAge \in Nat /\ TTL <= MaxAge /\ MaxDelay <= MaxAge
  BY DEF MaxAge
<1>4. ASSUME NEW a \in Loops, LoopAct(a) PROVE RestOK'
  <2>1. a \in Logins /\ stale[a] \subseteq Loops /\ \A n : standing(a, snap[a], n).stale \subseteq Logins
    BY <1>1, StaleAreLoops DEF Logins, Shape
  <2>2. 0 \in 0..MaxAge /\ 0 \in 0..Verify /\ Verify \in 0..Verify /\ 0 \in 0..TTL
    BY <1>3
  <2>3. Remaining(a) \in 0..TTL \/ ~HasClaim(a)
    <3>1. ASSUME HasClaim(a) PROVE AgeOf(a) \in Nat
      <4>1. Age(claims, a) \in 0..MaxAge
        BY <1>1, <3>1, PosFacts DEF TypeOK, Board, HasClaim, Has
      <4> QED BY <1>3, <4>1 DEF AgeOf, Age, IdOf, Pos
    <3> QED BY <3>1 DEF Remaining
  <2>4. standing(a, snap[a], el[a]).is = "mine" => HasClaim(a)
    BY DEF standing, Wins, IsLive
  <2>5. UNCHANGED lost \/ lost' = [lost EXCEPT ![a] = TRUE] \/ lost' = [lost EXCEPT ![a] = FALSE]
    BY <1>4 DEF LoopAct, StakeStep, SettleStep, RenewStep, WorkStep, FaultStep, StakeBegin,
      ReadAssignees, StakeDecide, StakeCheckPr, StakeUnassign, StakeAssign, StakePost, StakeUndo,
      SettleBegin, SettleDecide, SettleUnassign, RenewBegin, RenewReadAssignees, RenewDecide,
      RenewEdit, confirm_renewal, RenewCutOff, PublishCheck, Publish, Abandon, CallFails,
      RenewFails, Crash, StartLease, EndLease, ClearClock, Goto, GotoRen, SpendFault, lease, board
  <2>6. lost' \in [Loops -> BOOLEAN]
    BY <1>2, <2>5 DEF RestOK
  <2>7. UNCHANGED ren \/ \E ph \in RenewPhases : ren' = [ren EXCEPT ![a] = ph]
    BY <1>4 DEF RenewPhases, LoopAct, StakeStep, SettleStep, RenewStep, WorkStep, FaultStep, StakeBegin,
      ReadAssignees, StakeDecide, StakeCheckPr, StakeUnassign, StakeAssign, StakePost, StakeUndo,
      SettleBegin, SettleDecide, SettleUnassign, RenewBegin, RenewReadAssignees, RenewDecide,
      RenewEdit, confirm_renewal, RenewCutOff, PublishCheck, Publish, Abandon, CallFails,
      RenewFails, Crash, StartLease, EndLease, ClearClock, Goto, GotoRen, SpendFault, lease, board
  <2>8. UNCHANGED el \/ el' = [el EXCEPT ![a] = 0]
    BY <1>4 DEF LoopAct, StakeStep, SettleStep, RenewStep, WorkStep, FaultStep, StakeBegin,
      ReadAssignees, StakeDecide, StakeCheckPr, StakeUnassign, StakeAssign, StakePost, StakeUndo,
      SettleBegin, SettleDecide, SettleUnassign, RenewBegin, RenewReadAssignees, RenewDecide,
      RenewEdit, confirm_renewal, RenewCutOff, PublishCheck, Publish, Abandon, CallFails,
      RenewFails, Crash, StartLease, EndLease, ClearClock, Goto, GotoRen, SpendFault, lease, board
  <2>9. UNCHANGED wait \/ wait' = [wait EXCEPT ![a] = 0] \/ wait' = [wait EXCEPT ![a] = Verify]
    BY <1>4 DEF LoopAct, StakeStep, SettleStep, RenewStep, WorkStep, FaultStep, StakeBegin,
      ReadAssignees, StakeDecide, StakeCheckPr, StakeUnassign, StakeAssign, StakePost, StakeUndo,
      SettleBegin, SettleDecide, SettleUnassign, RenewBegin, RenewReadAssignees, RenewDecide,
      RenewEdit, confirm_renewal, RenewCutOff, PublishCheck, Publish, Abandon, CallFails,
      RenewFails, Crash, StartLease, EndLease, ClearClock, Goto, GotoRen, SpendFault, lease, board
  <2>10. UNCHANGED left \/ \E n \in 0..TTL : left' = [left EXCEPT ![a] = n]
    <3>1. PICK n \in 0..TTL : n = IF el[a] < TTL THEN TTL - el[a] ELSE 0
      BY <1>2, <1>3 DEF RestOK
    <3>2. CASE StakeDecide(a) \/ SettleDecide(a)
      BY <2>3, <2>4, <3>2 DEF StakeDecide, SettleDecide, StartLease, lease
    <3>3. CASE ~(StakeDecide(a) \/ SettleDecide(a))
      BY <1>4, <2>2, <3>1, <3>3 DEF LoopAct, StakeStep, SettleStep, RenewStep, WorkStep, FaultStep, StakeBegin, ReadAssignees,
      StakeCheckPr, StakeUnassign, StakeAssign, StakePost, StakeUndo, SettleBegin, SettleUnassign,
      RenewBegin, RenewReadAssignees, RenewDecide, RenewEdit, confirm_renewal, RenewCutOff,
      PublishCheck, Publish, Abandon, CallFails, RenewFails, Crash, EndLease, ClearClock, Goto,
      GotoRen, SpendFault, lease, board
    <3> QED BY <3>2, <3>3
  <2>11. UNCHANGED snap \/ snap' = [snap EXCEPT ![a] = {}] \/ snap' = [snap EXCEPT ![a] = assignees]
    BY <1>4 DEF LoopAct, StakeStep, SettleStep, RenewStep, WorkStep, FaultStep, StakeBegin,
      ReadAssignees, StakeDecide, StakeCheckPr, StakeUnassign, StakeAssign, StakePost, StakeUndo,
      SettleBegin, SettleDecide, SettleUnassign, RenewBegin, RenewReadAssignees, RenewDecide,
      RenewEdit, confirm_renewal, RenewCutOff, PublishCheck, Publish, Abandon, CallFails,
      RenewFails, Crash, StartLease, EndLease, ClearClock, Goto, GotoRen, SpendFault, lease, board
  <2>12. \/ UNCHANGED stale \/ stale' = [stale EXCEPT ![a] = {}]
         \/ stale' = [stale EXCEPT ![a] = standing(a, snap[a], el[a]).stale]
    BY <1>4 DEF LoopAct, StakeStep, SettleStep, RenewStep, WorkStep, FaultStep, StakeBegin,
      ReadAssignees, StakeDecide, StakeCheckPr, StakeUnassign, StakeAssign, StakePost, StakeUndo,
      SettleBegin, SettleDecide, SettleUnassign, RenewBegin, RenewReadAssignees, RenewDecide,
      RenewEdit, confirm_renewal, RenewCutOff, PublishCheck, Publish, Abandon, CallFails,
      RenewFails, Crash, StartLease, EndLease, ClearClock, Goto, GotoRen, SpendFault, lease, board
  <2>13. \E ph \in Phases : pc' = [pc EXCEPT ![a] = ph]
    <3>1. CASE StakeDecide(a)
      <4>1. standing(a, snap[a], el[a]).is \in {"mine", "theirs", "unclaimed", "stale"}
        BY DEF standing
      <4> QED BY <3>1, <4>1 DEF StakeDecide, StartLease, Goto, Phases
    <3>2. CASE RenewStep(a) \/ RenewFails(a)
      <4>1. UNCHANGED pc
        BY <3>2 DEF RenewStep, RenewFails, RenewBegin, RenewReadAssignees, RenewDecide, RenewEdit,
          confirm_renewal, RenewCutOff
      <4> QED BY <1>2, <4>1 DEF RestOK
    <3>3. CASE ~(StakeDecide(a) \/ RenewStep(a) \/ RenewFails(a))
      BY <1>4, <3>3 DEF Phases, LoopAct, StakeStep, SettleStep, WorkStep, FaultStep, StakeBegin, ReadAssignees, StakeCheckPr,
      StakeUnassign, StakeAssign, StakePost, StakeUndo, SettleBegin, SettleDecide, SettleUnassign,
      PublishCheck, Publish, Abandon, CallFails, Crash, StartLease, EndLease, ClearClock, Goto,
      GotoRen, SpendFault, lease, board
    <3> QED BY <3>1, <3>2, <3>3
  <2>14. assignees' \subseteq Logins
    BY <1>1, <1>2, <1>4, <2>1, AssigneesStep DEF RestOK, LoopAct, StakeStep, SettleStep, RenewStep, WorkStep, FaultStep, StakeBegin,
      ReadAssignees, StakeDecide, StakeCheckPr, StakeUnassign, StakeAssign, StakePost, StakeUndo,
      SettleBegin, SettleDecide, SettleUnassign, RenewBegin, RenewReadAssignees, RenewDecide,
      RenewEdit, confirm_renewal, RenewCutOff, PublishCheck, Publish, Abandon, CallFails,
      RenewFails, Crash, StartLease, EndLease, ClearClock, Goto, GotoRen, SpendFault, lease, board
  <2>15. UNCHANGED personAge /\ touched' \subseteq touched /\ (UNCHANGED prOpen \/ prOpen' = TRUE)
           /\ (UNCHANGED faults \/ (faults > 0 /\ faults' = faults - 1))
    <3>1. CASE StakeBegin(a) \/ StakeStep(a)
      BY <3>1 DEF StakeStep, StakeBegin, ReadAssignees, StakeDecide, StakeCheckPr, StakeUnassign,
        StakeAssign, StakePost, StakeUndo, ClearClock, Goto, lease, board, people
    <3>2. CASE SettleStep(a)
      BY <3>2 DEF SettleStep, ReadAssignees, SettleBegin, SettleDecide, SettleUnassign, StartLease,
        ClearClock, Goto, lease, board, people
    <3>3. CASE RenewStep(a)
      BY <3>3 DEF RenewStep, RenewBegin, RenewReadAssignees, RenewDecide, RenewEdit,
        confirm_renewal, RenewCutOff, ClearClock, GotoRen, lease, board, people
    <3>4. CASE WorkStep(a)
      BY <3>4 DEF WorkStep, PublishCheck, Publish, Abandon, EndLease, Goto, GotoRen, lease, board,
        people
    <3>5. CASE FaultStep(a)
      BY <3>5 DEF FaultStep, CallFails, RenewFails, Crash, EndLease, ClearClock, Goto, GotoRen,
        SpendFault, lease, board, people
    <3> QED BY <1>4, <3>1, <3>2, <3>3, <3>4, <3>5 DEF LoopAct
  <2>16. pc' \in [Loops -> Phases] /\ ren' \in [Loops -> RenewPhases]
    BY <1>2, <2>7, <2>13 DEF RestOK
  <2>17. el' \in [Loops -> 0..MaxAge] /\ wait' \in [Loops -> 0..Verify] /\ left' \in [Loops -> 0..TTL]
    <3>1. el' \in [Loops -> 0..MaxAge]
      BY <1>2, <2>2, <2>8 DEF RestOK
    <3>2. wait' \in [Loops -> 0..Verify]
      BY <1>2, <2>2, <2>9 DEF RestOK
    <3>3. left' \in [Loops -> 0..TTL]
      BY <1>2, <2>10 DEF RestOK
    <3> QED BY <3>1, <3>2, <3>3
  <2>18. snap' \in [Loops -> SUBSET Logins] /\ stale' \in [Loops -> SUBSET Logins]
    BY <1>2, <2>1, <2>11, <2>12 DEF RestOK
  <2>19. prOpen' \in BOOLEAN
    BY <1>2, <2>15, Zenon DEF RestOK
  <2>20. personAge' \in 0..TTL /\ touched' \subseteq Loops /\ faults' \in 0..Faults
    BY <1>2, <2>15 DEF RestOK
  <2> QED BY <2>6, <2>14, <2>16, <2>17, <2>18, <2>19, <2>20 DEF RestOK
<1>5. ASSUME PrClosed \/ HandStep \/ UNCHANGED vars
      PROVE  RestOK'
  <2>1. /\ UNCHANGED <<pc, ren, el, snap, stale, wait, left, lost>>
        /\ UNCHANGED prOpen \/ prOpen' = FALSE
        /\ UNCHANGED personAge \/ personAge' = 0
        /\ UNCHANGED faults \/ (faults > 0 /\ faults' = faults - 1)
        /\ touched' \subseteq touched \cup Loops
        /\ \/ UNCHANGED assignees
           \/ \E x \in Logins : assignees' \in {assignees \cup {x}, assignees \ {x}}
    <3>1. Persons \cup Managed \subseteq Logins
      BY DEF Logins
    <3> QED BY <1>5, <3>1 DEF PrClosed, HandStep, HandAssign, HandUnassign, ByHand, SpendFault,
      vars, lease, people
  <2>2. assignees' \subseteq Logins
    BY <1>2, <2>1 DEF RestOK, Logins
  <2>3. prOpen' \in BOOLEAN
    BY <1>2, <2>1, Zenon DEF RestOK
  <2>4. personAge' \in 0..TTL /\ faults' \in 0..Faults /\ touched' \subseteq Loops
    BY <1>2, <2>1 DEF RestOK
  <2> QED BY <1>2, <2>1, <2>2, <2>3, <2>4 DEF RestOK
<1>6. ASSUME Tick PROVE RestOK'
  <2>1. el' \in [Loops -> 0..MaxAge]
    BY <1>2, <1>3, <1>6 DEF Tick, RestOK, UpTo
  <2>2. wait' \in [Loops -> 0..Verify] /\ left' \in [Loops -> 0..TTL]
    <3>1. /\ \A l \in Loops : wait[l] \in 0..Verify /\ left[l] \in 0..TTL
          /\ wait' = [l \in Loops |-> IF wait[l] > 0 THEN wait[l] - 1 ELSE 0]
          /\ left' = [l \in Loops |-> IF left[l] > 0 THEN left[l] - 1 ELSE 0]
      BY <1>2, <1>6 DEF Tick, RestOK
    <3>2. wait' \in [Loops -> 0..Verify]
      BY <3>1
    <3>3. left' \in [Loops -> 0..TTL]
      BY <3>1
    <3> QED BY <3>2, <3>3
  <2>3. personAge' \in 0..TTL
    BY <1>2, <1>6 DEF Tick, RestOK, UpTo
  <2> QED BY <1>2, <1>6, <2>1, <2>2, <2>3 DEF Tick, RestOK
<1>7. RestOK'
  BY <1>4, <1>5, <1>6 DEF Next, Step, LoopAct, HandStep
<1> QED BY <1>1, <1>7 DEF RestOK, TypeOK, Board

(* Every step keeps the shape of a loop's state.                           *)
LEMMA BaseStep == Base /\ [Next]_vars => Base'
<1> SUFFICES ASSUME Base, [Next]_vars PROVE Base'
  OBVIOUS
<1>1. TypeOK /\ TypeOK' /\ Shape /\ \A y : Has(claims, y) => Has(claims', y)
  BY TypeStep, BoardStep DEF Base
<1>2. ASSUME NEW a \in Loops, LoopAct(a), NEW l \in Loops
      PROVE  /\ pc'[l] \notin Working => ren'[l] = "stopped"
             /\ pc'[l] \in Working => Has(claims', l)
             /\ pc'[l] \in StakePhases \cup SettlePhases => el'[l] <= MaxDelay
             /\ pc'[l] \notin {"idle", "verify", "stake_undo"} => wait'[l] = 0
             /\ stale'[l] \subseteq Loops
  <2>1. CASE l # a
    BY <1>1, <1>2, <2>1, LoopFrame DEF Shape, Frame
  <2>2. CASE l = a
    <3>1. standing(a, snap[a], el[a]).is = "mine" => Has(claims, a)
      BY DEF standing, Wins, IsLive, HasClaim, Has
    <3>2. standing(a, snap[a], el[a]).stale \subseteq Loops
      BY <1>1, StaleAreLoops
    <3>3. /\ pc[a] \notin Working => ren[a] = "stopped"
          /\ pc[a] \in Working => Has(claims, a)
          /\ pc[a] \in StakePhases \cup SettlePhases => el[a] <= MaxDelay
          /\ pc[a] \notin {"idle", "verify", "stake_undo"} => wait[a] = 0
          /\ stale[a] \subseteq Loops /\ pc[a] \in Phases
      BY <1>1 DEF Shape, TypeOK
    <3>4. CASE DispatchMove(a)
      BY <1>1, <2>2, <3>1, <3>2, <3>3, <3>4 DEF DispatchMove, Phase, KeepsLease, KeepsView, Working,
        StakePhases, SettlePhases
    <3>5. CASE RenewMove(a)
      BY <1>1, <2>2, <3>3, <3>5 DEF RenewMove, Working, StakePhases, SettlePhases
    <3> QED BY <1>1, <1>2, <3>4, <3>5, LoopMoves
  <2> QED BY <2>1, <2>2
<1>3. ASSUME UNCHANGED <<pc, ren, stale>>, NEW l \in Loops, 
             pc[l] \in StakePhases \cup SettlePhases => el'[l] <= MaxDelay,
             wait[l] = 0 => wait'[l] = 0
      PROVE  /\ pc'[l] \notin Working => ren'[l] = "stopped"
             /\ pc'[l] \in Working => Has(claims', l)
             /\ pc'[l] \in StakePhases \cup SettlePhases => el'[l] <= MaxDelay
             /\ pc'[l] \notin {"idle", "verify", "stake_undo"} => wait'[l] = 0
             /\ stale'[l] \subseteq Loops
  BY <1>1, <1>3 DEF Shape
<1>4. CASE Tick
  <2>1. ASSUME NEW l \in Loops, pc[l] \in StakePhases \cup SettlePhases PROVE el'[l] <= MaxDelay
    <3>1. el[l] < MaxDelay /\ el[l] \in Nat /\ el'[l] = UpTo(MaxAge, el[l])
      BY <1>1, <1>4, <2>1 DEF Tick, TypeOK, MaxAge
    <3> QED BY <3>1 DEF UpTo
  <2>2. \A l \in Loops : wait[l] = 0 => wait'[l] = 0
    BY <1>4 DEF Tick
  <2> QED BY <1>1, <1>3, <1>4, <2>1, <2>2 DEF Tick, Base, Shape
<1>5. CASE PrClosed \/ HandStep \/ UNCHANGED vars
  <2>1. UNCHANGED <<pc, ren, stale, el, wait>>
    BY <1>5 DEF PrClosed, HandStep, HandAssign, HandUnassign, ByHand, vars
  <2>2. \A l \in Loops : pc[l] \in StakePhases \cup SettlePhases => el'[l] <= MaxDelay
    BY <1>1, <2>1 DEF Shape
  <2> QED BY <1>1, <1>3, <2>1, <2>2 DEF Base, Shape
<1>6. ASSUME NEW a \in Loops, LoopAct(a) PROVE Base'
  BY <1>1, <1>2, <1>6 DEF Base, Shape
<1> QED BY <1>4, <1>5, <1>6 DEF Next, Step, LoopAct, HandStep

(* Types and phases hold throughout.                                       *)
LEMMA BaseInvariant == Spec => []Base
<1>1. Init => Base
  <2> SUFFICES ASSUME Init PROVE Base
    OBVIOUS
  <2>1. claims = <<>> /\ claims \in Seq(Claim) /\ DOMAIN claims = {}
    BY DEF Init
  <2>2. MaxAge \in Nat
    BY DEF MaxAge
  <2>3. pc \in [Loops -> Phases] /\ ren \in [Loops -> RenewPhases] /\ lost \in [Loops -> BOOLEAN]
    BY DEF Init, Phases, RenewPhases
  <2>4. el \in [Loops -> 0..MaxAge] /\ wait \in [Loops -> 0..Verify] /\ left \in [Loops -> 0..TTL]
    BY <2>2 DEF Init
  <2>5. snap \in [Loops -> SUBSET Logins] /\ stale \in [Loops -> SUBSET Logins]
          /\ assignees \subseteq Logins
    BY DEF Init, Logins
  <2>6. prOpen \in BOOLEAN /\ personAge \in 0..TTL /\ faults \in 0..Faults /\ touched \subseteq Loops
    BY DEF Init
  <2>7. Shape
    BY DEF Init, Shape, Working, StakePhases, SettlePhases
  <2> QED BY <2>1, <2>3, <2>4, <2>5, <2>6, <2>7 DEF Base, TypeOK
<1> QED BY <1>1, BaseStep, PTL DEF Spec

(* TypeOK, for any loops and people: whatever calls fail after they were   *)
(* applied, the board keeps one latest comment for every login.            *)
THEOREM IssueTypes == Spec => []TypeOK
<1>1. Base => TypeOK
  BY DEF Base
<1> QED BY <1>1, BaseInvariant, PTL

(* PersonNeverRemoved: a loop unassigns itself or logins it found stale,   *)
(* and only a login with a claim comment, a loop's, is found stale.        *)
THEOREM PersonKept == Spec => PersonNeverRemoved
<1>1. ASSUME Base, [Next]_vars, NEW x \in Persons, x \in assignees, x \notin assignees'
      PROVE  HandUnassign(x)
  <2>1. TypeOK /\ x \notin Loops /\ \A a \in Loops : x \notin stale[a]
    BY <1>1 DEF Base, Shape
  <2>2. ASSUME NEW a \in Loops, LoopAct(a) PROVE FALSE
    BY <1>1, <2>1, <2>2 DEF LoopAct, StakeStep, SettleStep, RenewStep, WorkStep, FaultStep, StakeBegin,
      ReadAssignees, StakeDecide, StakeCheckPr, StakeUnassign, StakeAssign, StakePost, StakeUndo,
      SettleBegin, SettleDecide, SettleUnassign, RenewBegin, RenewReadAssignees, RenewDecide,
      RenewEdit, confirm_renewal, RenewCutOff, PublishCheck, Publish, Abandon, CallFails,
      RenewFails, Crash, board
  <2>3. CASE PrClosed \/ Tick \/ UNCHANGED vars
    BY <1>1, <2>3 DEF PrClosed, Tick, vars
  <2>4. ASSUME NEW y \in Persons \cup Managed, HandAssign(y) \/ HandUnassign(y) PROVE HandUnassign(x)
    BY <1>1, <2>4 DEF HandAssign, HandUnassign
  <2> QED BY <1>1, <2>2, <2>3, <2>4 DEF Next, Step, LoopAct, HandStep
<1>2. Base /\ [Next]_vars
        => [\A x \in Persons : x \in assignees /\ x \notin assignees' => HandUnassign(x)]_vars
  BY <1>1
<1> QED BY <1>2, BaseInvariant, PTL DEF Spec, PersonNeverRemoved

-----------------------------------------------------------------------------
(* The deadline of a lease *)

Idles(l) ==
  /\ pc'[l] = pc[l] /\ ren'[l] = ren[l] /\ el'[l] = el[l] /\ snap'[l] = snap[l]
  /\ wait'[l] = wait[l] /\ left'[l] = left[l]

(* A loop moves by a step of its own or with time, else it stays.          *)
LEMMA LoopStep ==
  ASSUME Base, [Next]_vars, ~Tick, NEW l \in Loops
  PROVE  DispatchMove(l) \/ RenewMove(l) \/ Idles(l)
<1>1. TypeOK
  BY DEF Base
<1>2. ASSUME NEW a \in Loops, LoopAct(a), a # l PROVE Idles(l)
  BY <1>1, <1>2, LoopFrame DEF Frame, Idles
<1>3. CASE LoopAct(l)
  BY <1>1, <1>3, LoopMoves
<1>4. CASE PrClosed \/ HandStep \/ UNCHANGED vars
  BY <1>4 DEF PrClosed, HandStep, HandAssign, HandUnassign, ByHand, vars, lease, Idles
<1> QED BY <1>2, <1>3, <1>4 DEF Next, Step, LoopAct, HandStep

(* Only its own step moves a loop from phase to phase.                     *)
LEMMA OwnStep ==
  ASSUME Base, [Next]_vars, NEW l \in Loops, pc'[l] # pc[l]
  PROVE  LoopAct(l)
<1>1. TypeOK
  BY DEF Base
<1>2. ASSUME NEW a \in Loops, LoopAct(a), a # l PROVE FALSE
  BY <1>1, <1>2, LoopFrame DEF Frame
<1>3. CASE PrClosed \/ HandStep \/ Tick \/ UNCHANGED vars
  BY <1>3 DEF PrClosed, HandStep, HandAssign, HandUnassign, ByHand, Tick, vars
<1> QED BY <1>2, <1>3 DEF Next, Step, LoopAct, HandStep

\* A claim gets age 0 by a post of its login.
NewComment(y) ==
  /\ Age(claims', y) = 0 /\ pc[y] = "stake_post"
  /\ pc'[y] \in {"verify", "stake_undo"} /\ wait'[y] = Verify

(* A claim ages with time, and gets age 0 by a post or a renewal.          *)
LEMMA AgeStep ==
  ASSUME Base, [Next]_vars, NEW y \in Loops, Has(claims', y)
  PROVE  /\ ~Has(claims, y) => NewComment(y)
         /\ Has(claims, y) => /\ Age(claims, y) \in 0..MaxAge /\ Age(claims', y) \in 0..MaxAge
                              /\ \/ Age(claims', y) = Age(claims, y)
                                 \/ NewComment(y)
                                 \/ /\ Age(claims', y) = 0 /\ ren[y] = "edit" /\ left[y] > 0
                                    /\ pc'[y] = pc[y] /\ left'[y] = left[y]
                                 \/ Tick
<1>1. TypeOK /\ ClaimsMove /\ claims \in Board /\ claims' \in Board
  BY ClaimsStep, BoardStep DEF Base
<1>2. Has(claims, y) => Age(claims, y) \in 0..MaxAge /\ Age(claims', y) \in 0..MaxAge
  BY <1>1, PosFacts
<1>3. CASE claims' = claims
  BY <1>2, <1>3
<1>4. ASSUME NEW a \in Loops, LoopAct(a), claims' = Posted(claims, a), pc[a] = "stake_post",
             pc'[a] \in {"verify", "stake_undo"}, wait'[a] = Verify
      PROVE  IF a = y THEN NewComment(y)
             ELSE Has(claims, y) /\ Age(claims', y) = Age(claims, y)
  BY <1>1, <1>4, PostFacts DEF NewComment
<1>5. ASSUME NEW a \in Loops, claims' = Renewed(a), ren[a] = "edit", left[a] > 0,
             pc'[a] = pc[a], left'[a] = left[a]
      PROVE  Has(claims, y) /\ IF a = y THEN Age(claims', y) = 0
                               ELSE Age(claims', y) = Age(claims, y)
  <2>1. Has(claims, a)
    BY <1>5 DEF Base, Shape
  <2> QED BY <1>1, <1>5, <2>1, RenewFacts
<1>6. CASE Tick
  BY <1>1, <1>2, <1>6, TickFacts
<1> QED BY <1>1, <1>2, <1>3, <1>4, <1>5, <1>6 DEF ClaimsMove

(* The deadline of a lease is never after the expiry of its claim, lost or *)
(* not; and while a renewal waits for its confirmation, the comment is no  *)
(* older than the renewal.                                                 *)
Deadline ==
  \A l \in Loops : pc[l] \in Working /\ left[l] > 0
    => Has(claims, l) /\ left[l] + Age(claims, l) <= TTL

Confirming == \A l \in Loops : ren[l] = "confirm" => Has(claims, l) /\ Age(claims, l) <= el[l]

DeadlineInv == Base /\ Deadline /\ Confirming

(* What a loop makes of the item when it finds it its own: its claim is    *)
(* live, no person is among the assignees it saw, and it wins over every   *)
(* other live claim of theirs.                                             *)
LEMMA MineFacts ==
  ASSUME NEW a, NEW seen, NEW n, standing(a, seen, n).is = "mine"
  PROVE  /\ a \in seen /\ Has(claims, a)
         /\ \A x \in seen \ {a} : Has(claims, x)
         /\ Wins(a, {x \in seen : IsLive(x, n)})
<1>1. Wins(a, {x \in seen : IsLive(x, n)}) /\ \A x \in seen \ {a} : HasClaim(x)
  BY DEF standing
<1> QED BY <1>1 DEF Wins, IsLive, HasClaim, Has

(* Every step keeps deadlines within their claims.                         *)
LEMMA DeadlineStep == DeadlineInv /\ [Next]_vars => DeadlineInv'
<1> SUFFICES ASSUME DeadlineInv, [Next]_vars PROVE DeadlineInv'
  OBVIOUS
<1>1. Base /\ Base' /\ TypeOK /\ TypeOK' /\ claims \in Board
  BY BaseStep, BoardStep DEF DeadlineInv, Base
<1>2. ASSUME NEW l \in Loops
      PROVE  /\ left[l] \in Nat /\ left'[l] \in Nat /\ el[l] \in Nat /\ el'[l] \in Nat /\ MaxAge \in Nat
             /\ el[l] <= MaxAge /\ pc[l] \in Phases
             /\ ren[l] # "stopped" => pc[l] \in Working
             /\ ren'[l] # "stopped" => pc'[l] \in Working
             /\ pc[l] \in Working => Has(claims, l)
             /\ pc'[l] \in Working => Has(claims', l)
  BY <1>1 DEF TypeOK, Base, Shape, MaxAge
<1>3. ASSUME NEW l \in Loops, Has(claims, l)
      PROVE  Remaining(l) = IF Age(claims, l) < TTL THEN TTL - Age(claims, l) ELSE 0
  BY DEF Remaining, AgeOf, Age, IdOf, Pos
<1>4. Deadline'
  <2> SUFFICES ASSUME NEW l \in Loops, pc'[l] \in Working, left'[l] > 0
               PROVE  Has(claims', l) /\ left'[l] + Age(claims', l) <= TTL
    BY DEF Deadline
  <2>1. Has(claims', l)
    BY <1>2
  <2>2. CASE Tick
    <3>1. pc[l] \in Working /\ left'[l] = IF left[l] > 0 THEN left[l] - 1 ELSE 0
      BY <2>2 DEF Tick
    <3>2. Has(claims, l) /\ left[l] + Age(claims, l) <= TTL /\ left[l] > 0
      BY <1>2, <3>1 DEF DeadlineInv, Deadline
    <3>3. Age(claims', l) = UpTo(MaxAge, Age(claims, l)) /\ Age(claims, l) \in 0..MaxAge
      BY <1>1, <2>2, <3>2, TickFacts, PosFacts
    <3> QED BY <1>2, <2>1, <3>1, <3>2, <3>3 DEF UpTo
  <2>3. CASE ~Tick
    <3>1. Has(claims, l) => /\ Age(claims, l) \in 0..MaxAge /\ Age(claims', l) \in 0..MaxAge
                            /\ Age(claims', l) = Age(claims, l) \/ Age(claims', l) = 0
      BY <1>1, <2>1, <2>3, AgeStep DEF NewComment
    <3>2. ASSUME pc[l] \in Working, left'[l] = left[l]
          PROVE  left'[l] + Age(claims', l) <= TTL
      <4>1. left[l] + Age(claims, l) <= TTL /\ Has(claims, l)
        BY <3>2 DEF DeadlineInv, Deadline
      <4> QED BY <1>2, <3>1, <3>2, <4>1
    <3>3. CASE Idles(l)
      BY <2>1, <3>2, <3>3 DEF Idles
    <3>4. CASE RenewMove(l)
      <4>1. CASE left'[l] = left[l]
        BY <2>1, <3>2, <3>4, <4>1 DEF RenewMove
      <4>2. CASE left'[l] # left[l]
        <5>1. /\ ren[l] = "confirm" /\ left'[l] = (IF el[l] < TTL THEN TTL - el[l] ELSE 0)
              /\ claims' = claims
          BY <3>4, <4>2 DEF RenewMove, board
        <5>2. Has(claims, l) /\ Age(claims, l) <= el[l]
          BY <5>1 DEF DeadlineInv, Confirming
        <5> QED BY <1>2, <2>1, <3>1, <5>1, <5>2
      <4> QED BY <4>1, <4>2
    <3>5. CASE DispatchMove(l)
      <4>1. CASE pc[l] \in Working
        BY <1>2, <2>1, <3>2, <3>5, <4>1 DEF DispatchMove, Phase, KeepsLease, Working
      <4>2. CASE pc[l] \notin Working
        <5>1. /\ standing(l, snap[l], el[l]).is = "mine" /\ left'[l] = Remaining(l) /\ claims' = claims
          BY <3>5, <4>2 DEF DispatchMove, Phase, Working, board
        <5> QED BY <1>2, <1>3, <2>1, <3>1, <5>1, MineFacts
      <4> QED BY <4>1, <4>2
    <3> QED BY <1>1, <2>3, <3>3, <3>4, <3>5, LoopStep
  <2> QED BY <2>2, <2>3
<1>5. Confirming'
  <2> SUFFICES ASSUME NEW l \in Loops, ren'[l] = "confirm"
               PROVE  Has(claims', l) /\ Age(claims', l) <= el'[l]
    BY DEF Confirming
  <2>1. Has(claims', l)
    BY <1>2
  <2>2. CASE Tick
    <3>1. ren[l] = "confirm" /\ el'[l] = UpTo(MaxAge, el[l])
      BY <2>2 DEF Tick, RenewCalls
    <3>2. Has(claims, l) /\ Age(claims, l) <= el[l]
      BY <3>1 DEF DeadlineInv, Confirming
    <3>3. Age(claims', l) = UpTo(MaxAge, Age(claims, l)) /\ Age(claims, l) \in 0..MaxAge
      BY <1>1, <2>2, <3>2, TickFacts, PosFacts
    <3> QED BY <1>2, <2>1, <3>1, <3>2, <3>3 DEF UpTo
  <2>3. CASE ~Tick
    <3>1. CASE ren[l] = "confirm" /\ el'[l] = el[l]
      <4>1. Has(claims, l) /\ Age(claims, l) <= el[l]
        BY <3>1 DEF DeadlineInv, Confirming
      <4>2. Age(claims', l) = Age(claims, l) \/ Age(claims', l) = 0
        BY <1>1, <2>1, <2>3, <4>1, AgeStep DEF NewComment
      <4> QED BY <1>2, <2>1, <3>1, <4>1, <4>2
    <3>2. CASE ren[l] = "edit" /\ claims' = Renewed(l)
      <4>1. Has(claims, l)
        BY <1>2, <3>2
      <4> QED BY <1>1, <1>2, <2>1, <3>2, <4>1, RenewFacts
    <3>3. CASE Idles(l)
      BY <3>1, <3>3 DEF Idles
    <3>4. CASE RenewMove(l)
      BY <3>2, <3>4 DEF RenewMove
    <3>5. CASE DispatchMove(l)
      BY <1>2, <3>1, <3>5 DEF DispatchMove, Phase, KeepsLease, Working
    <3> QED BY <1>1, <2>3, <3>3, <3>4, <3>5, LoopStep
  <2> QED BY <2>2, <2>3
<1> QED BY <1>1, <1>4, <1>5 DEF DeadlineInv

(* The invariant about deadlines holds throughout.                         *)
LEMMA DeadlineInvariant == Spec => []DeadlineInv
<1>1. Init /\ Base => DeadlineInv
  BY DEF Init, DeadlineInv, Deadline, Confirming, Working
<1> QED BY <1>1, DeadlineStep, BaseInvariant, PTL DEF Spec

(* DeadlineWithinClaim, for every TTL: a lease whose holder still has      *)
(* authority has a claim on the provider that expires no earlier, because  *)
(* a confirmed renewal counts the TTL from before its edit.                *)
THEOREM DeadlineHolds == Spec => []DeadlineWithinClaim
<1>1. ASSUME DeadlineInv, NEW l \in Loops, ensure_held(l)
      PROVE  HasClaim(l) /\ left[l] <= Remaining(l)
  <2>1. Has(claims, l) /\ left[l] + Age(claims, l) <= TTL /\ left[l] > 0 /\ left[l] \in Nat
    BY <1>1 DEF DeadlineInv, Base, TypeOK, Deadline, ensure_held
  <2>2. Age(claims, l) \in 0..MaxAge /\ MaxAge \in Nat
    <3>1. claims \in Board
      BY <1>1 DEF DeadlineInv, Base, TypeOK, Board
    <3> QED BY <2>1, <3>1, PosFacts DEF MaxAge
  <2>3. AgeOf(l) = Age(claims, l)
    BY DEF AgeOf, IdOf, Age, Pos
  <2> QED BY <2>1, <2>2, <2>3 DEF HasClaim, Has, Remaining
<1>2. DeadlineInv => DeadlineWithinClaim
  BY <1>1 DEF DeadlineWithinClaim
<1> QED BY <1>2, DeadlineInvariant, PTL

-----------------------------------------------------------------------------
(* A person takes over *)

NoPerson == assignees \cap Persons = {} => personAge = 0

(* The rest of a lease and the time a person is assigned make no more than *)
(* a TTL: a renewal that saw no person began before the person came, and   *)
(* so did the claim of a loop that has just seen none.                     *)
PersonLeft == \A l \in Loops : pc[l] \in Working /\ left[l] > 0 => left[l] + personAge <= TTL

PersonRenewal ==
  \A l \in Loops : ren[l] \in {"edit", "confirm"} \/ (ren[l] = "claims" /\ snap[l] \cap Persons = {})
    => personAge <= el[l]

PersonClaim ==
  \A l \in Loops :
    pc[l] \in {"stake_claims", "settle_claims"} /\ snap[l] \cap Persons = {} /\ Has(claims, l)
      => personAge <= Age(claims, l)

PersonInv == DeadlineInv /\ NoPerson /\ PersonLeft /\ PersonRenewal /\ PersonClaim

(* Time alone adds to the time a person is assigned.                       *)
LEMMA PersonAgeStep ==
  ASSUME Base, NoPerson, [Next]_vars
  PROVE  /\ ~Tick => personAge' <= personAge
         /\ Tick => personAge' <= UpTo(TTL, personAge)
         /\ NoPerson'
<1>1. TypeOK /\ personAge \in 0..TTL /\ \A a \in Loops : stale[a] \cap Persons = {}
  BY DEF Base, Shape, TypeOK
<1>2. ASSUME NEW a \in Loops, LoopAct(a)
      PROVE  personAge' = personAge /\ (assignees' \cap Persons = {} => assignees \cap Persons = {})
  <2>1. personAge' = personAge
    BY <1>1, <1>2, LoopFrame DEF Frame
  <2>2. \A x \in Persons : x \in assignees => x \in assignees'
    BY <1>1, <1>2 DEF LoopAct, StakeStep, SettleStep, RenewStep, WorkStep, FaultStep, StakeBegin,
      ReadAssignees, StakeDecide, StakeCheckPr, StakeUnassign, StakeAssign, StakePost, StakeUndo,
      SettleBegin, SettleDecide, SettleUnassign, RenewBegin, RenewReadAssignees, RenewDecide,
      RenewEdit, confirm_renewal, RenewCutOff, PublishCheck, Publish, Abandon, CallFails,
      RenewFails, Crash, board
  <2> QED BY <2>1, <2>2
<1>3. CASE PrClosed \/ UNCHANGED vars
  BY <1>1, <1>3 DEF PrClosed, vars, people, NoPerson, UpTo
<1>4. ASSUME NEW x \in Persons \cup Managed, HandAssign(x) \/ HandUnassign(x)
      PROVE  personAge' <= personAge /\ NoPerson'
  <2>1. personAge' = IF assignees \cap assignees' \cap Persons = {} THEN 0 ELSE personAge
    BY <1>4 DEF HandAssign, HandUnassign, ByHand
  <2> QED BY <1>1, <2>1 DEF NoPerson
<1>5. CASE Tick
  BY <1>1, <1>5 DEF Tick, UpTo, NoPerson
<1>6. ASSUME personAge' <= personAge PROVE personAge' <= UpTo(TTL, personAge)
  BY <1>1, <1>6, TypeStep DEF UpTo, TypeOK
<1> QED BY <1>1, <1>2, <1>3, <1>4, <1>5, <1>6 DEF Next, Step, LoopAct, HandStep, NoPerson

(* Every step keeps the account of the person's time.                      *)
LEMMA PersonInvStep == PersonInv /\ [Next]_vars => PersonInv'
<1> SUFFICES ASSUME PersonInv, [Next]_vars PROVE PersonInv'
  OBVIOUS
<1>1. DeadlineInv /\ DeadlineInv' /\ Base /\ Base' /\ TypeOK /\ TypeOK' /\ claims \in Board
  BY DeadlineStep, BoardStep DEF PersonInv, DeadlineInv, Base
<1>2. /\ ~Tick => personAge' <= personAge
      /\ Tick => personAge' <= UpTo(TTL, personAge)
      /\ NoPerson'
  BY <1>1, PersonAgeStep DEF PersonInv
<1>3. ASSUME NEW l \in Loops
      PROVE  /\ left[l] \in 0..TTL /\ left'[l] \in 0..TTL /\ el[l] \in 0..MaxAge /\ el'[l] \in 0..MaxAge
             /\ personAge \in 0..TTL /\ personAge' \in 0..TTL /\ pc[l] \in Phases
             /\ MaxAge \in Nat /\ TTL <= MaxAge
             /\ ren[l] # "stopped" => pc[l] \in Working
             /\ ren'[l] # "stopped" => pc'[l] \in Working
  <2>1. /\ left[l] \in 0..TTL /\ el[l] \in 0..MaxAge /\ personAge \in 0..TTL /\ pc[l] \in Phases
        /\ left'[l] \in 0..TTL /\ el'[l] \in 0..MaxAge /\ personAge' \in 0..TTL
    BY <1>1 DEF TypeOK
  <2>2. /\ ren[l] # "stopped" => pc[l] \in Working
        /\ ren'[l] # "stopped" => pc'[l] \in Working
    BY <1>1 DEF Base, Shape
  <2> QED BY <2>1, <2>2 DEF MaxAge
<1>4. ASSUME NEW l \in Loops, standing(l, snap[l], el[l]).is = "mine"
      PROVE  snap[l] \cap Persons = {} /\ Has(claims, l)
  <2>1. \A x : Has(claims, x) => x \in Loops
    BY <1>1, PosFacts
  <2>2. Has(claims, l) /\ \A x \in snap[l] \ {l} : Has(claims, x)
    BY <1>4, MineFacts
  <2>3. snap[l] \subseteq Loops
    BY <2>1, <2>2
  <2> QED BY <2>2, <2>3
<1>5. PersonLeft'
  <2> SUFFICES ASSUME NEW l \in Loops, pc'[l] \in Working, left'[l] > 0
               PROVE  left'[l] + personAge' <= TTL
    BY DEF PersonLeft
  <2>1. CASE Tick
    <3>1. pc[l] \in Working /\ left'[l] = IF left[l] > 0 THEN left[l] - 1 ELSE 0
      BY <2>1 DEF Tick
    <3>2. left[l] > 0
      BY <1>3, <3>1
    <3>3. left[l] + personAge <= TTL
      BY <3>1, <3>2 DEF PersonInv, PersonLeft
    <3> QED BY <1>2, <1>3, <2>1, <3>1, <3>3 DEF UpTo
  <2>2. CASE ~Tick
    <3>1. ASSUME pc[l] \in Working, left'[l] = left[l]
          PROVE  left'[l] + personAge' <= TTL
      <4>1. left[l] + personAge <= TTL
        BY <3>1 DEF PersonInv, PersonLeft
      <4> QED BY <1>2, <1>3, <2>2, <3>1, <4>1
    <3>2. CASE Idles(l)
      BY <3>1, <3>2 DEF Idles
    <3>3. CASE RenewMove(l)
      <4>1. CASE left'[l] = left[l]
        BY <3>1, <3>3, <4>1 DEF RenewMove
      <4>2. CASE left'[l] # left[l]
        <5>1. /\ ren[l] = "confirm" /\ left'[l] = (IF el[l] < TTL THEN TTL - el[l] ELSE 0)
          BY <3>3, <4>2 DEF RenewMove
        <5>2. personAge <= el[l]
          BY <5>1 DEF PersonInv, PersonRenewal
        <5> QED BY <1>2, <1>3, <2>2, <5>1, <5>2
      <4> QED BY <4>1, <4>2
    <3>4. CASE DispatchMove(l)
      <4>1. CASE pc[l] \in Working
        BY <1>3, <3>1, <3>4, <4>1 DEF DispatchMove, Phase, KeepsLease, Working
      <4>2. CASE pc[l] \notin Working
        <5>1. /\ standing(l, snap[l], el[l]).is = "mine" /\ left'[l] = Remaining(l)
              /\ pc[l] \in {"stake_claims", "settle_claims"}
          BY <3>4, <4>2 DEF DispatchMove, Phase, Working
        <5>2. personAge <= Age(claims, l) /\ Has(claims, l)
          BY <1>4, <5>1 DEF PersonInv, PersonClaim
        <5>3. Age(claims, l) \in 0..MaxAge
          BY <1>1, <5>2, PosFacts
        <5>4. left'[l] = IF Age(claims, l) < TTL THEN TTL - Age(claims, l) ELSE 0
          BY <5>1 DEF Remaining, AgeOf, Age, IdOf, Pos
        <5> QED BY <1>2, <1>3, <2>2, <5>2, <5>3, <5>4
      <4> QED BY <4>1, <4>2
    <3> QED BY <1>1, <2>2, <3>2, <3>3, <3>4, LoopStep
  <2> QED BY <2>1, <2>2
<1>6. PersonRenewal'
  <2> SUFFICES ASSUME NEW l \in Loops, \/ ren'[l] \in {"edit", "confirm"}
                                       \/ (ren'[l] = "claims" /\ snap'[l] \cap Persons = {})
               PROVE  personAge' <= el'[l]
    BY DEF PersonRenewal
  <2>1. ASSUME \/ ren[l] \in {"edit", "confirm"}
               \/ (ren[l] = "claims" /\ snap[l] \cap Persons = {})
        PROVE  personAge <= el[l]
    BY <2>1 DEF PersonInv, PersonRenewal
  <2>2. CASE Tick
    <3>1. ren'[l] = ren[l] /\ snap'[l] = snap[l] /\ el'[l] = UpTo(MaxAge, el[l])
      BY <2>2 DEF Tick, RenewCalls
    <3> QED BY <1>2, <1>3, <2>1, <2>2, <3>1 DEF UpTo
  <2>3. CASE ~Tick
    <3>1. CASE Idles(l)
      BY <1>2, <1>3, <2>1, <2>3, <3>1 DEF Idles
    <3>2. CASE RenewMove(l)
      <4>1. CASE ren[l] = "view" /\ snap'[l] = assignees /\ ren'[l] = "claims"
        <5>1. personAge = 0
          BY <4>1 DEF PersonInv, NoPerson
        <5> QED BY <1>2, <1>3, <2>3, <5>1
      <4>2. CASE /\ ren[l] = "claims" /\ el'[l] = el[l]
                 /\ standing(l, snap[l], el[l]).is = "mine"
        BY <1>2, <1>3, <1>4, <2>1, <2>3, <4>2
      <4>3. CASE ren[l] = "edit" /\ el'[l] = el[l]
        BY <1>2, <1>3, <2>1, <2>3, <4>3
      <4> QED BY <3>2, <4>1, <4>2, <4>3 DEF RenewMove
    <3>3. CASE DispatchMove(l)
      <4>1. Phase(l, {"held"}, {"publish"}) /\ KeepsLease(l) /\ KeepsView(l) /\ el'[l] = el[l]
        BY <1>3, <3>3 DEF DispatchMove, Phase, KeepsLease, Working
      <4> QED BY <1>2, <1>3, <2>1, <2>3, <4>1 DEF KeepsLease, KeepsView
    <3> QED BY <1>1, <2>3, <3>1, <3>2, <3>3, LoopStep
  <2> QED BY <2>2, <2>3
<1>7. PersonClaim'
  <2> SUFFICES ASSUME NEW l \in Loops, pc'[l] \in {"stake_claims", "settle_claims"},
                      snap'[l] \cap Persons = {}, Has(claims', l)
               PROVE  personAge' <= Age(claims', l)
    BY DEF PersonClaim
  <2>1. Has(claims, l) /\ Age(claims, l) \in 0..MaxAge /\ Age(claims', l) \in 0..MaxAge
    BY <1>1, AgeStep DEF NewComment
  <2>2. CASE Tick
    <3>1. pc'[l] = pc[l] /\ snap'[l] = snap[l] /\ Age(claims', l) = UpTo(MaxAge, Age(claims, l))
      BY <1>1, <2>1, <2>2, TickFacts DEF Tick
    <3>2. personAge <= Age(claims, l)
      BY <2>1, <3>1 DEF PersonInv, PersonClaim
    <3> QED BY <1>2, <1>3, <2>1, <2>2, <3>1, <3>2 DEF UpTo
  <2>3. CASE ~Tick
    <3>1. CASE Idles(l)
      <4>1. Age(claims', l) = Age(claims, l)
        BY <1>1, <1>3, <2>1, <2>3, <3>1, AgeStep DEF Idles, NewComment, Working
      <4>2. personAge <= Age(claims, l)
        BY <2>1, <3>1 DEF PersonInv, PersonClaim, Idles
      <4> QED BY <1>2, <1>3, <2>1, <2>3, <4>1, <4>2
    <3>2. CASE RenewMove(l)
      BY <1>3, <3>2 DEF RenewMove, Working
    <3>3. CASE DispatchMove(l)
      <4>1. snap'[l] = assignees
        BY <3>3 DEF DispatchMove, Phase
      <4>2. personAge = 0
        BY <4>1 DEF PersonInv, NoPerson
      <4> QED BY <1>2, <1>3, <2>1, <2>3, <4>2
    <3> QED BY <1>1, <2>3, <3>1, <3>2, <3>3, LoopStep
  <2> QED BY <2>2, <2>3
<1> QED BY <1>1, <1>2, <1>5, <1>6, <1>7 DEF PersonInv

(* PersonTakesOver, for any loops, people and TTL: once a person has been  *)
(* assigned for a TTL, every lease that was there has run out and every    *)
(* renewal since has seen the person.                                      *)
THEOREM PersonWins == Spec => []PersonTakesOver
<1>1. Init /\ DeadlineInv => PersonInv
  BY DEF Init, PersonInv, NoPerson, PersonLeft, PersonRenewal, PersonClaim, Working
<1>2. PersonInv => PersonTakesOver
  <2> SUFFICES ASSUME PersonInv, personAge >= TTL, NEW l \in Loops, ensure_held(l) PROVE FALSE
    BY DEF PersonTakesOver
  <2>1. left[l] + personAge <= TTL /\ left[l] > 0 /\ left[l] \in Nat /\ personAge \in Nat
    BY DEF PersonInv, PersonLeft, DeadlineInv, Base, TypeOK, ensure_held
  <2> QED BY <2>1
<1> QED BY <1>1, <1>2, PersonInvStep, DeadlineInvariant, PTL DEF Spec

-----------------------------------------------------------------------------
(* One lease at a time *)

Live(c, x) == Has(c, x) /\ Age(c, x) < TTL

\* x goes before y: it is preferred, or neither is and its comment is older.
Beats(c, x, y) ==
  \/ \E i \in DOMAIN Priority : Priority[i] = x /\ \A k \in 1..(i-1) : Priority[k] # y
  \/ (\A i \in DOMAIN Priority : Priority[i] \notin {x, y}) /\ Pos(c, x) < Pos(c, y)

(* Two logins do not go before each other.                                 *)
LEMMA BeatsOnce ==
  ASSUME NEW c \in Board, NEW x, NEW y, Has(c, x), Has(c, y), x # y,
         Beats(c, x, y), Beats(c, y, x)
  PROVE  FALSE
<1>1. DOMAIN Priority = 1..Len(Priority) /\ Len(Priority) \in Nat
  OBVIOUS
<1>2. Pos(c, x) \in Nat /\ Pos(c, y) \in Nat
  BY PosFacts DEF Board
<1>3. ASSUME NEW i \in DOMAIN Priority, Priority[i] = x, \A k \in 1..(i-1) : Priority[k] # y,
             NEW j \in DOMAIN Priority, Priority[j] = y, \A k \in 1..(j-1) : Priority[k] # x
      PROVE  FALSE
  <2>1. i # j
    BY <1>3
  <2>2. i < j \/ j < i
    BY <1>1, <2>1
  <2> QED BY <1>1, <1>3, <2>2
<1> QED BY <1>2, <1>3 DEF Beats

(* The winner among some logins goes before every other of them.           *)
LEMMA WinsBeats ==
  ASSUME TypeOK, NEW x, NEW live, Wins(x, live), NEW y \in live, y # x,
         Has(claims, x), Has(claims, y)
  PROVE  Beats(claims, x, y)
<1>1. claims \in Board
  BY DEF TypeOK, Board
<1>2. /\ Pos(claims, x) \in Nat /\ Pos(claims, y) \in Nat /\ Pos(claims, x) # Pos(claims, y)
  <2>1. /\ Pos(claims, x) \in DOMAIN claims /\ claims[Pos(claims, x)].login = x
        /\ Pos(claims, y) \in DOMAIN claims /\ claims[Pos(claims, y)].login = y
    BY <1>1, PosFacts
  <2> QED BY <1>1, <2>1 DEF Board
<1>3. IdOf(x) = Pos(claims, x) /\ IdOf(y) = Pos(claims, y)
  BY DEF IdOf, Pos
<1> QED BY <1>2, <1>3 DEF Wins, Beats

(* The order of two claims changes only when one of them is posted anew.   *)
LEMMA OrderStep ==
  ASSUME Base, [Next]_vars, NEW x \in Loops, NEW y \in Loops, Has(claims, x), Has(claims, y),
         pc[x] # "stake_post", pc[y] # "stake_post", Beats(claims, x, y)
  PROVE  Beats(claims', x, y)
<1>1. TypeOK /\ ClaimsMove /\ claims \in Board
  BY ClaimsStep, BoardStep DEF Base
<1>2. Pos(claims, x) < Pos(claims, y) => Pos(claims', x) < Pos(claims', y)
  <2>1. CASE claims' = claims
    BY <2>1
  <2>2. ASSUME NEW a \in Loops, claims' = Posted(claims, a), pc[a] = "stake_post"
        PROVE  Pos(claims, x) < Pos(claims, y) => Pos(claims', x) < Pos(claims', y)
    BY <1>1, <2>2, PostFacts
  <2>3. ASSUME NEW a \in Loops, claims' = Renewed(a), ren[a] = "edit"
        PROVE  Pos(claims', x) = Pos(claims, x) /\ Pos(claims', y) = Pos(claims, y)
    <3>1. Has(claims, a)
      BY <2>3 DEF Base, Shape
    <3> QED BY <1>1, <2>3, <3>1, RenewFacts
  <2>4. CASE Tick
    BY <1>1, <2>4, TickFacts
  <2> QED BY <1>1, <2>1, <2>2, <2>3, <2>4 DEF ClaimsMove
<1> QED BY <1>2 DEF Beats

(* A claim that is live after a step was so before, or has just been posted. *)
LEMMA LiveStep ==
  ASSUME DeadlineInv, [Next]_vars, NEW y \in Loops, Live(claims', y)
  PROVE  Live(claims, y) \/ NewComment(y)
<1>1. Base /\ claims \in Board
  BY BoardStep DEF DeadlineInv
<1>2. CASE Has(claims, y)
  <2>1. Age(claims, y) \in Nat /\ MaxAge \in Nat
    BY <1>1, <1>2, PosFacts DEF MaxAge
  <2>2. CASE ren[y] = "edit" /\ left[y] > 0
    <3>1. pc[y] \in Working /\ left[y] \in Nat
      BY <1>1, <2>2 DEF Base, Shape, TypeOK
    <3>2. left[y] + Age(claims, y) <= TTL
      BY <2>2, <3>1 DEF DeadlineInv, Deadline
    <3> QED BY <1>2, <2>1, <2>2, <3>1, <3>2 DEF Live
  <2>3. CASE Tick
    <3>1. Age(claims', y) = UpTo(MaxAge, Age(claims, y))
      BY <1>1, <1>2, <2>3, TickFacts DEF Base
    <3> QED BY <1>2, <2>1, <3>1 DEF Live, UpTo
  <2>4. CASE Age(claims', y) = Age(claims, y)
    BY <1>2, <2>4 DEF Live
  <2> QED BY <1>1, <1>2, <2>2, <2>3, <2>4, AgeStep DEF Live
<1>3. CASE ~Has(claims, y)
  BY <1>1, <1>3, AgeStep DEF Live
<1> QED BY <1>2, <1>3

\* A stake that goes on, or may go on, as if l's claim were not there.
BlindAt(phase, seen, l) ==
  \/ phase \in {"stake_pr", "stake_unassign", "stake_assign", "stake_post"}
  \/ phase = "stake_claims" /\ l \notin seen

(* While a stake is blind to the live claim of an assigned login, what is  *)
(* left of that login's verify window outlasts the stake.                  *)
Window ==
  \A l, m \in Loops :
    /\ l # m /\ l \in assignees \ touched /\ Live(claims, l) /\ pc[l] # "stake_post"
    /\ BlindAt(pc[m], snap[m], l)
    => el[m] + wait[l] > MaxDelay

(* Once the window is over nobody is blind to the claim.                   *)
LEMMA NobodyBlind ==
  ASSUME Base, Window, NEW l \in Loops, l \in assignees \ touched, Live(claims, l),
         pc[l] \in {"stake_claims", "settle_claims"} \cup Working,
         NEW m \in Loops, m # l
  PROVE  ~BlindAt(pc[m], snap[m], l)
<1>1. wait[l] = 0 /\ pc[l] # "stake_post"
  BY DEF Base, Shape, Working
<1>2. BlindAt(pc[m], snap[m], l) => el[m] <= MaxDelay /\ el[m] \in Nat
  BY DEF Base, Shape, TypeOK, BlindAt, StakePhases
<1> QED BY <1>1, <1>2 DEF Window

(* A loop that finds the item free, or its claims stale, saw no live claim. *)
LEMMA FreeFacts ==
  ASSUME Base, NEW a \in Loops, standing(a, snap[a], el[a]).is \in {"unclaimed", "stale"},
         NEW l \in snap[a], Has(claims, l)
  PROVE  ~Live(claims, l)
<1>1. ~IsLive(l, el[a])
  BY DEF standing
<1>2. AgeOf(l) = Age(claims, l) /\ HasClaim(l)
  BY DEF AgeOf, IdOf, Age, Pos, HasClaim, Has
<1>3. claims \in Board /\ el[a] \in Nat
  BY DEF Base, TypeOK, Board
<1>4. Age(claims, l) \in Nat
  BY <1>3, PosFacts
<1> QED BY <1>1, <1>2, <1>3, <1>4 DEF IsLive, Live

(* Every step keeps the window: a post opens a whole one, time takes from  *)
(* the window what it adds to the stake, and a stake that reads the        *)
(* assignees after the login was assigned sees it.                         *)
LEMMA WindowStep ==
  ASSUME DeadlineInv, Window, [Next]_vars, Verify > MaxDelay, QuickRetry = FALSE
  PROVE  Window'
<1> SUFFICES ASSUME NEW l \in Loops, NEW m \in Loops, l # m, l \in assignees' \ touched', Live(claims', l),
                    pc'[l] # "stake_post", BlindAt(pc'[m], snap'[m], l)
             PROVE  el'[m] + wait'[l] > MaxDelay
  BY DEF Window
<1>1. Base /\ Base' /\ TypeOK /\ TypeOK'
  BY BaseStep DEF DeadlineInv, Base
<1>2. /\ el[m] \in Nat /\ el'[m] \in Nat /\ wait[l] \in Nat /\ wait'[l] \in Nat /\ MaxAge \in Nat
      /\ pc[l] \in Phases /\ pc[m] \in Phases /\ MaxDelay <= MaxAge
  BY <1>1 DEF TypeOK, MaxAge
<1>3. Live(claims, l) \/ NewComment(l)
  BY LiveStep
<1>4. CASE wait'[l] = Verify
  BY <1>2, <1>4
<1>5. CASE Tick
  <2>1. /\ pc'[l] = pc[l] /\ pc'[m] = pc[m] /\ snap'[m] = snap[m]
        /\ assignees' = assignees /\ touched' = touched
        /\ wait'[l] = IF wait[l] > 0 THEN wait[l] - 1 ELSE 0
    BY <1>5 DEF Tick
  <2>2. Live(claims, l)
    BY <1>3, <2>1 DEF NewComment
  <2>3. el[m] < MaxDelay /\ el'[m] = UpTo(MaxAge, el[m])
    BY <1>5, <2>1 DEF Tick, BlindAt, StakePhases
  <2>4. el[m] + wait[l] > MaxDelay
    BY <2>1, <2>2 DEF Window
  <2> QED BY <1>2, <2>1, <2>3, <2>4 DEF UpTo
<1>6. CASE ~Tick /\ wait'[l] # Verify
  <2>1. Live(claims, l) /\ wait'[l] = wait[l] /\ pc[l] # "stake_post"
    <3>1. DispatchMove(l) \/ RenewMove(l) \/ Idles(l)
      BY <1>1, <1>6, LoopStep
    <3>2. wait'[l] = wait[l]
      BY <1>6, <3>1 DEF DispatchMove, RenewMove, Idles
    <3>3. pc[l] # "stake_post"
      BY <1>6, <3>1 DEF DispatchMove, RenewMove, Idles, Phase, Working
    <3> QED BY <1>3, <1>6, <3>2, <3>3 DEF NewComment
  <2>2. ASSUME l \in assignees \ touched, BlindAt(pc[m], snap[m], l), el'[m] = el[m]
        PROVE  el'[m] + wait'[l] > MaxDelay
    BY <2>1, <2>2 DEF Window
  <2>3. l \in assignees \ touched
    <3>1. AssigneesMove
      BY <1>1, AssigneesStep
    <3>2. l \notin touched
      BY <1>1, <1>6, TouchedStep
    <3> QED BY <1>6, <2>1, <3>1, <3>2 DEF AssigneesMove
  <2>4. CASE Idles(m)
    BY <2>2, <2>3, <2>4 DEF Idles
  <2>5. CASE RenewMove(m)
    BY <1>1, <2>5 DEF RenewMove, Base, Shape, Working, BlindAt
  <2>6. CASE DispatchMove(m)
    <3>1. pc'[m] \in {"stake_pr", "stake_unassign", "stake_assign", "stake_post", "stake_claims"}
      BY DEF BlindAt
    <3>2. CASE pc[m] = "stake_view"
      <4>1. pc'[m] = "stake_claims" /\ snap'[m] = assignees
        BY <2>6, <3>1, <3>2 DEF DispatchMove, Phase, Working
      <4> QED BY <2>3, <4>1 DEF BlindAt
    <3>3. CASE pc[m] = "stake_claims"
      <4>1. standing(m, snap[m], el[m]).is \in {"unclaimed", "stale"} /\ el'[m] = el[m]
        BY <2>6, <3>1, <3>3 DEF DispatchMove, Phase, Working
      <4>2. l \notin snap[m]
        BY <1>1, <2>1, <4>1, FreeFacts DEF Live
      <4> QED BY <2>2, <2>3, <3>3, <4>1, <4>2 DEF BlindAt
    <3>4. CASE pc[m] \notin {"stake_view", "stake_claims"}
      <4>1. pc[m] \in {"stake_pr", "stake_unassign", "stake_assign"} /\ el'[m] = el[m]
        BY <2>6, <3>1, <3>4 DEF DispatchMove, Phase, Working
      <4> QED BY <2>2, <2>3, <4>1 DEF BlindAt
    <3> QED BY <3>2, <3>3, <3>4
  <2> QED BY <1>1, <1>6, <2>4, <2>5, <2>6, LoopStep
<1> QED BY <1>4, <1>5, <1>6

(* A loop about to judge the claims, whose own claim is live, is still     *)
(* assigned and has seen every loop that is; people's doings aside.        *)
Viewed ==
  \A l \in Loops \ touched :
    pc[l] \in {"stake_claims", "settle_claims"} /\ l \in snap[l] /\ Live(claims, l)
      => l \in assignees /\ (assignees \cap Loops) \ touched \subseteq snap[l]

(* The holder of a lease that has not run out is assigned, and goes before *)
(* every other assigned loop with a live claim; again of untouched loops.  *)
First ==
  \A l \in Loops \ touched :
    pc[l] \in Working /\ left[l] > 0
      => /\ l \in assignees
         /\ \A m \in Loops \ touched :
              m # l /\ m \in assignees /\ Live(claims, m) => Beats(claims, l, m)

ExclusionInv == DeadlineInv /\ Window /\ Viewed /\ First

(* While nobody is blind to l, only l and people change whether it is      *)
(* assigned, and no other loop is assigned anew but by a person.           *)
LEMMA AssignedStep ==
  ASSUME Base, [Next]_vars, NEW l \in Loops, l \in assignees, l \notin touched',
         pc[l] \in {"stake_claims", "settle_claims"} \cup Working,
         \A m \in Loops \ {l} : ~BlindAt(pc[m], snap[m], l)
  PROVE  /\ l \in assignees'
         /\ \A y \in Loops \ touched' : y \notin touched /\ (y \in assignees' => y \in assignees)
<1>1. AssigneesMove
  BY AssigneesStep DEF Base
<1>2. \A a \in Loops : pc[a] \notin {"stake_unassign", "stake_assign"}
  BY DEF BlindAt, Working
<1>3. pc[l] \notin {"stake_undo", "settle_unassign"}
  BY DEF Working
<1>4. \A y \in Loops \ touched' : y \notin touched
  BY <1>2, TouchedStep DEF Base
<1> QED BY <1>1, <1>2, <1>3, <1>4 DEF AssigneesMove

(* Every step keeps what a view in progress says of the other loops.       *)
LEMMA ViewedStep ==
  ASSUME ExclusionInv, [Next]_vars
  PROVE  Viewed'
<1> SUFFICES ASSUME NEW l \in Loops, l \notin touched',
                    pc'[l] \in {"stake_claims", "settle_claims"}, l \in snap'[l], Live(claims', l)
             PROVE  l \in assignees' /\ (assignees' \cap Loops) \ touched' \subseteq snap'[l]
  BY DEF Viewed
<1>1. Base /\ TypeOK /\ DeadlineInv /\ Window
  BY DEF ExclusionInv, DeadlineInv, Base
<1>2. Live(claims, l) /\ l \notin touched
  BY <1>1, LiveStep, TouchedStep DEF NewComment
<1>3. CASE pc'[l] = pc[l] /\ snap'[l] = snap[l]
  <2>1. l \in assignees /\ (assignees \cap Loops) \ touched \subseteq snap[l]
    BY <1>2, <1>3 DEF ExclusionInv, Viewed
  <2>2. \A m \in Loops \ {l} : ~BlindAt(pc[m], snap[m], l)
    BY <1>1, <1>2, <1>3, <2>1, NobodyBlind
  <2>3. /\ l \in assignees'
        /\ \A y \in Loops \ touched' : y \notin touched /\ (y \in assignees' => y \in assignees)
    BY <1>1, <1>3, <2>1, <2>2, AssignedStep
  <2> QED BY <1>3, <2>1, <2>3
<1>4. CASE Tick \/ Idles(l)
  BY <1>3, <1>4 DEF Tick, Idles
<1>5. CASE RenewMove(l)
  BY <1>1, <1>5 DEF RenewMove, Base, Shape, Working
<1>6. CASE DispatchMove(l)
  BY <1>6 DEF DispatchMove, Phase, board
<1> QED BY <1>1, <1>4, <1>5, <1>6, LoopStep

(* A loop that starts a lease goes before every loop that could have one;  *)
(* and later no other loop is assigned or posts without seeing its claim.  *)
LEMMA FirstStep ==
  ASSUME ExclusionInv, [Next]_vars
  PROVE  First'
<1> SUFFICES ASSUME NEW l \in Loops, l \notin touched', pc'[l] \in Working, left'[l] > 0
             PROVE  /\ l \in assignees'
                    /\ \A m \in Loops \ touched' :
                         m # l /\ m \in assignees' /\ Live(claims', m) => Beats(claims', l, m)
  BY DEF First
<1>1. Base /\ TypeOK /\ DeadlineInv /\ Window /\ DeadlineInv' /\ TypeOK' /\ claims \in Board
  BY DeadlineStep, BoardStep DEF ExclusionInv, DeadlineInv, Base
<1>2. /\ left[l] \in Nat /\ left'[l] \in Nat /\ el[l] \in Nat /\ pc[l] \in Phases
      /\ \A x : Has(claims, x) => Age(claims, x) \in Nat
      /\ \A x : Has(claims', x) => Age(claims', x) \in Nat
  <2>1. claims' \in Board
    BY <1>1 DEF TypeOK, Board
  <2>2. left[l] \in Nat /\ el[l] \in Nat /\ pc[l] \in Phases BY <1>1 DEF TypeOK
  <2>3. left'[l] \in Nat BY <1>1 DEF TypeOK
  <2>4. \A x : Has(claims, x) => Age(claims, x) \in Nat BY <1>1, PosFacts
  <2>5. \A x : Has(claims', x) => Age(claims', x) \in Nat BY <2>1, PosFacts
  <2> QED BY <2>2, <2>3, <2>4, <2>5
<1>3. Live(claims', l)
  <2>1. Has(claims', l) /\ left'[l] + Age(claims', l) <= TTL
    BY <1>1 DEF DeadlineInv, Deadline
  <2> QED BY <1>2, <2>1 DEF Live
<1>6. l \notin touched
  BY <1>1, TouchedStep DEF Working
<1>4. CASE pc[l] \in Working /\ left[l] > 0
  <2>1. Has(claims, l) /\ left[l] + Age(claims, l) <= TTL
    BY <1>1, <1>4 DEF DeadlineInv, Deadline
  <2>2. Live(claims, l)
    BY <1>2, <1>4, <2>1 DEF Live
  <2>3. /\ l \in assignees
        /\ \A m \in Loops \ touched :
             m # l /\ m \in assignees /\ Live(claims, m) => Beats(claims, l, m)
    BY <1>4, <1>6 DEF ExclusionInv, First
  <2>4. \A k \in Loops \ {l} : ~BlindAt(pc[k], snap[k], l)
    BY <1>1, <1>4, <1>6, <2>2, <2>3, NobodyBlind
  <2>5. /\ l \in assignees'
        /\ \A y \in Loops \ touched' : y \notin touched /\ (y \in assignees' => y \in assignees)
    BY <1>1, <1>4, <2>3, <2>4, AssignedStep
  <2>6. \A m \in Loops : pc[m] # "stake_post"
    BY <1>4, <2>4 DEF BlindAt, Working
  <2>7. ASSUME NEW m \in Loops \ touched', m # l, m \in assignees', Live(claims', m)
        PROVE  Beats(claims', l, m)
    <3>1. m \in assignees /\ m \notin touched /\ Live(claims, m)
      BY <1>1, <2>5, <2>6, <2>7, LiveStep DEF NewComment
    <3>2. Beats(claims, l, m)
      BY <2>3, <2>7, <3>1
    <3> QED BY <1>1, <2>1, <2>6, <3>1, <3>2, OrderStep DEF Live
  <2> QED BY <2>5, <2>7
<1>5. CASE ~(pc[l] \in Working /\ left[l] > 0)
  <2>1. ~Tick /\ ~Idles(l) /\ ~RenewMove(l)
    <3>1. ~Tick
      BY <1>2, <1>5 DEF Tick
    <3>2. ~Idles(l)
      BY <1>5 DEF Idles
    <3>3. ~RenewMove(l)
      BY <1>1, <1>5 DEF RenewMove
    <3> QED BY <3>1, <3>2, <3>3
  <2>2. DispatchMove(l)
    BY <1>1, <2>1, LoopStep
  <2>3. /\ pc[l] \in {"stake_claims", "settle_claims"} /\ standing(l, snap[l], el[l]).is = "mine"
        /\ claims' = claims /\ assignees' = assignees
    BY <1>2, <1>5, <2>2 DEF DispatchMove, Phase, KeepsLease, Working, board
  <2>8. \A y \in Loops \ {l} : pc[y] = pc'[y]
    <3>1. LoopAct(l)
      BY <1>1, <2>3, OwnStep DEF Working
    <3> QED BY <1>1, <3>1, LoopFrame DEF Frame
  <2> DEFINE live == {x \in snap[l] : IsLive(x, el[l])}
  <2>4. l \in snap[l] /\ Wins(l, live)
    BY <2>3, MineFacts
  <2>5. l \in assignees /\ (assignees \cap Loops) \ touched \subseteq snap[l]
    BY <1>3, <1>6, <2>3, <2>4 DEF ExclusionInv, Viewed
  <2>6. ASSUME NEW m \in Loops \ touched', m # l, m \in assignees', Live(claims', m)
        PROVE  Beats(claims', l, m)
    <3>1. IsLive(m, el[l])
      <4>1. AgeOf(m) = Age(claims, m) /\ HasClaim(m)
        BY <2>3, <2>6 DEF AgeOf, IdOf, Age, Pos, HasClaim, Has, Live
      <4>2. Age(claims, m) < TTL /\ Age(claims, m) \in Nat
        BY <1>2, <2>3, <2>6 DEF Live
      <4> QED BY <1>2, <4>1, <4>2 DEF IsLive
    <3>3. m \notin touched
      BY <1>1, <2>6, <2>8, TouchedStep
    <3>2. m \in live
      BY <2>3, <2>5, <2>6, <3>1, <3>3
    <3> HIDE DEF live
    <3> QED BY <1>1, <1>3, <2>3, <2>4, <2>6, <3>2, WinsBeats DEF Live
  <2> QED BY <2>3, <2>5, <2>6
<1> QED BY <1>4, <1>5

(* The invariant that excludes a second lease holds throughout, if a stake *)
(* is faster than the verify window and no loop retries within it.         *)
LEMMA ExclusionInvariant ==
  ASSUME Verify > MaxDelay, QuickRetry = FALSE PROVE Spec => []ExclusionInv
<1>1. Init /\ DeadlineInv => ExclusionInv
  BY DEF Init, ExclusionInv, Window, Viewed, First, Live, Has, Working
<1>2. ExclusionInv /\ [Next]_vars => ExclusionInv'
  <2> SUFFICES ASSUME ExclusionInv, [Next]_vars PROVE ExclusionInv'
    OBVIOUS
  <2>1. DeadlineInv' /\ Window'
    BY DeadlineStep, WindowStep DEF ExclusionInv
  <2> QED BY <2>1, ViewedStep, FirstStep DEF ExclusionInv
<1> QED BY <1>1, <1>2, DeadlineInvariant, PTL DEF Spec

(* LeaseExclusion, for any loops, TTL, faults and preferred logins, when   *)
(* the verify window is longer than a stake can take and a loop pauses     *)
(* that long after a failed claim: two holders would go before each other. *)
(* Loops whose login a person changed since they staked are excepted.      *)
THEOREM OneLease ==
  ASSUME Verify > MaxDelay, QuickRetry = FALSE PROVE Spec => []LeaseExclusion
<1>1. ASSUME ExclusionInv, NEW l \in Loops, NEW m \in Loops, Rightful(l), Rightful(m), l # m
      PROVE  FALSE
  <2>1. claims \in Board
    BY <1>1 DEF ExclusionInv, DeadlineInv, Base, TypeOK, Board
  <2>2. ASSUME NEW x \in Loops, ensure_held(x) PROVE Live(claims, x)
    <3>1. Has(claims, x) /\ left[x] + Age(claims, x) <= TTL /\ left[x] > 0 /\ left[x] \in Nat
      BY <1>1, <2>2 DEF ExclusionInv, DeadlineInv, Base, TypeOK, Deadline, ensure_held
    <3>2. Age(claims, x) \in Nat
      BY <2>1, <3>1, PosFacts
    <3> QED BY <3>1, <3>2 DEF Live
  <2>3. Live(claims, l) /\ Live(claims, m)
    BY <1>1, <2>2 DEF Rightful
  <2>4. l \in assignees /\ m \in assignees
    BY <1>1 DEF ExclusionInv, First, Rightful, ensure_held
  <2>5. Beats(claims, l, m) /\ Beats(claims, m, l)
    BY <1>1, <2>3, <2>4 DEF ExclusionInv, First, Rightful, ensure_held
  <2> QED BY <1>1, <2>1, <2>3, <2>5, BeatsOnce DEF Live
<1>2. ExclusionInv => LeaseExclusion
  BY <1>1 DEF LeaseExclusion
<1> QED BY <1>2, ExclusionInvariant, PTL

-----------------------------------------------------------------------------
(* The exclusive claim *)

\* The untouched loops whose lease has authority.
Holders == {l \in Loops : Rightful(l)}

(* Nothing but a step of its own gives a loop authority.                   *)
LEMMA GainStep ==
  ASSUME Base, [Next]_vars, NEW l \in Loops, l \in Holders', l \notin Holders
  PROVE  LoopAct(l)
<1>1. TypeOK /\ left[l] \in Nat
  BY DEF Base, TypeOK
<1>5. l \notin touched
  <2>1. l \notin touched' /\ pc'[l] \in Working
    BY DEF Holders, Rightful, ensure_held
  <2> QED BY <1>1, <2>1, TouchedStep DEF Working
<1>2. ASSUME NEW a \in Loops, LoopAct(a), a # l PROVE FALSE
  <2>1. pc'[l] = pc[l] /\ left'[l] = left[l] /\ lost'[l] = lost[l]
    BY <1>1, <1>2, LoopFrame DEF Frame
  <2> QED BY <1>5, <2>1 DEF Holders, Rightful, ensure_held
<1>3. CASE Tick
  <2>1. pc' = pc /\ lost' = lost /\ left'[l] = IF left[l] > 0 THEN left[l] - 1 ELSE 0
    BY <1>3 DEF Tick
  <2> QED BY <1>1, <1>5, <2>1 DEF Holders, Rightful, ensure_held
<1>4. CASE PrClosed \/ HandStep \/ UNCHANGED vars
  <2>1. pc' = pc /\ lost' = lost /\ left' = left
    BY <1>4 DEF PrClosed, HandStep, HandAssign, HandUnassign, ByHand, vars, lease
  <2> QED BY <1>5, <2>1 DEF Holders, Rightful, ensure_held
<1> QED BY <1>2, <1>3, <1>4 DEF Next, Step, LoopAct, HandStep

(* ImplementsClaim: the claim on the issue is an exclusive claim.  A step  *)
(* either takes authority away, or gives it to the loop that makes the     *)
(* step; and then, by LeaseExclusion after the step, nobody else had it.   *)
(* As there, only loops whose login nobody changed by hand count.          *)
THEOREM IssueClaimRefinement ==
  ASSUME Verify > MaxDelay, QuickRetry = FALSE PROVE Spec => ImplementsClaim
<1> DEFINE bar == [i \in {"issue"} |-> {l \in Loops : Rightful(l)}]
<1>1. Init => Authority!Init
  BY DEF Init, Authority!Init, Rightful, ensure_held, Working
<1>2. Base /\ LeaseExclusion /\ LeaseExclusion' /\ [Next]_vars => [Authority!Next]_bar
  <2> SUFFICES ASSUME Base, LeaseExclusion, LeaseExclusion', [Next]_vars
               PROVE  Authority!Next \/ bar' = bar
    OBVIOUS
  <2>1. bar = [i \in {"issue"} |-> Holders] /\ bar' = [i \in {"issue"} |-> Holders']
    BY DEF Holders
  <2>2. \A x, y \in Holders : x = y
    BY DEF LeaseExclusion, Holders
  <2>3. \A x, y \in Holders' : x = y
    BY DEF LeaseExclusion, Holders
  <2>4. CASE Holders' \subseteq Holders
    <3>1. Holders' = Holders \/ Holders' = {}
      BY <2>2, <2>4
    <3>2. CASE Holders' = {}
      <4>1. Authority!Lose({"issue"})
        BY <2>1, <3>2 DEF Authority!Lose, Holders
      <4> QED BY <4>1 DEF Authority!Next
    <3> QED BY <2>1, <3>1, <3>2
  <2>5. ASSUME NEW l \in Loops, l \in Holders', l \notin Holders PROVE Authority!Next
    <3>1. Frame(l)
      BY <2>5, GainStep, LoopFrame DEF Base
    <3>2. \A x \in Loops \ {l} : x \in Holders => x \in Holders'
      BY <3>1 DEF Frame, Holders, Rightful, ensure_held
    <3>3. Holders = {} /\ Holders' = {l}
      BY <2>3, <2>5, <3>2 DEF Holders
    <3>4. Authority!Take("issue", l)
      BY <2>1, <3>3 DEF Authority!Take, Holders
    <3> QED BY <3>4 DEF Authority!Next
  <2>6. Holders' \subseteq Loops
    BY DEF Holders
  <2> QED BY <2>4, <2>5, <2>6
<1> QED BY <1>1, <1>2, BaseInvariant, OneLease, PTL DEF Spec, ImplementsClaim, Authority!Spec
=============================================================================
