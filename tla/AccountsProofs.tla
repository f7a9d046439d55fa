----------------------------- MODULE AccountsProofs -----------------------------
(***************************************************************************)
(* Theorems about Accounts, for all names, goods, prices and numbers of    *)
(* goroutines: the types of the tables, that a balance below zero takes    *)
(* the GM or two charges at once, that an answered signup left a wallet,   *)
(* that credits made in turn add up, and that nothing is delivered that    *)
(* was not charged for.                                                    *)
(***************************************************************************)
EXTENDS Accounts, SequenceTheorems, FiniteSetTheorems, TLAPS

-----------------------------------------------------------------------------
(* What a goroutine may have left to do. *)

NameStatement ==
  [op : {"lookup", "insert"}, name : Names, visitor : BOOLEAN, must : BOOLEAN]
LoginStatement == [op : {"login"}, name : Names, must : BOOLEAN]
CheckStatement ==
  [op : {"check"}, account : Nat, currency : Currency, n : Nat, must : {TRUE}]
AddStatement ==
  [op : {"add"}, account : Nat, currency : Currency, n : Int, copies : Nat,
   must : BOOLEAN]
OwnStatement ==
  [op : {"own"}, account : Nat, char : Characters, copies : Nat, must : BOOLEAN]
RowStatement == [op : {"row"}, account : Nat, must : {TRUE}]
AnswerStatement ==
  [op : {"answer"}, account : Nat, visitor : BOOLEAN, must : BOOLEAN]
ReadStatement == [op : {"read"}, account : Nat, must : BOOLEAN]
SetStatement == [op : {"set"}, account : Nat, n : Nat, must : BOOLEAN]

Statement ==
  NameStatement \cup LoginStatement \cup CheckStatement \cup AddStatement
  \cup OwnStatement \cup RowStatement \cup AnswerStatement \cup ReadStatement
  \cup SetStatement

\* What is charged for, unlike what the GM takes.
IsCharge(x) == x.op = "add" /\ x.n < 0 /\ x.copies > 0

\* The statements that name an account of A for certain, and those that name
\* any.
Known(x, A) ==
  /\ x.op \in {"check", "row", "answer"} \/ IsCharge(x) => x.account \in A
  /\ x.op \in {"add", "own", "read", "set"} => x.account \in A \cup Ids

\* An update that ends the operation if its account has no wallet.
Sure(x) == x.op = "add" /\ x.must

\* A charge follows its check at once.
CheckOf(x, y) ==
  /\ x.op = "check" /\ x.account = y.account
  /\ x.currency = y.currency /\ x.n = -y.n

\* The statements of an operation, from some point on, about accounts of A.
Plan(s, A) ==
  /\ s \in Seq(Statement)
  /\ \A i \in DOMAIN s :
       /\ Known(s[i], A)
       /\ s[i].op = "set" => Len(s) = 1
       /\ s[i].op = "row" => i = 1
       /\ IsCharge(s[i]) => i = 1 \/ (i = 2 /\ CheckOf(s[1], s[2]))
       /\ s[i].op = "own" =>
            \/ s[i].account \in A
            \/ \E k \in 1 .. i - 1 : Sure(s[k]) /\ s[k].account = s[i].account

\* Those an operation starts with.
Fresh(s) == \A i \in DOMAIN s : /\ s[i].op \notin {"set", "row", "answer"}
                                /\ IsCharge(s[i]) => i = 2

\* Those that only give.
Gains(s, A) ==
  /\ s \in Seq(Statement)
  /\ \A i \in DOMAIN s : /\ s[i].op \in {"add", "own"} /\ s[i].account \in A
                         /\ ~IsCharge(s[i])

-----------------------------------------------------------------------------
(* The statements of the operations. *)

LEMMA EmptyPlan ==
  ASSUME NEW A
  PROVE  Plan(<< >>, A) /\ Fresh(<< >>)
  BY DEF Plan, Fresh

LEMMA PlanParts ==
  ASSUME NEW A, NEW s, Plan(s, A), s # << >>
  PROVE  /\ s \in Seq(Statement) /\ Tail(s) \in Seq(Statement)
         /\ Len(Tail(s)) = Len(s) - 1
         /\ DOMAIN Tail(s) = 1 .. Len(s) - 1
         /\ Len(s) \in Nat \ {0} /\ 1 \in DOMAIN s
         /\ Head(s) = s[1] /\ s[1] \in Statement
         /\ \A i \in DOMAIN Tail(s) : i + 1 \in DOMAIN s /\ Tail(s)[i] = s[i + 1]
         /\ Tail(s) # << >> =>
              /\ 2 \in DOMAIN s /\ Head(Tail(s)) = s[2]
              /\ s[2].op \notin {"set", "row"} /\ s[1].op # "set"
              /\ IsCharge(s[2]) => CheckOf(s[1], s[2])
  <1>1. s \in Seq(Statement)
    BY DEF Plan
  <1>2. /\ Len(s) \in Nat \ {0} /\ DOMAIN s = 1 .. Len(s)
        /\ Tail(s) \in Seq(Statement) /\ Len(Tail(s)) = Len(s) - 1
        /\ DOMAIN Tail(s) = 1 .. Len(s) - 1
        /\ \A i \in 1 .. Len(s) - 1 : Tail(s)[i] = s[i + 1]
        /\ Head(s) = s[1] /\ s[1] \in Statement
    BY <1>1, HeadTailProperties
  <1>3. \A i \in 1 .. Len(s) - 1 : i + 1 \in DOMAIN s /\ i + 1 # 1
    BY <1>2
  <1>5. Tail(s) # << >> =>
          /\ 2 \in DOMAIN s /\ Head(Tail(s)) = s[2]
          /\ s[2].op \notin {"set", "row"} /\ s[1].op # "set"
          /\ IsCharge(s[2]) => CheckOf(s[1], s[2])
    <2>1. SUFFICES ASSUME Tail(s) # << >>
                   PROVE  /\ 2 \in DOMAIN s /\ Head(Tail(s)) = s[2]
                          /\ s[2].op \notin {"set", "row"} /\ s[1].op # "set"
                          /\ IsCharge(s[2]) => CheckOf(s[1], s[2])
      OBVIOUS
    <2>2. Len(s) # 1 /\ Len(s) >= 2
      BY <1>2, <2>1
    <2>3. 2 \in DOMAIN s /\ 1 \in DOMAIN s /\ Head(Tail(s)) = s[2]
      BY <1>2, <2>1, <2>2
    <2>4. QED
      BY <2>2, <2>3 DEF Plan
  <1>6. QED
    BY <1>1, <1>2, <1>3, <1>5

LEMMA TailPlan ==
  ASSUME NEW A, NEW s, Plan(s, A), s # << >>, Sure(s[1]) => s[1].account \in A
  PROVE  Plan(Tail(s), A)
  <1>1. PICK r : r = Tail(s)
    OBVIOUS
  <1>2. PICK n \in Nat \ {0} : n = Len(s)
    BY PlanParts
  <1>3. /\ r \in Seq(Statement) /\ Len(r) = n - 1 /\ DOMAIN r = 1 .. n - 1
        /\ \A i \in 1 .. n - 1 : i + 1 \in DOMAIN s /\ r[i] = s[i + 1]
        /\ 1 \in DOMAIN s
    BY <1>1, <1>2, PlanParts
  <1>4. ASSUME NEW i \in 1 .. n - 1
        PROVE  /\ Known(r[i], A)
               /\ r[i].op \notin {"set", "row"}
               /\ IsCharge(r[i]) => i = 1
    <2>0. i + 1 \in DOMAIN s /\ i + 1 # 1 /\ (i + 1 = 2 => i = 1)
      BY <1>3
    <2>1. PICK k \in DOMAIN s : k = i + 1 /\ k # 1 /\ (k = 2 => i = 1)
      BY <2>0
    <2>2. n # 1
      OBVIOUS
    <2>3. QED
      BY <1>2, <1>3, <2>1, <2>2 DEF Plan
  <1>5. ASSUME NEW i \in 1 .. n - 1, r[i].op = "own", r[i].account \notin A
        PROVE  \E k \in 1 .. i - 1 : Sure(r[k]) /\ r[k].account = r[i].account
    <2>1. PICK j \in DOMAIN s : j = i + 1 /\ r[i] = s[j]
      BY <1>3
    <2>2. PICK k \in 1 .. j - 1 : Sure(s[k]) /\ s[k].account = s[j].account
      BY <1>5, <2>1 DEF Plan
    <2>3. k # 1
      BY <1>5, <2>1, <2>2
    <2>4. PICK l \in 1 .. i - 1 : l + 1 = k
      BY <2>1, <2>2, <2>3
    <2>5. l \in 1 .. n - 1
      BY <2>4
    <2>6. r[l] = s[k]
      BY <1>3, <2>4, <2>5
    <2>7. QED
      BY <2>1, <2>2, <2>4, <2>6
  <1>6. Plan(r, A)
    BY <1>3, <1>4, <1>5 DEF Plan
  <1>7. QED
    BY <1>1, <1>6

\* Accounts are never deleted.
LEMMA PlanGrows ==
  ASSUME NEW A, NEW B, A \subseteq B, NEW s, Plan(s, A)
  PROVE  Plan(s, B)
  <1>1. ASSUME NEW i \in DOMAIN s PROVE Known(s[i], B)
    <2>1. Known(s[i], A)
      BY DEF Plan
    <2>2. QED
      BY <2>1 DEF Known
  <1>2. QED
    BY <1>1 DEF Plan

LEMMA GainsJoined ==
  ASSUME NEW A, NEW s, NEW r, Gains(s, A), Gains(r, A)
  PROVE  Gains(s \o r, A)
  <1>1. s \in Seq(Statement) /\ r \in Seq(Statement)
    BY DEF Gains
  <1>2. /\ s \o r \in Seq(Statement) /\ Len(s) \in Nat /\ Len(r) \in Nat
        /\ DOMAIN (s \o r) = 1 .. Len(s) + Len(r)
        /\ \A i \in 1 .. Len(s) + Len(r) :
             (s \o r)[i] = IF i <= Len(s) THEN s[i] ELSE r[i - Len(s)]
        /\ DOMAIN s = 1 .. Len(s) /\ DOMAIN r = 1 .. Len(r)
    BY <1>1, ConcatProperties
  <1>3. ASSUME NEW i \in 1 .. Len(s) + Len(r)
        PROVE  \/ \E k \in DOMAIN s : (s \o r)[i] = s[k]
               \/ \E k \in DOMAIN r : (s \o r)[i] = r[k]
    BY <1>2
  <1>4. QED
    BY <1>2, <1>3, Zenon DEF Gains

\* What is charged for is delivered after it.
LEMMA ChargeThenGains ==
  ASSUME NEW A, NEW s, NEW r, Plan(s, A), Fresh(s), Gains(r, A), Len(s) >= 2,
         \A i \in DOMAIN s : s[i].op # "own"
  PROVE  Plan(s \o r, A) /\ Fresh(s \o r)
  <1>1. s \in Seq(Statement) /\ r \in Seq(Statement)
    BY DEF Gains, Plan
  <1>2. /\ s \o r \in Seq(Statement) /\ Len(s) \in Nat /\ Len(r) \in Nat
        /\ DOMAIN (s \o r) = 1 .. Len(s) + Len(r)
        /\ \A i \in 1 .. Len(s) + Len(r) :
             (s \o r)[i] = IF i <= Len(s) THEN s[i] ELSE r[i - Len(s)]
        /\ DOMAIN s = 1 .. Len(s) /\ DOMAIN r = 1 .. Len(r)
    BY <1>1, ConcatProperties
  <1>3. (s \o r)[1] = s[1] /\ (s \o r)[2] = s[2]
    BY <1>2
  <1>4. ASSUME NEW i \in 1 .. Len(s) + Len(r)
        PROVE  /\ Known((s \o r)[i], A)
               /\ (s \o r)[i].op \notin {"set", "row", "answer"}
               /\ IsCharge((s \o r)[i]) => i = 2 /\ CheckOf(s[1], s[2])
               /\ (s \o r)[i].op = "own" => (s \o r)[i].account \in A
    <2>1. CASE i <= Len(s)
      <3>1. (s \o r)[i] = s[i] /\ i \in DOMAIN s
        BY <1>2, <2>1
      <3>2. QED
        BY <3>1 DEF Plan, Fresh
    <2>2. CASE ~(i <= Len(s))
      <3>1. PICK k \in DOMAIN r : (s \o r)[i] = r[k]
        BY <1>2, <2>2
      <3>2. r[k].op \in {"add", "own"} /\ r[k].account \in A /\ ~IsCharge(r[k])
        BY DEF Gains
      <3>3. QED
        BY <3>1, <3>2 DEF Known
    <2>3. QED
      BY <2>1, <2>2
  <1>5. QED
    BY <1>2, <1>3, <1>4 DEF Plan, Fresh

LEMMA CheckType ==
  ASSUME NEW a \in Nat, NEW c \in Currency, NEW n \in Nat
  PROVE  Check(a, c, n) \in Statement
  <1>1. Check(a, c, n) \in CheckStatement
    BY DEF Check, CheckStatement
  <1>2. QED
    BY <1>1, Zenon DEF Statement

LEMMA AddType ==
  ASSUME NEW a \in Nat, NEW c \in Currency, NEW n \in Int, NEW k \in Nat
  PROVE  Add(a, c, n, k) \in Statement
  <1>1. Add(a, c, n, k) \in AddStatement
    BY DEF Add, AddStatement
  <1>2. QED
    BY <1>1, Zenon DEF Statement

LEMMA OwnType ==
  ASSUME NEW a \in Nat, NEW ch \in Characters, NEW k \in Nat
  PROVE  Own(a, ch, k) \in Statement
  <1>1. Own(a, ch, k) \in OwnStatement
    BY DEF Own, OwnStatement
  <1>2. QED
    BY <1>1, Zenon DEF Statement

\* Service.Grant charges with its first statement at most.
LEMMA GrantShape ==
  ASSUME NEW A \in SUBSET Nat, NEW a \in A, NEW c \in Currency, NEW n \in Int,
         NEW k \in Nat
  PROVE  /\ Grant(a, c, n, k) \in Seq(Statement)
         /\ Len(Grant(a, c, n, k)) \in {1, 2}
         /\ DOMAIN Grant(a, c, n, k) = 1 .. Len(Grant(a, c, n, k))
         /\ Grant(a, c, n, k)[1] = Add(a, c, n, k)
         /\ Len(Grant(a, c, n, k)) = 2 =>
              Grant(a, c, n, k)[2] = Add(a, "ticket", 0, 0)
  <1>1. "ticket" \in Currency
    BY DEF Currency
  <1>2. PICK x \in Statement : x = Add(a, c, n, k)
    BY AddType
  <1>3. PICK y \in Statement : y = Add(a, "ticket", 0, 0)
    BY <1>1, AddType
  <1>4. CASE c = "ticket"
    <2>1. Grant(a, c, n, k) = <<x>>
      BY <1>2, <1>4 DEF Grant
    <2>2. QED
      BY <1>2, <2>1
  <1>5. CASE c # "ticket"
    <2>1. Grant(a, c, n, k) = <<x, y>>
      BY <1>2, <1>3, <1>5 DEF Grant
    <2>2. QED
      BY <1>2, <1>3, <2>1
  <1>6. QED
    BY <1>4, <1>5

LEMMA AddFields ==
  ASSUME NEW a, NEW c, NEW n \in Int, NEW k \in Nat
  PROVE  /\ Add(a, c, n, k).op = "add" /\ Add(a, c, n, k).account = a
         /\ Add(a, c, n, k).currency = c /\ Add(a, c, n, k).n = n
         /\ IsCharge(Add(a, c, n, k)) <=> n < 0 /\ k > 0
  BY DEF Add, IsCharge

LEMMA GrantGains ==
  ASSUME NEW A \in SUBSET Nat, NEW a \in A, NEW c \in Currency, NEW n \in Nat,
         NEW k \in Nat
  PROVE  Gains(Grant(a, c, n, k), A)
  <1>1. PICK g \in Seq(Statement) : g = Grant(a, c, n, k)
    BY GrantShape
  <1>2. PICK x : x = Add(a, c, n, k)
    OBVIOUS
  <1>3. PICK y : y = Add(a, "ticket", 0, 0)
    OBVIOUS
  <1>4. /\ Len(g) \in {1, 2} /\ DOMAIN g = 1 .. Len(g)
        /\ g[1] = x /\ (Len(g) = 2 => g[2] = y)
    BY <1>1, <1>2, <1>3, GrantShape
  <1>5. /\ x.op = "add" /\ x.account = a /\ ~IsCharge(x)
        /\ y.op = "add" /\ y.account = a /\ ~IsCharge(y)
    BY <1>2, <1>3, AddFields
  <1>6. \A i \in DOMAIN g : g[i] = x \/ g[i] = y
    BY <1>4
  <1>7. Gains(g, A)
    BY <1>5, <1>6 DEF Gains
  <1>8. QED
    BY <1>1, <1>7

LEMMA GrantPlan ==
  ASSUME NEW A, NEW s, Gains(s, A)
  PROVE  Plan(s, A) /\ Fresh(s)
  BY DEF Gains, Plan, Fresh, Known

\* A check and its charge.
LEMMA ChargePlan ==
  ASSUME NEW A \in SUBSET Nat, NEW a \in A, NEW c \in Currency, NEW m \in Nat,
         NEW k \in Nat
  PROVE  LET s == <<Check(a, c, m)>> \o Grant(a, c, -m, k)
         IN  /\ Plan(s, A) /\ Fresh(s) /\ Len(s) \in Nat /\ Len(s) >= 2
             /\ \A i \in DOMAIN s : s[i].op # "own"
  <1>1. PICK g \in Seq(Statement) : g = Grant(a, c, -m, k)
    BY GrantShape
  <1>2. PICK x \in Statement : x = Add(a, c, -m, k)
    BY AddType
  <1>3. PICK y : y = Add(a, "ticket", 0, 0)
    OBVIOUS
  <1>4. PICK h \in Statement : h = Check(a, c, m)
    BY CheckType
  <1>5. /\ Len(g) \in {1, 2} /\ DOMAIN g = 1 .. Len(g)
        /\ g[1] = x /\ (Len(g) = 2 => g[2] = y)
    BY <1>1, <1>2, <1>3, GrantShape
  <1>6. PICK s : s = <<h>> \o g
    OBVIOUS
  <1>7. /\ s \in Seq(Statement) /\ Len(s) = 1 + Len(g) /\ DOMAIN s = 1 .. Len(s)
        /\ s[1] = h /\ s[2] = x /\ (Len(s) = 3 => s[3] = y)
    <2>1. /\ <<h>> \in Seq(Statement) /\ Len(<<h>>) = 1 /\ <<h>>[1] = h
      OBVIOUS
    <2>2. /\ s \in Seq(Statement) /\ Len(s) = 1 + Len(g)
          /\ \A i \in 1 .. 1 + Len(g) : s[i] = IF i <= 1 THEN <<h>>[i] ELSE g[i - 1]
      BY <1>6, <2>1, ConcatProperties
    <2>3. QED
      BY <1>5, <2>1, <2>2
  <1>8. /\ x.op = "add" /\ x.account = a /\ x.currency = c /\ x.n = -m
        /\ y.op = "add" /\ y.account = a /\ ~IsCharge(y)
        /\ h.op = "check" /\ h.account = a /\ h.currency = c /\ h.n = m
        /\ ~IsCharge(h)
    <2>1. x.op = "add" /\ x.account = a /\ x.currency = c /\ x.n = -m
      BY <1>2, AddFields
    <2>2. y.op = "add" /\ y.account = a /\ ~IsCharge(y)
      BY <1>3, AddFields
    <2>3. h.op = "check" /\ h.account = a /\ h.currency = c /\ h.n = m
      BY <1>4 DEF Check
    <2>4. ~IsCharge(h)
      BY <2>3 DEF IsCharge
    <2>5. QED
      BY <2>1, <2>2, <2>3, <2>4
  <1>9. CheckOf(s[1], s[2])
    BY <1>7, <1>8 DEF CheckOf
  <1>10. \A i \in DOMAIN s : i = 1 \/ i = 2 \/ (i = 3 /\ Len(s) = 3)
    BY <1>5, <1>7
  <1>11. \A i \in DOMAIN s : /\ s[i].op \in {"add", "check"} /\ s[i].account = a
                             /\ IsCharge(s[i]) => i = 2
    BY <1>7, <1>8, <1>10
  <1>12. Plan(s, A) /\ Fresh(s)
    BY <1>7, <1>9, <1>11 DEF Plan, Fresh, Known
  <1>13. Len(s) \in Nat /\ Len(s) >= 2 /\ \A i \in DOMAIN s : s[i].op # "own"
    BY <1>5, <1>7, <1>11
  <1>14. QED
    BY <1>1, <1>4, <1>6, <1>12, <1>13

LEMMA PurchasePlan ==
  ASSUME NEW A \in SUBSET Nat, NEW a \in A, NEW g \in Catalog,
         NEW n \in 1 .. MaxCopies
  PROVE  Plan(Purchase(a, g, n), A) /\ Fresh(Purchase(a, g, n))
  <1>1. /\ g.cost \in Nat /\ g.currency \in Currency /\ g.reward \in Nat
        /\ n \in Nat
    BY AccountsAssumption
  <1>2. PICK m \in Nat : m = g.cost * n
    BY <1>1
  <1>3. PICK w \in Nat : w = g.reward * n
    BY <1>1
  <1>4. PICK s : s = <<Check(a, g.currency, m)>> \o Grant(a, g.currency, -m, n)
    OBVIOUS
  <1>5. /\ Plan(s, A) /\ Fresh(s) /\ Len(s) >= 2
        /\ \A i \in DOMAIN s : s[i].op # "own"
    BY <1>1, <1>4, ChargePlan
  <1>6. "gold" \in Currency
    BY DEF Currency
  <1>7. PICK r : r = Grant(a, "gold", w, n) /\ Gains(r, A)
    BY <1>1, <1>6, GrantGains
  <1>8. Purchase(a, g, n) = s \o r
    <2>1. Purchase(a, g, n) = (<<Check(a, g.currency, m)>>
                                 \o Grant(a, g.currency, -m, n))
                                 \o Grant(a, "gold", w, n)
      BY <1>2, <1>3 DEF Purchase
    <2>2. QED
      BY <1>4, <1>7, <2>1
  <1>9. QED
    BY <1>5, <1>7, <1>8, ChargeThenGains

LEMMA OpenPlan ==
  ASSUME NEW A \in SUBSET Nat, NEW a \in A, NEW n \in 1 .. MaxCopies,
         NEW chars \in [1 .. n -> Characters]
  PROVE  Plan(Open(a, chars), A) /\ Fresh(Open(a, chars))
  <1>1. /\ n \in Nat /\ Len(chars) = n /\ DOMAIN chars = 1 .. n
        /\ "diamond" \in Currency
    BY AccountsAssumption DEF Currency
  <1>2. PICK m \in Nat : m = Len(chars) * PricePerDraw
    BY <1>1, AccountsAssumption
  <1>3. PICK s : s = <<Check(a, "diamond", m)>> \o Grant(a, "diamond", -m, n)
    OBVIOUS
  <1>4. /\ Plan(s, A) /\ Fresh(s) /\ Len(s) >= 2
        /\ \A i \in DOMAIN s : s[i].op # "own"
    BY <1>1, <1>3, ChargePlan
  <1>5. PICK r : r = [i \in DOMAIN chars |-> Own(a, chars[i], 1)]
    OBVIOUS
  <1>6. Gains(r, A)
    <2>1. \A i \in 1 .. n : Own(a, chars[i], 1) \in Statement
      BY OwnType
    <2>2. r \in Seq(Statement) /\ DOMAIN r = 1 .. n
          /\ \A i \in 1 .. n : r[i] = Own(a, chars[i], 1)
      BY <1>1, <1>5, <2>1
    <2>3. \A i \in 1 .. n : r[i].op = "own" /\ r[i].account = a
      BY <2>2 DEF Own
    <2>4. QED
      BY <2>2, <2>3 DEF Gains, IsCharge
  <1>7. Open(a, chars) = s \o r
    <2>1. Open(a, chars) = (<<Check(a, "diamond", m)>> \o Grant(a, "diamond", -m, n))
                             \o [i \in DOMAIN chars |-> Own(a, chars[i], 1)]
      BY <1>1, <1>2 DEF Open
    <2>2. QED
      BY <1>3, <1>5, <2>1
  <1>8. QED
    BY <1>4, <1>6, <1>7, ChargeThenGains

LEMMA IdsAreNat == Ids \subseteq Nat
  BY DEF Ids

\* Gifts and fines, of which the last decides whether characters follow.
Gifts(s, a) ==
  /\ s \in Seq(Statement)
  /\ \A i \in DOMAIN s : Sure(s[i]) /\ s[i].account = a /\ s[i].copies = 0

LEMMA GiftsJoined ==
  ASSUME NEW a, NEW s, NEW r, Gifts(s, a), Gifts(r, a)
  PROVE  Gifts(s \o r, a)
  <1>1. s \in Seq(Statement) /\ r \in Seq(Statement)
    BY DEF Gifts
  <1>2. /\ s \o r \in Seq(Statement) /\ Len(s) \in Nat /\ Len(r) \in Nat
        /\ DOMAIN (s \o r) = 1 .. Len(s) + Len(r)
        /\ \A i \in 1 .. Len(s) + Len(r) :
             (s \o r)[i] = IF i <= Len(s) THEN s[i] ELSE r[i - Len(s)]
        /\ DOMAIN s = 1 .. Len(s) /\ DOMAIN r = 1 .. Len(r)
    BY <1>1, ConcatProperties
  <1>3. ASSUME NEW i \in 1 .. Len(s) + Len(r)
        PROVE  \/ \E k \in DOMAIN s : (s \o r)[i] = s[k]
               \/ \E k \in DOMAIN r : (s \o r)[i] = r[k]
    BY <1>2
  <1>4. ASSUME NEW i \in DOMAIN (s \o r)
        PROVE  /\ Sure((s \o r)[i]) /\ (s \o r)[i].account = a
               /\ (s \o r)[i].copies = 0
    <2>1. \/ \E k \in DOMAIN s : (s \o r)[i] = s[k]
          \/ \E k \in DOMAIN r : (s \o r)[i] = r[k]
      BY <1>2, <1>3
    <2>2. /\ \A k \in DOMAIN s : Sure(s[k]) /\ s[k].account = a /\ s[k].copies = 0
          /\ \A k \in DOMAIN r : Sure(r[k]) /\ r[k].account = a /\ r[k].copies = 0
      BY DEF Gifts
    <2>3. QED
      BY <2>1, <2>2, Zenon
  <1>5. QED
    BY <1>2, <1>4, Zenon DEF Gifts

LEMMA GiftIsOne ==
  ASSUME NEW a \in Nat, NEW c \in Currency, NEW n \in Int
  PROVE  Gifts(<<Add(a, c, n, 0)>>, a) /\ Gifts(Gift(a, c, n), a)
  <1>1. PICK x \in Statement : x = Add(a, c, n, 0)
    BY AddType
  <1>2. x.op = "add" /\ x.must /\ x.account = a /\ x.copies = 0
    BY <1>1 DEF Add
  <1>3. Gifts(<<x>>, a)
    BY <1>2 DEF Gifts, Sure
  <1>4. Gifts(<< >>, a)
    BY DEF Gifts
  <1>5. Gift(a, c, n) = << >> \/ Gift(a, c, n) = <<x>>
    BY <1>1 DEF Gift
  <1>6. QED
    BY <1>1, <1>3, <1>4, <1>5

LEMMA GiftsThenOwn ==
  ASSUME NEW A \in SUBSET Nat, NEW a \in A \cup Ids, NEW s, Gifts(s, a), s # << >>,
         NEW r \in Seq(Statement),
         \A i \in DOMAIN r : r[i].op = "own" /\ r[i].account = a /\ r[i].copies = 0
  PROVE  /\ Plan(s \o r, A) /\ Fresh(s \o r)
         /\ \A i \in DOMAIN (s \o r) : (s \o r)[i].copies = 0
  <1>1. s \in Seq(Statement)
    BY DEF Gifts
  <1>2. PICK l \in Nat \ {0}, m \in Nat : l = Len(s) /\ m = Len(r)
    BY <1>1
  <1>3. PICK p : p = s \o r
    OBVIOUS
  <1>4. /\ p \in Seq(Statement) /\ DOMAIN p = 1 .. l + m
        /\ \A i \in 1 .. l + m : p[i] = IF i <= l THEN s[i] ELSE r[i - l]
        /\ DOMAIN s = 1 .. l /\ DOMAIN r = 1 .. m
    BY <1>1, <1>2, <1>3, ConcatProperties
  <1>5. ASSUME NEW i \in 1 .. l + m
        PROVE  /\ p[i].account = a /\ p[i].copies = 0
               /\ p[i].op = "add" \/ (p[i].op = "own" /\ i > l)
    <2>1. CASE i <= l
      <3>1. i \in DOMAIN s /\ p[i] = s[i]
        BY <1>4, <2>1
      <3>2. QED
        BY <3>1 DEF Gifts, Sure
    <2>2. CASE ~(i <= l)
      <3>1. i - l \in 1 .. m /\ p[i] = r[i - l] /\ i > l
        BY <1>4, <2>2
      <3>2. PICK k \in DOMAIN r : p[i] = r[k]
        BY <1>4, <3>1
      <3>3. QED
        BY <3>1, <3>2
    <2>3. QED
      BY <2>1, <2>2
  <1>6. 1 \in 1 .. l + m /\ p[1] = s[1] /\ Sure(p[1]) /\ p[1].account = a
    <2>1. 1 \in DOMAIN s /\ 1 \in 1 .. l + m /\ p[1] = s[1]
      BY <1>4
    <2>2. QED
      BY <2>1 DEF Gifts
  <1>7. ASSUME NEW i \in 1 .. l + m
        PROVE  /\ ~IsCharge(p[i]) /\ Known(p[i], A)
               /\ p[i].op \notin {"set", "row", "answer"}
               /\ p[i].op = "own" => 1 \in 1 .. i - 1
    <2>1. ~IsCharge(p[i])
      BY <1>5 DEF IsCharge
    <2>2. p[i].op \notin {"set", "row", "answer", "check"}
      BY <1>5
    <2>3. p[i].op = "own" => 1 \in 1 .. i - 1
      BY <1>5
    <2>4. QED
      BY <1>5, <2>1, <2>2, <2>3 DEF Known
  <1>8. Plan(p, A)
    <2>1. \A i \in 1 .. l + m : p[i].op = "own" =>
            \E k \in 1 .. i - 1 : Sure(p[k]) /\ p[k].account = p[i].account
      BY <1>5, <1>6, <1>7
    <2>2. QED
      BY <1>4, <1>7, <2>1 DEF Plan
  <1>9. Fresh(p)
    BY <1>4, <1>7 DEF Fresh
  <1>10. QED
    BY <1>3, <1>4, <1>5, <1>8, <1>9

LEMMA GrantAccountPlan ==
  ASSUME NEW A \in SUBSET Nat, NEW a \in Ids, NEW g \in Grants,
         NEW chars \in {<< >>} \cup {<<ch>> : ch \in Characters}
  PROVE  /\ Plan(GrantAccount(a, g, chars), A) /\ Fresh(GrantAccount(a, g, chars))
         /\ \A i \in DOMAIN GrantAccount(a, g, chars) :
              GrantAccount(a, g, chars)[i].copies = 0
  <1>1. /\ "gold" \in Currency /\ "diamond" \in Currency /\ "ticket" \in Currency
        /\ g["gold"] \in Int /\ g["diamond"] \in Int /\ g["ticket"] \in Int
    <2>1. g \in [Currency -> Int]
      BY AccountsAssumption
    <2>2. QED
      BY <2>1 DEF Currency
  <1>2. a \in Nat /\ a \in A \cup Ids
    BY IdsAreNat
  <1>3. PICK p : p = Gift(a, "gold", g["gold"]) /\ Gifts(p, a)
    BY <1>1, <1>2, GiftIsOne
  <1>4. PICK q : q = Gift(a, "diamond", g["diamond"]) /\ Gifts(q, a)
    BY <1>1, <1>2, GiftIsOne
  <1>5. PICK x : x = <<Add(a, "ticket", g["ticket"], 0)>> /\ Gifts(x, a) /\ Len(x) = 1
    <2>1. Gifts(<<Add(a, "ticket", g["ticket"], 0)>>, a)
      BY <1>1, <1>2, GiftIsOne
    <2>2. QED
      BY <2>1
  <1>6. PICK s : s = (p \o q) \o x
    OBVIOUS
  <1>7. Gifts(p \o q, a)
    BY <1>3, <1>4, GiftsJoined
  <1>8. Gifts(s, a)
    BY <1>5, <1>6, <1>7, GiftsJoined
  <1>9. s # << >>
    <2>1. p \o q \in Seq(Statement) /\ x \in Seq(Statement)
      BY <1>5, <1>7 DEF Gifts
    <2>2. Len(s) = Len(p \o q) + 1 /\ Len(p \o q) \in Nat
      BY <1>5, <1>6, <2>1
    <2>3. QED
      BY <2>2
  <1>10. PICK n \in Nat : DOMAIN chars = 1 .. n /\ \A i \in 1 .. n : chars[i] \in Characters
    <2>1. CASE chars = << >>
      <3>1. DOMAIN chars = 1 .. 0
        BY <2>1
      <3>2. QED
        BY <3>1
    <2>2. ASSUME NEW ch \in Characters, chars = <<ch>>
          PROVE  DOMAIN chars = 1 .. 1 /\ \A i \in 1 .. 1 : chars[i] \in Characters
      BY <2>2
    <2>3. QED
      BY <2>1, <2>2
  <1>11. PICK r : r = [i \in DOMAIN chars |-> Own(a, chars[i], 0)]
    OBVIOUS
  <1>12. /\ r \in Seq(Statement)
         /\ \A i \in DOMAIN r : r[i].op = "own" /\ r[i].account = a /\ r[i].copies = 0
    <2>1. \A i \in 1 .. n : Own(a, chars[i], 0) \in Statement
      BY <1>2, <1>10, OwnType
    <2>2. r \in Seq(Statement) /\ DOMAIN r = 1 .. n
          /\ \A i \in 1 .. n : r[i] = Own(a, chars[i], 0)
      BY <1>10, <1>11, <2>1
    <2>3. QED
      BY <2>2 DEF Own
  <1>13. GrantAccount(a, g, chars) = s \o r
    BY <1>3, <1>4, <1>5, <1>6, <1>11 DEF GrantAccount
  <1>14. /\ Plan(s \o r, A) /\ Fresh(s \o r)
         /\ \A i \in DOMAIN (s \o r) : (s \o r)[i].copies = 0
    BY <1>2, <1>8, <1>9, <1>12, GiftsThenOwn
  <1>15. QED
    BY <1>13, <1>14

LEMMA SmallPlans ==
  ASSUME NEW A \in SUBSET Nat, NEW name \in Names, NEW visitor \in BOOLEAN
  PROVE  /\ Plan(Signup(name, visitor), A) /\ Fresh(Signup(name, visitor))
         /\ Plan(Login(name), A) /\ Fresh(Login(name))
  <1>1. PICK x \in Statement :
          /\ x = [op |-> "lookup", name |-> name, visitor |-> visitor, must |-> TRUE]
          /\ x.op = "lookup"
    <2>1. [op |-> "lookup", name |-> name, visitor |-> visitor, must |-> TRUE]
            \in NameStatement
      BY DEF NameStatement
    <2>2. QED
      BY <2>1 DEF Statement
  <1>2. PICK y \in Statement :
          /\ y = [op |-> "insert", name |-> name, visitor |-> visitor, must |-> TRUE]
          /\ y.op = "insert"
    <2>1. [op |-> "insert", name |-> name, visitor |-> visitor, must |-> TRUE]
            \in NameStatement
      BY DEF NameStatement
    <2>2. QED
      BY <2>1 DEF Statement
  <1>3. PICK z \in Statement :
          z = [op |-> "login", name |-> name, must |-> TRUE] /\ z.op = "login"
    <2>1. [op |-> "login", name |-> name, must |-> TRUE] \in LoginStatement
      BY DEF LoginStatement
    <2>2. QED
      BY <2>1 DEF Statement
  <1>4. Plan(<<x, y>>, A) /\ Fresh(<<x, y>>)
    BY <1>1, <1>2 DEF Plan, Fresh, Known, IsCharge
  <1>5. Plan(<<z>>, A) /\ Fresh(<<z>>)
    BY <1>3 DEF Plan, Fresh, Known, IsCharge
  <1>6. Signup(name, visitor) = <<x, y>> /\ Login(name) = <<z>>
    BY <1>1, <1>2, <1>3 DEF Signup, Login
  <1>7. QED
    BY <1>4, <1>5, <1>6

LEMMA IncrementPlan ==
  ASSUME NEW A \in SUBSET Nat, NEW a \in A \cup Ids
  PROVE  Plan(Increment(a), A) /\ Fresh(Increment(a))
  <1>1. PICK r \in Statement : /\ r = [op |-> "read", account |-> a, must |-> TRUE]
                               /\ r.op = "read" /\ r.account = a
    <2>1. [op |-> "read", account |-> a, must |-> TRUE] \in ReadStatement
      BY IdsAreNat DEF ReadStatement
    <2>2. QED
      BY <2>1 DEF Statement
  <1>2. Plan(<<r>>, A) /\ Fresh(<<r>>)
    BY <1>1 DEF Plan, Fresh, Known, IsCharge
  <1>3. QED
    BY <1>1, <1>2 DEF Increment

\* What a signup does once its account is there: the row first.
LEMMA WalletPlan ==
  ASSUME NEW A \in SUBSET Nat, NEW a \in A, NEW visitor \in BOOLEAN
  PROVE  /\ Plan(MakeWallet(a, visitor), A)
         /\ MakeWallet(a, visitor) # << >>
         /\ MakeWallet(a, visitor)[1].op = "row"
         /\ MakeWallet(a, visitor)[1].account = a
         /\ \A i \in DOMAIN MakeWallet(a, visitor) :
              /\ MakeWallet(a, visitor)[i].op \in {"row", "add", "answer"}
              /\ MakeWallet(a, visitor)[i].account = a
              /\ MakeWallet(a, visitor)[i].op = "add" =>
                   MakeWallet(a, visitor)[i].copies = 0
  <1>1. PICK x \in Statement : /\ x = [op |-> "row", account |-> a, must |-> TRUE]
                               /\ x.op = "row" /\ x.account = a
    <2>1. [op |-> "row", account |-> a, must |-> TRUE] \in RowStatement
      BY DEF RowStatement
    <2>2. QED
      BY <2>1 DEF Statement
  <1>2. PICK y \in Statement :
          /\ y = [op |-> "answer", account |-> a, visitor |-> visitor, must |-> FALSE]
          /\ y.op = "answer" /\ y.account = a
    <2>1. [op |-> "answer", account |-> a, visitor |-> visitor, must |-> FALSE]
            \in AnswerStatement
      BY DEF AnswerStatement
    <2>2. QED
      BY <2>1 DEF Statement
  <1>3. ASSUME NEW c \in Currency
        PROVE  /\ [Add(a, c, Allowance[c], 0) EXCEPT !.must = FALSE] \in Statement
               /\ [Add(a, c, Allowance[c], 0) EXCEPT !.must = FALSE].op = "add"
               /\ [Add(a, c, Allowance[c], 0) EXCEPT !.must = FALSE].account = a
               /\ [Add(a, c, Allowance[c], 0) EXCEPT !.must = FALSE].copies = 0
               /\ ~IsCharge([Add(a, c, Allowance[c], 0) EXCEPT !.must = FALSE])
    <2>1. Allowance[c] \in Nat
      BY AccountsAssumption
    <2>2. PICK v \in AddStatement : v = Add(a, c, Allowance[c], 0)
      <3>1. Add(a, c, Allowance[c], 0) \in AddStatement
        BY <2>1 DEF Add, AddStatement
      <3>2. QED
        BY <3>1
    <2>3. v.op = "add" /\ v.account = a /\ v.n = Allowance[c] /\ v.copies = 0
      BY <2>1, <2>2 DEF Add
    <2>4. PICK w : w = [v EXCEPT !.must = FALSE]
      OBVIOUS
    <2>5. /\ w \in AddStatement /\ w.op = "add" /\ w.account = a
          /\ w.n = Allowance[c] /\ w.copies = 0
      BY <2>3, <2>4 DEF AddStatement
    <2>6. w \in Statement /\ ~IsCharge(w)
      BY <2>1, <2>5 DEF Statement, IsCharge
    <2>7. QED
      BY <2>2, <2>4, <2>5, <2>6
  <1>4. PICK s : s = Allowances(a)
    OBVIOUS
  <1>5. /\ s \in Seq(Statement) /\ Len(s) = 3 /\ DOMAIN s = 1 .. 3
        /\ \A i \in 1 .. 3 : /\ s[i].op = "add" /\ s[i].account = a
                             /\ ~IsCharge(s[i]) /\ s[i].copies = 0
    <2>1. PICK cs : cs = <<"gold", "diamond", "ticket">>
      OBVIOUS
    <2>2. s = [i \in 1 .. 3 |->
                 [Add(a, cs[i], Allowance[cs[i]], 0) EXCEPT !.must = FALSE]]
      BY <1>4, <2>1 DEF Allowances
    <2>3. \A i \in 1 .. 3 : cs[i] \in Currency
      BY <2>1 DEF Currency
    <2>4. \A i \in 1 .. 3 :
            /\ s[i] \in Statement
            /\ s[i].op = "add" /\ s[i].account = a
            /\ ~IsCharge(s[i]) /\ s[i].copies = 0
      BY <1>3, <2>2, <2>3
    <2>5. QED
      BY <2>2, <2>4
  <1>6. PICK r : r = Append(s, y)
    OBVIOUS
  <1>7. /\ r \in Seq(Statement) /\ Len(r) = 4 /\ DOMAIN r = 1 .. 4
        /\ \A i \in 1 .. 3 : r[i] = s[i]
        /\ r[4] = y
    <2>1. /\ r \in Seq(Statement) /\ Len(r) = Len(s) + 1
          /\ \A i \in 1 .. Len(s) : r[i] = s[i]
          /\ r[Len(s) + 1] = y
      <3>1. s \in Seq(Statement)
        BY <1>5
      <3>2. QED
        BY <1>6, <3>1, AppendProperties
    <2>2. Len(r) = 4 /\ r[4] = y /\ \A i \in 1 .. 3 : r[i] = s[i]
      BY <1>5, <2>1
    <2>3. DOMAIN r = 1 .. Len(r)
      BY <2>1
    <2>4. QED
      BY <2>1, <2>2, <2>3
  <1>8. PICK p : p = <<x>> \o r
    OBVIOUS
  <1>9. /\ p \in Seq(Statement) /\ Len(p) = 5 /\ DOMAIN p = 1 .. 5
        /\ p[1] = x /\ p[5] = y
        /\ \A i \in 2 .. 4 : p[i] = s[i - 1]
    <2>1. <<x>> \in Seq(Statement) /\ Len(<<x>>) = 1 /\ <<x>>[1] = x
      OBVIOUS
    <2>2. /\ p \in Seq(Statement) /\ Len(p) = Len(<<x>>) + Len(r)
          /\ \A i \in 1 .. Len(<<x>>) + Len(r) :
               p[i] = IF i <= Len(<<x>>) THEN <<x>>[i] ELSE r[i - Len(<<x>>)]
      BY <1>7, <1>8, <2>1, ConcatProperties, ZenonT(40)
    <2>3. /\ Len(p) = 5
          /\ \A i \in 1 .. 5 : p[i] = IF i <= 1 THEN <<x>>[i] ELSE r[i - 1]
      BY <1>7, <2>1, <2>2
    <2>4. DOMAIN p = 1 .. 5
      <3>1. DOMAIN p = 1 .. Len(p)
        BY <2>2
      <3>2. QED
        BY <2>3, <3>1
    <2>5. p[1] = x /\ p[5] = y
      BY <1>7, <2>1, <2>3
    <2>6. ASSUME NEW i \in 2 .. 4 PROVE p[i] = s[i - 1]
      BY <1>7, <2>3
    <2>7. QED
      BY <2>2, <2>3, <2>4, <2>5, <2>6
  <1>10. \A i \in 1 .. 5 :
           /\ p[i].account = a /\ p[i].op \in {"row", "add", "answer"}
           /\ p[i].op = "row" => i = 1
           /\ p[i].op = "add" => p[i].copies = 0
           /\ ~IsCharge(p[i])
    <2>1. ~IsCharge(x) /\ ~IsCharge(y)
      BY <1>1, <1>2 DEF IsCharge
    <2>2. \A i \in 2 .. 4 : /\ p[i].op = "add" /\ p[i].account = a
                            /\ ~IsCharge(p[i]) /\ p[i].copies = 0
      BY <1>5, <1>9
    <2>3. \A i \in 1 .. 5 : i = 1 \/ i = 5 \/ i \in 2 .. 4
      OBVIOUS
    <2>4. QED
      BY <1>1, <1>2, <1>9, <2>1, <2>2, <2>3
  <1>11. Plan(p, A) /\ p # << >>
    <2>1. ASSUME NEW i \in 1 .. 5
          PROVE  /\ Known(p[i], A) /\ p[i].op \notin {"set", "own"}
                 /\ p[i].op = "row" => i = 1
                 /\ ~IsCharge(p[i])
      BY <1>10 DEF Known
    <2>2. p \in Seq(Statement) /\ DOMAIN p = 1 .. 5 /\ p # << >>
      <3>1. p \in Seq(Statement) /\ DOMAIN p = 1 .. 5 /\ Len(p) = 5
        BY <1>9, Zenon
      <3>2. p # << >>
        BY <3>1
      <3>3. QED
        BY <3>1, <3>2
    <2>3. Plan(p, A)
      <3>1. ASSUME NEW i \in DOMAIN p
            PROVE  /\ Known(p[i], A) /\ ~(p[i].op = "set") /\ ~(p[i].op = "own")
                   /\ p[i].op = "row" => i = 1
                   /\ ~IsCharge(p[i])
        BY <2>1, <2>2
      <3>2. QED
        BY ONLY <2>2, <3>1, ZenonT(40) DEF Plan
    <2>4. QED
      BY <2>2, <2>3
  <1>12. p = MakeWallet(a, visitor)
    BY <1>1, <1>2, <1>4, <1>6, <1>8 DEF MakeWallet
  <1>13. QED
    BY <1>1, <1>9, <1>10, <1>11, <1>12

-----------------------------------------------------------------------------
(* The inductive invariant. *)

HeadIs(s, op, a) == s # << >> /\ s[1].op = op /\ s[1].account = a

ChargeIs(s, a) == s # << >> /\ IsCharge(s[1]) /\ s[1].account = a

Plans ==
  /\ todo \in [Threads -> Seq(Statement)]
  /\ \A t \in Threads : Plan(todo[t], DOMAIN accounts)

\* A row is inserted once, and an answer comes after it.
Rows ==
  /\ \A t \in Threads, a \in DOMAIN accounts :
       HeadIs(todo[t], "row", a) =>
         /\ a \notin DOMAIN wallet
         /\ \A u \in Threads \ {t} : ~HeadIs(todo[u], "row", a)
  /\ \A t \in Threads : \A i \in DOMAIN todo[t] :
       todo[t][i].op = "answer" =>
         \/ todo[t][i].account \in DOMAIN wallet
         \/ HeadIs(todo[t], "row", todo[t][i].account)
  /\ made \subseteq DOMAIN wallet
  /\ ~failed => \A a \in DOMAIN accounts :
       a \in DOMAIN wallet \/ \E t \in Threads : HeadIs(todo[t], "row", a)

\* Of an account with no race, at most one credit is between its read and its
\* write, and what it has read is what there is.
Credits ==
  /\ credited \in [Ids -> Nat]
  /\ \A a \in Ids \ raced :
       /\ progress[a] = credited[a]
       /\ \A t \in Threads :
            HeadIs(todo[t], "set", a) =>
              /\ todo[t][1].n = progress[a] + 1
              /\ \A u \in Threads \ {t} : ~HeadIs(todo[u], "set", a)

\* Of an account with no overlap, at most one charge is between its check and
\* its update, and the balance covers it but for what the GM has taken.
Covered ==
  \A a \in DOMAIN accounts \ overlapped :
    \A t \in Threads :
      ChargeIs(todo[t], a) =>
        /\ a \in DOMAIN wallet
        /\ wallet[a][todo[t][1].currency] + todo[t][1].n
             >= -taken[a][todo[t][1].currency]
        /\ \A u \in Threads \ {t} : ~ChargeIs(todo[u], a)

AccountsInv ==
  /\ TypeOK /\ Plans /\ Rows /\ Credits /\ Covered /\ OverdraftNeedsOverlap

-----------------------------------------------------------------------------
(* What steps have in common. *)

LEMMA StatementFields ==
  ASSUME NEW x \in Statement
  PROVE  /\ x.op \in {"lookup", "insert"} => x.name \in Names /\ x.visitor \in BOOLEAN
         /\ x.op = "login" => x.name \in Names
         /\ x.op = "check" => x.currency \in Currency /\ x.n \in Nat /\ x.must = TRUE
         /\ x.op = "add" => /\ x.currency \in Currency /\ x.n \in Int
                            /\ x.copies \in Nat
         /\ x.op = "own" => x.char \in Characters
         /\ x.op = "row" => x.must = TRUE
         /\ x.op = "answer" => x.visitor \in BOOLEAN
         /\ x.op = "set" => x.n \in Nat
  <1>1. CASE x \in NameStatement
    BY <1>1 DEF NameStatement
  <1>2. CASE x \in LoginStatement
    BY <1>2 DEF LoginStatement
  <1>3. CASE x \in CheckStatement
    BY <1>3 DEF CheckStatement
  <1>4. CASE x \in AddStatement
    BY <1>4 DEF AddStatement
  <1>5. CASE x \in OwnStatement
    BY <1>5 DEF OwnStatement
  <1>6. CASE x \in RowStatement
    BY <1>6 DEF RowStatement
  <1>7. CASE x \in AnswerStatement
    BY <1>7 DEF AnswerStatement
  <1>8. CASE x \in ReadStatement
    BY <1>8 DEF ReadStatement
  <1>9. CASE x \in SetStatement
    BY <1>9 DEF SetStatement
  <1>10. QED
    BY <1>1, <1>2, <1>3, <1>4, <1>5, <1>6, <1>7, <1>8, <1>9, Zenon DEF Statement

LEMMA AccountFacts ==
  ASSUME TypeOK
  PROVE  /\ Len(accounts) \in Nat /\ DOMAIN accounts = 1 .. Len(accounts)
         /\ DOMAIN accounts \in SUBSET Nat
         /\ accounts \in Seq(Names)
  <1>1. accounts \in Seq(Names)
    BY DEF TypeOK
  <1>2. Len(accounts) \in Nat /\ DOMAIN accounts = 1 .. Len(accounts)
    BY <1>1
  <1>3. QED
    BY <1>1, <1>2

\* An id per name.
LEMMA IdsOfAccounts ==
  ASSUME TypeOK
  PROVE  DOMAIN accounts \subseteq Ids
  <1>1. PICK n \in Nat : n = Len(accounts) /\ DOMAIN accounts = 1 .. n
    BY AccountFacts, ZenonT(30)
  <1>2. accounts \in Injection(1 .. n, Names)
    BY <1>1 DEF TypeOK, Injection
  <1>3. Cardinality(1 .. n) <= Cardinality(Names)
    BY <1>2, AccountsAssumption, FS_Injection
  <1>4. Cardinality(1 .. n) = n
    BY FS_Interval
  <1>5. Cardinality(Names) \in Nat
    BY AccountsAssumption, FS_CardinalityType
  <1>6. QED
    BY <1>1, <1>3, <1>4, <1>5, SMTT(30) DEF Ids

\* What is at the head of the plan of a goroutine that is not idle.
LEMMA HeadFacts ==
  ASSUME AccountsInv, NEW t \in Threads, NEW op, Doing(t, op)
  PROVE  /\ todo[t] # << >> /\ todo[t] \in Seq(Statement)
         /\ Plan(todo[t], DOMAIN accounts)
         /\ Head(todo[t]) = todo[t][1] /\ todo[t][1] \in Statement
         /\ 1 \in DOMAIN todo[t]
         /\ todo[t][1].op = op
         /\ op \in {"check", "row", "answer", "own"} =>
              todo[t][1].account \in DOMAIN accounts
         /\ op \in {"add", "own", "read", "set"} => todo[t][1].account \in Ids
  <1>1. /\ todo[t] # << >> /\ Plan(todo[t], DOMAIN accounts)
        /\ todo[t] \in Seq(Statement) /\ Head(todo[t]).op = op
    BY DEF AccountsInv, Plans, Doing
  <1>2. PICK s \in Seq(Statement) : s = todo[t] /\ s # << >>
    BY <1>1
  <1>3. /\ 1 \in DOMAIN s /\ Head(s) = s[1] /\ s[1] \in Statement
    BY <1>2
  <1>4. Known(s[1], DOMAIN accounts)
    BY <1>1, <1>2, <1>3 DEF Plan
  <1>5. DOMAIN accounts \subseteq Ids
    BY IdsOfAccounts DEF AccountsInv
  <1>6. s[1].op = "own" => s[1].account \in DOMAIN accounts
    <2>1. s[1].op = "own" =>
            \/ s[1].account \in DOMAIN accounts
            \/ \E k \in 1 .. 1 - 1 : Sure(s[k]) /\ s[k].account = s[1].account
      BY <1>1, <1>2, <1>3 DEF Plan
    <2>2. 1 .. 1 - 1 = {}
      OBVIOUS
    <2>3. QED
      BY <2>1, <2>2
  <1>7. QED
    BY <1>1, <1>2, <1>3, <1>4, <1>5, <1>6 DEF Known

LEMMA PlansStep ==
  ASSUME AccountsInv, NEW t \in Threads, NEW s, todo' = [todo EXCEPT ![t] = s],
         Plan(s, DOMAIN accounts'), DOMAIN accounts \subseteq DOMAIN accounts'
  PROVE  /\ Plans'
         /\ todo'[t] = s /\ \A u \in Threads \ {t} : todo'[u] = todo[u]
  <1>1. /\ todo \in [Threads -> Seq(Statement)]
        /\ \A u \in Threads : Plan(todo[u], DOMAIN accounts)
    BY DEF AccountsInv, Plans
  <1>2. s \in Seq(Statement)
    BY DEF Plan
  <1>3. /\ todo' \in [Threads -> Seq(Statement)]
        /\ todo'[t] = s /\ \A u \in Threads \ {t} : todo'[u] = todo[u]
    BY <1>1, <1>2
  <1>4. PICK B : B = DOMAIN accounts'
    OBVIOUS
  <1>5. \A u \in Threads : Plan(todo[u], B)
    BY <1>1, <1>4, PlanGrows
  <1>6. ASSUME NEW u \in Threads PROVE Plan(todo'[u], DOMAIN accounts')
    <2>1. CASE u = t
      BY <1>3, <2>1
    <2>2. CASE u # t
      <3>1. todo'[u] = todo[u]
        BY <1>3, <2>2
      <3>2. QED
        BY <1>4, <1>5, <3>1
    <2>3. QED
      BY <2>1, <2>2
  <1>7. QED
    BY <1>3, <1>6, Zenon DEF Plans

\* A plan that goes on with its next statement.
LEMMA Onward ==
  ASSUME AccountsInv, NEW t \in Threads, todo[t] # << >>, NEW s, s = Tail(todo[t]),
         Sure(todo[t][1]) => todo[t][1].account \in DOMAIN accounts
  PROVE  /\ Plan(s, DOMAIN accounts)
         /\ \A a : ~HeadIs(s, "row", a) /\ ~HeadIs(s, "set", a)
         /\ todo[t][1].op # "check" => \A a : ~ChargeIs(s, a)
         /\ \A a : ChargeIs(s, a) => CheckOf(todo[t][1], s[1])
         /\ \A i \in DOMAIN s : s[i].op = "answer" =>
              \/ s[i].account \in DOMAIN wallet
              \/ HeadIs(todo[t], "row", s[i].account)
  <1>1. Plan(todo[t], DOMAIN accounts)
    BY DEF AccountsInv, Plans
  <1>2. PICK p : p = todo[t]
    OBVIOUS
  <1>3. Plan(p, DOMAIN accounts) /\ p # << >> /\ s = Tail(p)
    BY <1>1, <1>2
  <1>4. /\ Plan(s, DOMAIN accounts)
        /\ \A i \in DOMAIN s : i + 1 \in DOMAIN p /\ s[i] = p[i + 1]
        /\ s # << >> =>
             /\ Head(s) = p[2]
             /\ p[2].op \notin {"set", "row"}
             /\ IsCharge(p[2]) => CheckOf(p[1], p[2])
    <2>1. /\ Plan(Tail(p), DOMAIN accounts)
          /\ \A i \in DOMAIN Tail(p) : i + 1 \in DOMAIN p /\ Tail(p)[i] = p[i + 1]
          /\ Tail(p) # << >> =>
               /\ Head(Tail(p)) = p[2]
               /\ p[2].op \notin {"set", "row"}
               /\ IsCharge(p[2]) => CheckOf(p[1], p[2])
      <3>1. PICK A : A = DOMAIN accounts
        OBVIOUS
      <3>2. Plan(p, A) /\ p # << >> /\ (Sure(p[1]) => p[1].account \in A)
        BY <1>2, <1>3, <3>1
      <3>3. QED
        <4>1. Plan(Tail(p), A)
          BY <3>2, TailPlan, Zenon
        <4>2. \A i \in DOMAIN Tail(p) : i + 1 \in DOMAIN p /\ Tail(p)[i] = p[i + 1]
          BY <3>2, PlanParts, ZenonT(40)
        <4>3. Tail(p) # << >> =>
                /\ Head(Tail(p)) = p[2]
                /\ p[2].op \notin {"set", "row"}
                /\ IsCharge(p[2]) => CheckOf(p[1], p[2])
          BY <3>2, PlanParts, ZenonT(40)
        <4>4. QED
          BY <3>1, <4>1, <4>2, <4>3, Zenon
    <2>2. QED
      BY <1>3, <2>1, Zenon
  <1>5. s # << >> => s[1] = p[2]
    <2>1. s \in Seq(Statement)
      BY <1>4 DEF Plan
    <2>2. QED
      BY <1>4, <2>1
  <1>6. \A a : ~HeadIs(s, "row", a) /\ ~HeadIs(s, "set", a)
    BY <1>4, <1>5 DEF HeadIs
  <1>7. \A a : ChargeIs(s, a) => CheckOf(p[1], s[1])
    BY <1>4, <1>5 DEF ChargeIs
  <1>8. p[1].op # "check" => \A a : ~ChargeIs(s, a)
    BY <1>7 DEF CheckOf
  <1>9. \A i \in DOMAIN p : p[i].op = "answer" =>
          p[i].account \in DOMAIN wallet \/ HeadIs(p, "row", p[i].account)
    BY <1>2, Zenon DEF AccountsInv, Rows
  <1>10. \A i \in DOMAIN s : s[i].op = "answer" =>
           s[i].account \in DOMAIN wallet \/ HeadIs(p, "row", s[i].account)
    BY <1>4, <1>9
  <1>11. QED
    BY <1>2, <1>4, <1>6, <1>7, <1>8, <1>10, Zenon

\* An operation that has just started, and one that has ended.
LEMMA FreshCalm ==
  ASSUME NEW s, NEW A, Plan(s, A), Fresh(s)
  PROVE  /\ \A a : ~HeadIs(s, "row", a) /\ ~HeadIs(s, "set", a) /\ ~ChargeIs(s, a)
         /\ \A i \in DOMAIN s : s[i].op # "answer"
  <1>1. s # << >> => 1 \in DOMAIN s
    BY DEF Plan
  <1>2. QED
    BY <1>1 DEF Fresh, HeadIs, ChargeIs

\* Steps that touch no wallet's existence leave the signups as they are.
LEMMA RowsQuiet ==
  ASSUME AccountsInv, NEW t \in Threads, NEW s,
         todo'[t] = s, \A u \in Threads \ {t} : todo'[u] = todo[u],
         \A a : ~HeadIs(s, "row", a),
         \A i \in DOMAIN s : s[i].op = "answer" => s[i].account \in DOMAIN wallet,
         DOMAIN wallet' = DOMAIN wallet, accounts' = accounts,
         made' \subseteq DOMAIN wallet,
         failed' \/ (~failed /\ \A a : ~HeadIs(todo[t], "row", a))
  PROVE  Rows'
  <1>1. ASSUME NEW u \in Threads, NEW a \in DOMAIN accounts', HeadIs(todo'[u], "row", a)
        PROVE  /\ a \notin DOMAIN wallet'
               /\ \A v \in Threads \ {u} : ~HeadIs(todo'[v], "row", a)
    <2>1. u # t /\ todo'[u] = todo[u] /\ HeadIs(todo[u], "row", a)
      BY <1>1
    <2>2. /\ a \notin DOMAIN wallet
          /\ \A v \in Threads \ {u} : ~HeadIs(todo[v], "row", a)
      BY <2>1, Zenon DEF AccountsInv, Rows
    <2>3. QED
      BY <2>2
  <1>2. ASSUME NEW u \in Threads, NEW i \in DOMAIN todo'[u],
               todo'[u][i].op = "answer"
        PROVE  \/ todo'[u][i].account \in DOMAIN wallet'
               \/ HeadIs(todo'[u], "row", todo'[u][i].account)
    <2>1. CASE u = t
      BY <1>2, <2>1
    <2>2. CASE u # t
      <3>1. todo'[u] = todo[u]
        BY <2>2
      <3>2. \/ todo[u][i].account \in DOMAIN wallet
            \/ HeadIs(todo[u], "row", todo[u][i].account)
        BY <1>2, <3>1 DEF AccountsInv, Rows
      <3>3. QED
        BY <3>1, <3>2
    <2>3. QED
      BY <2>1, <2>2
  <1>3. ASSUME ~failed', NEW a \in DOMAIN accounts'
        PROVE  a \in DOMAIN wallet' \/ \E u \in Threads : HeadIs(todo'[u], "row", a)
    <2>1. a \in DOMAIN wallet \/ \E u \in Threads : HeadIs(todo[u], "row", a)
      BY <1>3 DEF AccountsInv, Rows
    <2>2. CASE a \in DOMAIN wallet
      BY <2>2
    <2>3. ASSUME NEW u \in Threads, HeadIs(todo[u], "row", a)
          PROVE  HeadIs(todo'[u], "row", a)
      <3>1. u # t
        BY <1>3, <2>3
      <3>2. QED
        BY <2>3, <3>1
    <2>4. QED
      BY <2>1, <2>2, <2>3
  <1>4. made' \subseteq DOMAIN wallet'
    OBVIOUS
  <1>5. QED
    BY <1>1, <1>2, <1>3, <1>4, Zenon DEF Rows

\* Steps that are not of a credit leave the credits as they are.
LEMMA CreditsQuiet ==
  ASSUME AccountsInv, NEW t \in Threads, NEW s,
         todo'[t] = s, \A u \in Threads \ {t} : todo'[u] = todo[u],
         \A a : ~HeadIs(s, "set", a),
         progress' = progress, credited' = credited, raced' = raced
  PROVE  Credits'
  <1>1. ASSUME NEW a \in Ids \ raced', NEW u \in Threads, HeadIs(todo'[u], "set", a)
        PROVE  /\ todo'[u][1].n = progress'[a] + 1
               /\ \A v \in Threads \ {u} : ~HeadIs(todo'[v], "set", a)
    <2>1. u # t /\ todo'[u] = todo[u] /\ HeadIs(todo[u], "set", a)
      BY <1>1
    <2>2. /\ todo[u][1].n = progress[a] + 1
          /\ \A v \in Threads \ {u} : ~HeadIs(todo[v], "set", a)
      BY <2>1, Zenon DEF AccountsInv, Credits
    <2>3. QED
      BY <2>1, <2>2
  <1>2. \A a \in Ids \ raced' : progress'[a] = credited'[a]
    BY DEF AccountsInv, Credits
  <1>3. credited' \in [Ids -> Nat]
    BY DEF AccountsInv, Credits
  <1>4. QED
    BY <1>1, <1>2, <1>3, Zenon DEF Credits

\* Steps that neither check nor charge leave the charges as they are.
LEMMA CoveredQuiet ==
  ASSUME AccountsInv, NEW t \in Threads, NEW s,
         todo'[t] = s, \A u \in Threads \ {t} : todo'[u] = todo[u],
         \A a : ~ChargeIs(s, a),
         wallet' = wallet, accounts' = accounts, overlapped' = overlapped,
         taken' = taken
  PROVE  Covered' /\ OverdraftNeedsOverlap'
  <1>1. ASSUME NEW a \in DOMAIN accounts' \ overlapped', NEW u \in Threads,
               ChargeIs(todo'[u], a)
        PROVE  /\ a \in DOMAIN wallet'
               /\ wallet'[a][todo'[u][1].currency] + todo'[u][1].n
                    >= -taken'[a][todo'[u][1].currency]
               /\ \A v \in Threads \ {u} : ~ChargeIs(todo'[v], a)
    <2>1. u # t /\ todo'[u] = todo[u] /\ ChargeIs(todo[u], a)
      BY <1>1
    <2>2. /\ a \in DOMAIN wallet
          /\ wallet[a][todo[u][1].currency] + todo[u][1].n
               >= -taken[a][todo[u][1].currency]
          /\ \A v \in Threads \ {u} : ~ChargeIs(todo[v], a)
      BY <2>1, Zenon DEF AccountsInv, Covered
    <2>3. QED
      BY <2>1, <2>2
  <1>2. OverdraftNeedsOverlap'
    BY DEF AccountsInv, OverdraftNeedsOverlap
  <1>3. QED
    BY <1>1, <1>2, Zenon DEF Covered

\* A plan that ends, or goes on after anything but a row.
LEMMA MovesOn ==
  ASSUME AccountsInv, NEW t \in Threads, todo[t] # << >>, NEW s,
         \/ s = << >>
         \/ /\ s = Tail(todo[t]) /\ todo[t][1].op # "row"
            /\ Sure(todo[t][1]) => todo[t][1].account \in DOMAIN accounts
  PROVE  /\ Plan(s, DOMAIN accounts)
         /\ \A a : ~HeadIs(s, "row", a) /\ ~HeadIs(s, "set", a)
         /\ todo[t][1].op # "check" \/ s = << >> => \A a : ~ChargeIs(s, a)
         /\ \A i \in DOMAIN s : s[i].op = "answer" => s[i].account \in DOMAIN wallet
  <1>1. CASE s = << >>
    BY <1>1, EmptyPlan DEF HeadIs, ChargeIs
  <1>2. CASE /\ s = Tail(todo[t]) /\ todo[t][1].op # "row"
             /\ Sure(todo[t][1]) => todo[t][1].account \in DOMAIN accounts
    <2>1. \A a : ~HeadIs(todo[t], "row", a)
      BY <1>2 DEF HeadIs
    <2>2. /\ Plan(s, DOMAIN accounts)
          /\ \A a : ~HeadIs(s, "row", a) /\ ~HeadIs(s, "set", a)
          /\ todo[t][1].op # "check" => \A a : ~ChargeIs(s, a)
          /\ \A i \in DOMAIN s : s[i].op = "answer" =>
               \/ s[i].account \in DOMAIN wallet
               \/ HeadIs(todo[t], "row", s[i].account)
      BY <1>2, Onward
    <2>3. QED
      BY <1>2, <2>1, <2>2 DEF ChargeIs
  <1>3. QED
    BY <1>1, <1>2

\* A step that changes no wallet, progress or account.
LEMMA QuietStep ==
  ASSUME AccountsInv, NEW t \in Threads, NEW s, todo' = [todo EXCEPT ![t] = s],
         Plan(s, DOMAIN accounts),
         \A a : ~HeadIs(s, "row", a) /\ ~HeadIs(s, "set", a) /\ ~ChargeIs(s, a),
         \A i \in DOMAIN s : s[i].op = "answer" => s[i].account \in DOMAIN wallet,
         accounts' = accounts, wallet' = wallet, progress' = progress,
         credited' = credited, raced' = raced, overlapped' = overlapped,
         taken' = taken, pooled' \in BOOLEAN, owned' \subseteq (DOMAIN accounts) \X Characters,
         made' \subseteq DOMAIN wallet,
         who' \in [Threads -> {0} \cup DOMAIN accounts],
         failed' \/ (~failed /\ \A a : ~HeadIs(todo[t], "row", a))
  PROVE  AccountsInv'
  <1>1. /\ Plans'
        /\ todo'[t] = s /\ \A u \in Threads \ {t} : todo'[u] = todo[u]
    BY PlansStep
  <1>2. TypeOK'
    BY DEF AccountsInv, TypeOK
  <1>3. Rows'
    BY <1>1, RowsQuiet
  <1>4. Credits'
    BY <1>1, CreditsQuiet
  <1>5. Covered' /\ OverdraftNeedsOverlap'
    BY <1>1, CoveredQuiet
  <1>6. QED
    BY <1>1, <1>2, <1>3, <1>4, <1>5 DEF AccountsInv

LEMMA OwnersAndMade ==
  ASSUME AccountsInv
  PROVE  /\ owned \subseteq (DOMAIN accounts) \X Characters
         /\ made \subseteq DOMAIN wallet
         /\ who \in [Threads -> {0} \cup DOMAIN accounts]
         /\ DOMAIN wallet \subseteq DOMAIN accounts
         /\ pooled \in BOOLEAN
  BY DEF AccountsInv, TypeOK, Rows

LEMMA InitAccounts == Init => AccountsInv
  <1> SUFFICES ASSUME Init PROVE AccountsInv
    OBVIOUS
  <1>1. /\ accounts = << >> /\ DOMAIN wallet = {} /\ owned = {}
        /\ progress = [a \in Ids |-> 0] /\ todo = [t \in Threads |-> << >>]
        /\ who = [t \in Threads |-> 0] /\ failed = FALSE /\ overlapped = {}
        /\ made = {} /\ credited = [a \in Ids |-> 0] /\ raced = {}
        /\ taken = [a \in Ids |-> [c \in Currency |-> 0]] /\ pooled = FALSE
    BY DEF Init
  <1>2. TypeOK
    <2>1. taken \in [Ids -> [Currency -> Nat]] /\ progress \in [Ids -> Nat]
      BY <1>1
    <2>2. pooled \in BOOLEAN
      BY <1>1
    <2>3. accounts \in Seq(Names) /\ IsInjective(accounts)
      BY <1>1 DEF IsInjective
    <2>4. who \in [Threads -> {0} \cup DOMAIN accounts]
      BY <1>1
    <2>5. QED
      BY <1>1, <2>1, <2>2, <2>3, <2>4 DEF TypeOK
  <1>3. Plans
    <2>1. Plan(<< >>, DOMAIN accounts)
      BY EmptyPlan
    <2>2. QED
      BY <1>1, <2>1 DEF Plans
  <1>4. Rows
    BY <1>1 DEF Rows, HeadIs
  <1>5. Credits
    BY <1>1 DEF Credits, HeadIs
  <1>6. Covered /\ OverdraftNeedsOverlap
    BY <1>1 DEF Covered, OverdraftNeedsOverlap
  <1>7. QED
    BY <1>2, <1>3, <1>4, <1>5, <1>6 DEF AccountsInv

-----------------------------------------------------------------------------
(* The steps. *)

LEMMA StartKeeps ==
  ASSUME AccountsInv, NEW t \in Threads, NEW s, Plan(s, DOMAIN accounts),
         Fresh(s), Start(t, s)
  PROVE  AccountsInv'
  <1>1. /\ todo[t] = << >> /\ todo' = [todo EXCEPT ![t] = s]
        /\ UNCHANGED <<accounts, wallet, owned, progress, who, failed, overlapped,
                       taken, made, credited, raced>>
        /\ pooled' \in BOOLEAN
    BY DEF Start, tables, history
  <1>2. \A a : ~HeadIs(todo[t], "row", a)
    BY <1>1 DEF HeadIs
  <1>4. /\ \A a : ~HeadIs(s, "row", a) /\ ~HeadIs(s, "set", a) /\ ~ChargeIs(s, a)
        /\ \A i \in DOMAIN s : s[i].op = "answer" => s[i].account \in DOMAIN wallet
    BY FreshCalm
  <1>5. failed' \/ (~failed /\ \A a : ~HeadIs(todo[t], "row", a))
    BY <1>1, <1>2
  <1>6. QED
    BY <1>1, <1>4, <1>5, OwnersAndMade, QuietStep

LEMMA RequestKeeps ==
  ASSUME AccountsInv, NEW t \in Threads, Request(t)
  PROVE  AccountsInv'
  <1>1. PICK A \in SUBSET Nat : A = DOMAIN accounts
    BY AccountFacts DEF AccountsInv
  <1>2. ASSUME NEW name \in Names, NEW visitor \in BOOLEAN,
               Start(t, Signup(name, visitor))
        PROVE  AccountsInv'
    BY <1>1, <1>2, SmallPlans, StartKeeps
  <1>3. ASSUME NEW name \in Names, Start(t, Login(name))
        PROVE  AccountsInv'
    BY <1>1, <1>3, SmallPlans, StartKeeps
  <1>4. who[t] # 0 => who[t] \in A
    BY <1>1 DEF AccountsInv, TypeOK
  <1>5. ASSUME who[t] # 0, NEW g \in Catalog, NEW n \in 1 .. MaxCopies,
               Start(t, Purchase(who[t], g, n))
        PROVE  AccountsInv'
    <2>1. PICK a \in A : a = who[t]
      BY <1>4, <1>5
    <2>2. Plan(Purchase(a, g, n), A) /\ Fresh(Purchase(a, g, n))
      BY PurchasePlan
    <2>3. QED
      BY <1>1, <1>5, <2>1, <2>2, StartKeeps
  <1>6. ASSUME who[t] # 0, NEW n \in 1 .. MaxCopies,
               NEW chars \in [1 .. n -> Characters], Start(t, Open(who[t], chars))
        PROVE  AccountsInv'
    <2>1. PICK a \in A : a = who[t]
      BY <1>4, <1>6
    <2>2. Plan(Open(a, chars), A) /\ Fresh(Open(a, chars))
      BY OpenPlan
    <2>3. QED
      BY <1>1, <1>6, <2>1, <2>2, StartKeeps
  <1>7. ASSUME NEW a \in Ids, NEW g \in Grants,
               NEW chars \in {<< >>} \cup {<<ch>> : ch \in Characters},
               Start(t, GrantAccount(a, g, chars))
        PROVE  AccountsInv'
    BY <1>1, <1>7, GrantAccountPlan, StartKeeps
  <1>8. ASSUME NEW a \in Ids, Start(t, Increment(a))
        PROVE  AccountsInv'
    <2>1. Plan(Increment(a), A) /\ Fresh(Increment(a))
      BY IncrementPlan
    <2>2. QED
      BY <1>1, <1>8, <2>1, StartKeeps
  <1>9. QED
    BY <1>1, <1>2, <1>3, <1>5, <1>6, <1>7, <1>8 DEF Request

LEMMA IdOfName ==
  ASSUME NEW name, name \in Range(accounts)
  PROVE  IdOf(name) \in DOMAIN accounts
  BY DEF Range, IdOf

LEMMA LookupKeeps ==
  ASSUME AccountsInv, NEW t \in Threads, Lookup(t)
  PROVE  AccountsInv'
  <1>1. /\ todo[t] # << >> /\ Head(todo[t]) = todo[t][1]
        /\ todo[t][1].op = "lookup"
    BY HeadFacts DEF Lookup
  <1>2. PICK s : /\ todo' = [todo EXCEPT ![t] = s]
                 /\ s = << >> \/ s = Tail(todo[t])
                 /\ who' \in [Threads -> {0} \cup DOMAIN accounts]
    <2>1. PICK name : name = Head(todo[t]).name
      OBVIOUS
    <2>2. CASE name \in Range(accounts)
      <3>1. todo' = [todo EXCEPT ![t] = << >>]
        BY <2>1, <2>2 DEF Lookup, Continue
      <3>2. who' = who \/ who' = [who EXCEPT ![t] = IdOf(name)]
        BY <2>1, <2>2 DEF Lookup
      <3>3. who' \in [Threads -> {0} \cup DOMAIN accounts]
        BY <2>2, <3>2, IdOfName, OwnersAndMade
      <3>4. QED
        BY <3>1, <3>3
    <2>3. CASE name \notin Range(accounts)
      <3>1. todo' = [todo EXCEPT ![t] = Tail(todo[t])] /\ who' = who
        BY <2>1, <2>3 DEF Lookup, Continue
      <3>2. QED
        BY <3>1, OwnersAndMade
    <2>4. QED
      BY <2>2, <2>3
  <1>3. UNCHANGED <<accounts, wallet, owned, progress, failed, overlapped, taken,
                    made, credited, raced, pooled>>
    BY DEF Lookup, tables, history, Continue
  <1>4. /\ Plan(s, DOMAIN accounts)
        /\ \A a : ~HeadIs(s, "row", a) /\ ~HeadIs(s, "set", a) /\ ~ChargeIs(s, a)
        /\ \A i \in DOMAIN s : s[i].op = "answer" => s[i].account \in DOMAIN wallet
    BY <1>1, <1>2, MovesOn DEF Sure
  <1>5. failed' \/ (~failed /\ \A a : ~HeadIs(todo[t], "row", a))
    BY <1>1, <1>3 DEF HeadIs
  <1>6. QED
    BY <1>2, <1>3, <1>4, <1>5, OwnersAndMade, QuietStep

LEMMA LoginKeeps ==
  ASSUME AccountsInv, NEW t \in Threads, LoginAs(t)
  PROVE  AccountsInv'
  <1>1. todo[t] # << >> /\ todo[t][1].op = "login"
    BY HeadFacts DEF LoginAs
  <1>2. PICK s : s = << >> /\ todo' = [todo EXCEPT ![t] = s]
    BY DEF LoginAs, Continue
  <1>3. UNCHANGED <<accounts, wallet, owned, progress, failed, overlapped, taken,
                    made, credited, raced, pooled>>
    BY DEF LoginAs, tables, history, Continue
  <1>4. who' \in [Threads -> {0} \cup DOMAIN accounts]
    <2>1. PICK name : name = Head(todo[t]).name
      OBVIOUS
    <2>2. who' = IF name \in Range(accounts) THEN [who EXCEPT ![t] = IdOf(name)]
                                             ELSE who
      BY <2>1 DEF LoginAs
    <2>3. QED
      BY <2>2, IdOfName, OwnersAndMade
  <1>5. /\ Plan(s, DOMAIN accounts)
        /\ \A a : ~HeadIs(s, "row", a) /\ ~HeadIs(s, "set", a) /\ ~ChargeIs(s, a)
        /\ \A i \in DOMAIN s : s[i].op = "answer" => s[i].account \in DOMAIN wallet
    BY <1>1, <1>2, MovesOn DEF Sure
  <1>6. failed' \/ (~failed /\ \A a : ~HeadIs(todo[t], "row", a))
    BY <1>1, <1>3 DEF HeadIs
  <1>7. QED
    BY <1>2, <1>3, <1>4, <1>5, <1>6, OwnersAndMade, QuietStep

LEMMA AnswerKeeps ==
  ASSUME AccountsInv, NEW t \in Threads, Answer(t)
  PROVE  AccountsInv'
  <1>1. /\ todo[t] # << >> /\ Head(todo[t]) = todo[t][1] /\ todo[t][1].op = "answer"
        /\ 1 \in DOMAIN todo[t] /\ todo[t][1].account \in DOMAIN accounts
    BY HeadFacts DEF Answer
  <1>2. PICK s : s = Tail(todo[t]) /\ todo' = [todo EXCEPT ![t] = s]
    BY DEF Answer, Continue
  <1>3. /\ UNCHANGED <<accounts, wallet, owned, progress, failed, overlapped,
                       taken, credited, raced, pooled>>
        /\ made' = made \cup {todo[t][1].account}
        /\ who' = who \/ who' = [who EXCEPT ![t] = todo[t][1].account]
    BY <1>1 DEF Answer, tables, Continue
  <1>4. who' \in [Threads -> {0} \cup DOMAIN accounts]
    BY <1>1, <1>3, OwnersAndMade
  <1>5. \A a : ~HeadIs(todo[t], "row", a)
    BY <1>1 DEF HeadIs
  <1>6. made' \subseteq DOMAIN wallet
    <2>1. todo[t][1].account \in DOMAIN wallet
      <3>1. \A i \in DOMAIN todo[t] : todo[t][i].op = "answer" =>
              \/ todo[t][i].account \in DOMAIN wallet
              \/ HeadIs(todo[t], "row", todo[t][i].account)
        BY Zenon DEF AccountsInv, Rows
      <3>2. QED
        BY <1>1, <1>5, <3>1
    <2>2. QED
      BY <1>3, <2>1, OwnersAndMade
  <1>7. /\ Plan(s, DOMAIN accounts)
        /\ \A a : ~HeadIs(s, "row", a) /\ ~HeadIs(s, "set", a) /\ ~ChargeIs(s, a)
        /\ \A i \in DOMAIN s : s[i].op = "answer" => s[i].account \in DOMAIN wallet
    BY <1>1, <1>2, MovesOn DEF Sure
  <1>8. failed' \/ (~failed /\ \A a : ~HeadIs(todo[t], "row", a))
    BY <1>3, <1>5
  <1>9. QED
    BY <1>2, <1>3, <1>4, <1>6, <1>7, <1>8, OwnersAndMade, QuietStep

LEMMA AddCharacterKeeps ==
  ASSUME AccountsInv, NEW t \in Threads, AddCharacter(t)
  PROVE  AccountsInv'
  <1>1. /\ todo[t] # << >> /\ Head(todo[t]) = todo[t][1] /\ todo[t][1].op = "own"
        /\ todo[t][1] \in Statement /\ todo[t][1].account \in DOMAIN accounts
    BY HeadFacts DEF AddCharacter
  <1>2. PICK s : s = Tail(todo[t]) /\ todo' = [todo EXCEPT ![t] = s]
    BY DEF AddCharacter, Continue
  <1>3. /\ UNCHANGED <<accounts, wallet, progress, who, failed, overlapped, taken,
                       made, credited, raced, pooled>>
        /\ owned' = owned \cup {<<todo[t][1].account, todo[t][1].char>>}
    BY <1>1 DEF AddCharacter, Continue
  <1>4. owned' \subseteq (DOMAIN accounts) \X Characters
    <2>1. todo[t][1].char \in Characters
      BY <1>1, StatementFields
    <2>2. QED
      BY <1>1, <1>3, <2>1, OwnersAndMade
  <1>5. /\ Plan(s, DOMAIN accounts)
        /\ \A a : ~HeadIs(s, "row", a) /\ ~HeadIs(s, "set", a) /\ ~ChargeIs(s, a)
        /\ \A i \in DOMAIN s : s[i].op = "answer" => s[i].account \in DOMAIN wallet
    BY <1>1, <1>2, MovesOn DEF Sure
  <1>6. failed' \/ (~failed /\ \A a : ~HeadIs(todo[t], "row", a))
    BY <1>1, <1>3 DEF HeadIs
  <1>7. QED
    BY <1>2, <1>3, <1>4, <1>5, <1>6, OwnersAndMade, QuietStep

\* A statement that fails ends the operation where the code looks at errors:
\* after a row and after a check it does.
LEMMA FailKeeps ==
  ASSUME AccountsInv, NEW t \in Threads, Fail(t)
  PROVE  AccountsInv'
  <1>1. /\ todo[t] # << >> /\ Head(todo[t]) = todo[t][1]
        /\ todo[t][1] \in Statement
    <2>1. Doing(t, Head(todo[t]).op)
      BY DEF Fail, Doing
    <2>2. QED
      BY <2>1, HeadFacts
  <1>2. PICK s : /\ todo' = [todo EXCEPT ![t] = s]
                 /\ s = IF todo[t][1].must THEN << >> ELSE Tail(todo[t])
    BY <1>1 DEF Fail, Continue
  <1>3. /\ UNCHANGED <<accounts, wallet, owned, progress, who, overlapped, taken,
                       made, credited, raced, pooled>>
        /\ failed' = TRUE
    BY DEF Fail, tables, Continue
  <1>4. /\ \/ s = << >>
           \/ s = Tail(todo[t]) /\ todo[t][1].op # "row" /\ ~Sure(todo[t][1])
        /\ s = << >> \/ todo[t][1].op # "check"
    BY <1>1, <1>2, StatementFields DEF Sure
  <1>5. /\ Plan(s, DOMAIN accounts)
        /\ \A a : ~HeadIs(s, "row", a) /\ ~HeadIs(s, "set", a) /\ ~ChargeIs(s, a)
        /\ \A i \in DOMAIN s : s[i].op = "answer" => s[i].account \in DOMAIN wallet
    BY <1>1, <1>4, MovesOn
  <1>6. QED
    BY <1>2, <1>3, <1>5, OwnersAndMade, QuietStep

\* A new account: no statement names it yet, and it has no wallet.
LEMMA InsertAccountKeeps ==
  ASSUME AccountsInv, NEW t \in Threads, InsertAccount(t)
  PROVE  AccountsInv'
  <1>1. /\ todo[t] # << >> /\ Head(todo[t]) = todo[t][1] /\ todo[t][1].op = "insert"
        /\ todo[t][1] \in Statement
    BY HeadFacts DEF InsertAccount
  <1>2. PICK name \in Names : name = todo[t][1].name
    BY <1>1, StatementFields
  <1>3. PICK visitor \in BOOLEAN : visitor = todo[t][1].visitor
    BY <1>1, StatementFields
  <1>4. UNCHANGED <<wallet, owned, progress, who, failed, overlapped, taken, made,
                    credited, raced, pooled>>
    BY DEF InsertAccount, history, Continue
  <1>5. \A a : ~HeadIs(todo[t], "row", a)
    BY <1>1 DEF HeadIs
  <1>6. CASE name \in Range(accounts)
    <2>1. PICK s : s = << >> /\ todo' = [todo EXCEPT ![t] = s]
      BY <1>1, <1>2, <1>6 DEF InsertAccount, Continue
    <2>2. accounts' = accounts
      BY <1>1, <1>2, <1>6 DEF InsertAccount
    <2>3. /\ Plan(s, DOMAIN accounts)
          /\ \A a : ~HeadIs(s, "row", a) /\ ~HeadIs(s, "set", a) /\ ~ChargeIs(s, a)
          /\ \A i \in DOMAIN s : s[i].op = "answer" => s[i].account \in DOMAIN wallet
      BY <1>1, <2>1, MovesOn DEF Sure
    <2>4. failed' \/ (~failed /\ \A a : ~HeadIs(todo[t], "row", a))
      BY <1>4, <1>5
    <2>5. QED
      BY <1>4, <2>1, <2>2, <2>3, <2>4, OwnersAndMade, QuietStep
  <1>7. CASE name \notin Range(accounts)
    <2>1. PICK n \in Nat : n = Len(accounts) + 1
      BY AccountFacts DEF AccountsInv
    <2>2. accounts' = Append(accounts, name)
      BY <1>1, <1>2, <1>7 DEF InsertAccount
    <2>3. /\ accounts' \in Seq(Names) /\ Len(accounts') = n /\ DOMAIN accounts' = 1 .. n
          /\ \A i \in DOMAIN accounts : accounts'[i] = accounts[i]
          /\ accounts'[n] = name
          /\ DOMAIN accounts' = DOMAIN accounts \cup {n} /\ n \notin DOMAIN accounts
      BY <2>1, <2>2, AccountFacts, AppendProperties DEF AccountsInv
    <2>4. PICK s : s = MakeWallet(n, visitor)
      OBVIOUS
    <2>5. todo' = [todo EXCEPT ![t] = s]
      BY <1>1, <1>2, <1>3, <1>7, <2>3, <2>4 DEF InsertAccount, Continue
    <2>6. /\ Plan(s, DOMAIN accounts')
          /\ s # << >> /\ s[1].op = "row" /\ s[1].account = n
          /\ \A i \in DOMAIN s : s[i].op = "answer" => s[i].account = n
      <3>1. PICK A \in SUBSET Nat : A = DOMAIN accounts' /\ n \in A
        BY <2>3
      <3>2. QED
        BY <2>4, <3>1, WalletPlan
    <2>7. /\ Plans'
          /\ todo'[t] = s /\ \A u \in Threads \ {t} : todo'[u] = todo[u]
      BY <2>3, <2>5, <2>6, PlansStep
    <2>8. /\ HeadIs(s, "row", n) /\ \A a : HeadIs(s, "row", a) => a = n
          /\ \A a : ~HeadIs(s, "set", a) /\ ~ChargeIs(s, a)
      BY <2>6 DEF HeadIs, ChargeIs, IsCharge
    <2>9. DOMAIN wallet \subseteq DOMAIN accounts /\ n \notin DOMAIN wallet
      BY <2>3, OwnersAndMade
    <2>10. TypeOK'
      <3>1. IsInjective(accounts')
        <4>1. \A i \in DOMAIN accounts : accounts[i] # name
          BY <1>7 DEF Range
        <4>2. \A i, j \in DOMAIN accounts : accounts[i] = accounts[j] => i = j
          BY DEF AccountsInv, TypeOK, IsInjective
        <4>3. QED
          BY <2>3, <4>1, <4>2 DEF IsInjective
      <3>2. QED
        BY <1>4, <2>3, <3>1 DEF AccountsInv, TypeOK
    <2>11. ASSUME NEW u \in Threads, NEW a,
                  HeadIs(todo[u], "row", a) \/ ChargeIs(todo[u], a)
           PROVE  a \in DOMAIN accounts
      <3>1. /\ todo[u] # << >> /\ todo[u][1].account = a
            /\ todo[u][1].op = "row" \/ IsCharge(todo[u][1])
        BY <2>11 DEF HeadIs, ChargeIs, IsCharge
      <3>2. Plan(todo[u], DOMAIN accounts)
        BY DEF AccountsInv, Plans
      <3>3. 1 \in DOMAIN todo[u]
        BY <3>1, <3>2, PlanParts
      <3>4. Known(todo[u][1], DOMAIN accounts)
        BY <3>2, <3>3 DEF Plan
      <3>5. QED
        BY <3>1, <3>4 DEF Known
    <2>12. Rows'
      <3>1. ASSUME NEW u \in Threads, NEW a \in DOMAIN accounts',
                   HeadIs(todo'[u], "row", a)
            PROVE  /\ a \notin DOMAIN wallet'
                   /\ \A v \in Threads \ {u} : ~HeadIs(todo'[v], "row", a)
        <4>1. CASE u = t
          <5>1. a = n
            BY <2>7, <2>8, <3>1, <4>1
          <5>2. \A v \in Threads \ {u} : ~HeadIs(todo[v], "row", a)
            BY <2>3, <2>11, <5>1
          <5>3. QED
            BY <1>4, <2>7, <2>9, <4>1, <5>1, <5>2
        <4>2. CASE u # t
          <5>1. HeadIs(todo[u], "row", a)
            BY <2>7, <3>1, <4>2
          <5>2. a \in DOMAIN accounts /\ a # n
            BY <2>3, <2>11, <5>1
          <5>3. /\ a \notin DOMAIN wallet
                /\ \A v \in Threads \ {u} : ~HeadIs(todo[v], "row", a)
            BY <5>1, <5>2, Zenon DEF AccountsInv, Rows
          <5>4. QED
            BY <1>4, <2>7, <2>8, <5>2, <5>3
        <4>3. QED
          BY <4>1, <4>2
      <3>2. ASSUME NEW u \in Threads, NEW i \in DOMAIN todo'[u],
                   todo'[u][i].op = "answer"
            PROVE  \/ todo'[u][i].account \in DOMAIN wallet'
                   \/ HeadIs(todo'[u], "row", todo'[u][i].account)
        <4>1. CASE u = t
          BY <2>6, <2>7, <2>8, <3>2, <4>1
        <4>2. CASE u # t
          <5>1. todo'[u] = todo[u]
            BY <2>7, <4>2
          <5>2. \/ todo[u][i].account \in DOMAIN wallet
                \/ HeadIs(todo[u], "row", todo[u][i].account)
            BY <3>2, <5>1 DEF AccountsInv, Rows
          <5>3. QED
            BY <1>4, <5>1, <5>2
        <4>3. QED
          BY <4>1, <4>2
      <3>3. ASSUME ~failed', NEW a \in DOMAIN accounts'
            PROVE  a \in DOMAIN wallet' \/ \E u \in Threads : HeadIs(todo'[u], "row", a)
        <4>1. CASE a = n
          BY <2>7, <2>8, <4>1
        <4>2. CASE a # n
          <5>1. a \in DOMAIN wallet \/ \E u \in Threads : HeadIs(todo[u], "row", a)
            BY <1>4, <2>3, <3>3, <4>2 DEF AccountsInv, Rows
          <5>2. CASE a \in DOMAIN wallet
            BY <1>4, <5>2
          <5>3. ASSUME NEW u \in Threads, HeadIs(todo[u], "row", a)
                PROVE  HeadIs(todo'[u], "row", a)
            BY <1>5, <2>7, <5>3
          <5>4. QED
            BY <5>1, <5>2, <5>3
        <4>3. QED
          BY <4>1, <4>2
      <3>4. made' \subseteq DOMAIN wallet'
        BY <1>4, OwnersAndMade
      <3>5. QED
        BY <3>1, <3>2, <3>3, <3>4, Zenon DEF Rows
    <2>13. Credits'
      BY <1>4, <2>7, <2>8, CreditsQuiet
    <2>14. Covered' /\ OverdraftNeedsOverlap'
      <3>1. ASSUME NEW a \in DOMAIN accounts' \ overlapped', NEW u \in Threads,
                   ChargeIs(todo'[u], a)
            PROVE  /\ a \in DOMAIN wallet'
                   /\ wallet'[a][todo'[u][1].currency] + todo'[u][1].n
                        >= -taken'[a][todo'[u][1].currency]
                   /\ \A v \in Threads \ {u} : ~ChargeIs(todo'[v], a)
        <4>1. u # t /\ todo'[u] = todo[u] /\ ChargeIs(todo[u], a)
          BY <2>7, <2>8, <3>1
        <4>2. a \in DOMAIN accounts \ overlapped
          BY <1>4, <2>11, <4>1
        <4>3. /\ a \in DOMAIN wallet
              /\ wallet[a][todo[u][1].currency] + todo[u][1].n
                   >= -taken[a][todo[u][1].currency]
              /\ \A v \in Threads \ {u} : ~ChargeIs(todo[v], a)
          BY <4>1, <4>2, Zenon DEF AccountsInv, Covered
        <4>4. QED
          BY <1>4, <2>7, <2>8, <4>1, <4>3
      <3>2. OverdraftNeedsOverlap'
        BY <1>4 DEF AccountsInv, OverdraftNeedsOverlap
      <3>3. QED
        BY <3>1, <3>2, Zenon DEF Covered
    <2>15. QED
      BY <2>7, <2>10, <2>12, <2>13, <2>14 DEF AccountsInv
  <1>8. QED
    BY <1>6, <1>7

\* The row of a new account: no charge is under way for it.
LEMMA InsertRowKeeps ==
  ASSUME AccountsInv, NEW t \in Threads, InsertRow(t)
  PROVE  AccountsInv'
  <1>1. /\ todo[t] # << >> /\ Head(todo[t]) = todo[t][1] /\ todo[t][1].op = "row"
        /\ todo[t][1].account \in DOMAIN accounts
    BY HeadFacts DEF InsertRow
  <1>2. PICK a \in DOMAIN accounts : a = todo[t][1].account
    BY <1>1
  <1>3. HeadIs(todo[t], "row", a) /\ \A b : HeadIs(todo[t], "row", b) => b = a
    BY <1>1, <1>2 DEF HeadIs
  <1>4. a \notin DOMAIN wallet /\ \A u \in Threads \ {t} : ~HeadIs(todo[u], "row", a)
    BY <1>3, Zenon DEF AccountsInv, Rows
  <1>5. PICK z : z = [c \in Currency |-> 0]
    OBVIOUS
  <1>6. /\ DOMAIN wallet' = DOMAIN wallet \cup {a} /\ wallet'[a] = z
        /\ \A b \in DOMAIN wallet : wallet'[b] = wallet[b]
    <2>1. wallet' = [b \in DOMAIN wallet \cup {a} |-> IF b = a THEN z ELSE wallet[b]]
      BY <1>1, <1>2, <1>5 DEF InsertRow
    <2>2. QED
      BY <1>4, <2>1
  <1>7. PICK s : s = Tail(todo[t]) /\ todo' = [todo EXCEPT ![t] = s]
    BY DEF InsertRow, Continue
  <1>8. UNCHANGED <<accounts, owned, progress, who, failed, overlapped, taken,
                    made, credited, raced, pooled>>
    BY DEF InsertRow, history, Continue
  <1>9. /\ Plan(s, DOMAIN accounts)
        /\ \A b : ~HeadIs(s, "row", b) /\ ~HeadIs(s, "set", b)
        /\ todo[t][1].op # "check" => \A b : ~ChargeIs(s, b)
        /\ \A i \in DOMAIN s : s[i].op = "answer" =>
             \/ s[i].account \in DOMAIN wallet
             \/ HeadIs(todo[t], "row", s[i].account)
    BY <1>1, <1>7, Onward DEF Sure
  <1>10. \A b : ~ChargeIs(s, b)
    BY <1>1, <1>9
  <1>11. /\ Plans'
         /\ todo'[t] = s /\ \A u \in Threads \ {t} : todo'[u] = todo[u]
    BY <1>7, <1>8, <1>9, PlansStep
  <1>12. TypeOK'
    <2>1. \A b \in DOMAIN wallet' : wallet'[b] \in [Currency -> Int]
      BY <1>5, <1>6 DEF AccountsInv, TypeOK
    <2>2. DOMAIN wallet' \subseteq DOMAIN accounts'
      BY <1>2, <1>6, <1>8 DEF AccountsInv, TypeOK
    <2>3. QED
      BY <1>8, <2>1, <2>2 DEF AccountsInv, TypeOK
  <1>13. Rows'
    <2>1. ASSUME NEW u \in Threads, NEW b \in DOMAIN accounts',
                 HeadIs(todo'[u], "row", b)
          PROVE  /\ b \notin DOMAIN wallet'
                 /\ \A v \in Threads \ {u} : ~HeadIs(todo'[v], "row", b)
      <3>1. u # t /\ HeadIs(todo[u], "row", b)
        BY <1>9, <1>11, <2>1
      <3>2. /\ b \notin DOMAIN wallet
            /\ \A v \in Threads \ {u} : ~HeadIs(todo[v], "row", b)
        BY <1>8, <3>1, Zenon DEF AccountsInv, Rows
      <3>3. b # a
        BY <1>4, <3>1
      <3>4. QED
        BY <1>6, <1>9, <1>11, <3>2, <3>3
    <2>2. ASSUME NEW u \in Threads, NEW i \in DOMAIN todo'[u],
                 todo'[u][i].op = "answer"
          PROVE  \/ todo'[u][i].account \in DOMAIN wallet'
                 \/ HeadIs(todo'[u], "row", todo'[u][i].account)
      <3>1. CASE u = t
        <4>1. todo'[u] = s /\ i \in DOMAIN s /\ s[i].op = "answer"
          BY <1>11, <2>2, <3>1
        <4>2. s[i].account \in DOMAIN wallet \/ s[i].account = a
          BY <1>3, <1>9, <4>1
        <4>3. QED
          BY <1>6, <4>1, <4>2
      <3>2. CASE u # t
        <4>1. todo'[u] = todo[u]
          BY <1>11, <3>2
        <4>2. \/ todo[u][i].account \in DOMAIN wallet
              \/ HeadIs(todo[u], "row", todo[u][i].account)
          BY <2>2, <4>1 DEF AccountsInv, Rows
        <4>3. QED
          BY <1>6, <4>1, <4>2
      <3>3. QED
        BY <3>1, <3>2
    <2>3. ASSUME ~failed', NEW b \in DOMAIN accounts'
          PROVE  b \in DOMAIN wallet' \/ \E u \in Threads : HeadIs(todo'[u], "row", b)
      <3>1. b \in DOMAIN wallet \/ \E u \in Threads : HeadIs(todo[u], "row", b)
        BY <1>8, <2>3 DEF AccountsInv, Rows
      <3>2. CASE b \in DOMAIN wallet \/ b = a
        BY <1>6, <3>2
      <3>3. ASSUME b # a, NEW u \in Threads, HeadIs(todo[u], "row", b)
            PROVE  HeadIs(todo'[u], "row", b)
        BY <1>3, <1>11, <3>3
      <3>4. QED
        BY <3>1, <3>2, <3>3
    <2>4. made' \subseteq DOMAIN wallet'
      BY <1>6, <1>8, OwnersAndMade
    <2>5. QED
      BY <2>1, <2>2, <2>3, <2>4, Zenon DEF Rows
  <1>14. Credits'
    BY <1>8, <1>9, <1>11, CreditsQuiet
  <1>15. Covered' /\ OverdraftNeedsOverlap'
    <2>1. ASSUME NEW b \in DOMAIN accounts' \ overlapped', NEW u \in Threads,
                 ChargeIs(todo'[u], b)
          PROVE  /\ b \in DOMAIN wallet'
                 /\ wallet'[b][todo'[u][1].currency] + todo'[u][1].n
                      >= -taken'[b][todo'[u][1].currency]
                 /\ \A v \in Threads \ {u} : ~ChargeIs(todo'[v], b)
      <3>1. u # t /\ todo'[u] = todo[u] /\ ChargeIs(todo[u], b)
        BY <1>10, <1>11, <2>1
      <3>2. /\ b \in DOMAIN wallet
            /\ wallet[b][todo[u][1].currency] + todo[u][1].n
                 >= -taken[b][todo[u][1].currency]
            /\ \A v \in Threads \ {u} : ~ChargeIs(todo[v], b)
        BY <1>8, <3>1, Zenon DEF AccountsInv, Covered
      <3>3. wallet'[b] = wallet[b] /\ taken' = taken
        BY <1>6, <1>8, <3>2
      <3>4. QED
        BY <1>6, <1>10, <1>11, <3>1, <3>2, <3>3
    <2>2. OverdraftNeedsOverlap'
      <3>1. ASSUME NEW b \in DOMAIN wallet' \ overlapped', NEW c \in Currency
            PROVE  wallet'[b][c] >= -taken'[b][c]
        <4>1. CASE b = a
          <5>1. wallet'[b][c] = 0
            BY <1>5, <1>6, <4>1
          <5>2. taken[b][c] \in Nat
            BY <1>2, <4>1, IdsOfAccounts DEF AccountsInv, TypeOK
          <5>3. QED
            BY <1>8, <5>1, <5>2
        <4>2. CASE b # a
          <5>1. b \in DOMAIN wallet \ overlapped /\ wallet'[b] = wallet[b]
            BY <1>6, <1>8, <4>2
          <5>2. wallet[b][c] >= -taken[b][c]
            BY <5>1 DEF AccountsInv, OverdraftNeedsOverlap
          <5>3. QED
            BY <1>8, <5>1, <5>2
        <4>3. QED
          BY <4>1, <4>2
      <3>2. QED
        BY <3>1 DEF OverdraftNeedsOverlap
    <2>3. QED
      BY <2>1, <2>2, Zenon DEF Covered
  <1>16. QED
    BY <1>11, <1>12, <1>13, <1>14, <1>15 DEF AccountsInv

\* A signup's allowance, a grant, a charge or a delivery: what a charge takes,
\* its check has found.
LEMMA AddToKeeps ==
  ASSUME AccountsInv, NEW t \in Threads, AddTo(t)
  PROVE  AccountsInv'
  <1>1. /\ todo[t] # << >> /\ Head(todo[t]) = todo[t][1] /\ todo[t][1].op = "add"
        /\ todo[t][1] \in Statement /\ todo[t][1].account \in Ids
    BY HeadFacts DEF AddTo
  <1>2. PICK a \in Ids : a = todo[t][1].account
    BY <1>1
  <1>3. PICK c \in Currency : c = todo[t][1].currency
    BY <1>1, StatementFields
  <1>4. PICK n \in Int : n = todo[t][1].n
    BY <1>1, StatementFields
  <1>12. PICK k \in Nat : k = todo[t][1].copies
    BY <1>1, StatementFields
  <1>5. UNCHANGED <<accounts, owned, progress, who, failed, overlapped, made,
                    credited, raced, pooled>>
    BY DEF AddTo, Continue
  <1>6. PICK s : /\ todo' = [todo EXCEPT ![t] = s]
                 /\ \/ s = << >>
                    \/ /\ s = Tail(todo[t])
                       /\ Sure(todo[t][1]) => a \in DOMAIN accounts
    <2>1. CASE a \in DOMAIN wallet
      BY <1>1, <1>2, <2>1, OwnersAndMade DEF AddTo, Continue
    <2>2. CASE a \notin DOMAIN wallet
      BY <1>1, <1>2, <2>2 DEF AddTo, Continue, Sure
    <2>3. QED
      BY <2>1, <2>2
  <1>7. /\ Plan(s, DOMAIN accounts)
        /\ \A b : ~HeadIs(s, "row", b) /\ ~HeadIs(s, "set", b) /\ ~ChargeIs(s, b)
        /\ \A i \in DOMAIN s : s[i].op = "answer" => s[i].account \in DOMAIN wallet
    BY <1>1, <1>2, <1>6, MovesOn
  <1>8. failed' \/ (~failed /\ \A b : ~HeadIs(todo[t], "row", b))
    BY <1>1, <1>5 DEF HeadIs
  <1>9. CASE a \notin DOMAIN wallet
    <2>1. wallet' = wallet /\ taken' = taken
      BY <1>1, <1>2, <1>9 DEF AddTo
    <2>2. QED
      BY <1>5, <1>6, <1>7, <1>8, <2>1, OwnersAndMade, QuietStep
  <1>10. CASE a \in DOMAIN wallet
    <2>1. wallet' = [wallet EXCEPT ![a][c] = wallet[a][c] + n]
      BY <1>1, <1>2, <1>3, <1>4, <1>10 DEF AddTo
    <2>2. \A b \in DOMAIN wallet : wallet[b] \in [Currency -> Int]
      BY DEF AccountsInv, TypeOK
    <2>3. wallet' = [b \in DOMAIN wallet |->
                       IF b = a THEN [wallet[a] EXCEPT ![c] = wallet[a][c] + n]
                                ELSE wallet[b]]
      BY <1>10, <2>1
    <2>4. /\ DOMAIN wallet' = DOMAIN wallet
          /\ \A b \in DOMAIN wallet : b # a => wallet'[b] = wallet[b]
          /\ wallet'[a] \in [Currency -> Int]
          /\ wallet'[a][c] = wallet[a][c] + n
          /\ \A d \in Currency : d # c => wallet'[a][d] = wallet[a][d]
      BY <1>10, <2>2, <2>3
    <2>15. taken \in [Ids -> [Currency -> Nat]]
      BY DEF AccountsInv, TypeOK
    <2>16. PICK f : f = IF n < 0 /\ k = 0 THEN taken[a][c] - n ELSE taken[a][c]
      OBVIOUS
    <2>17. taken' = [taken EXCEPT ![a] = [taken[a] EXCEPT ![c] = f]]
      BY <1>1, <1>2, <1>3, <1>4, <1>10, <1>12, <2>15, <2>16 DEF AddTo
    <2>18. f \in Nat /\ taken[a][c] \in Nat
      BY <2>15, <2>16
    <2>19. /\ taken' \in [Ids -> [Currency -> Nat]]
           /\ \A b \in Ids : b # a => taken'[b] = taken[b]
           /\ taken'[a][c] = f
           /\ \A d \in Currency : d # c => taken'[a][d] = taken[a][d]
      BY <2>15, <2>17, <2>18
    <2>20. ASSUME ~(n < 0 /\ k > 0), NEW d \in Currency
           PROVE  /\ wallet'[a][d] + taken'[a][d] >= wallet[a][d] + taken[a][d]
                  /\ wallet'[a][d] \in Int /\ taken'[a][d] \in Nat
                  /\ wallet[a][d] \in Int /\ taken[a][d] \in Nat
      <3>1. /\ wallet'[a][d] \in Int /\ taken'[a][d] \in Nat
            /\ wallet[a][d] \in Int /\ taken[a][d] \in Nat
        BY <1>10, <2>2, <2>4, <2>15, <2>19
      <3>2. CASE d # c
        BY <2>4, <2>19, <3>1, <3>2
      <3>3. CASE d = c
        BY <2>4, <2>16, <2>19, <2>20, <3>1, <3>3
      <3>4. QED
        BY <3>1, <3>2, <3>3
    <2>5. /\ Plans'
          /\ todo'[t] = s /\ \A u \in Threads \ {t} : todo'[u] = todo[u]
      BY <1>5, <1>6, <1>7, PlansStep
    <2>6. TypeOK'
      <3>1. \A b \in DOMAIN wallet' : wallet'[b] \in [Currency -> Int]
        BY <2>2, <2>4
      <3>2. DOMAIN wallet' \subseteq DOMAIN accounts'
        BY <1>5, <2>4, OwnersAndMade
      <3>3. QED
        BY <1>5, <2>19, <3>1, <3>2 DEF AccountsInv, TypeOK, Ids
    <2>7. Rows'
      <3>1. made' \subseteq DOMAIN wallet
        BY <1>5, OwnersAndMade
      <3>2. QED
        BY <1>5, <1>7, <1>8, <2>4, <2>5, <3>1, RowsQuiet
    <2>8. Credits'
      BY <1>5, <1>7, <2>5, CreditsQuiet
    <2>9. ASSUME NEW b \in DOMAIN accounts \ overlapped, NEW u \in Threads,
                 ChargeIs(todo[u], b)
          PROVE  /\ b \in DOMAIN wallet
                 /\ wallet[b][todo[u][1].currency] + todo[u][1].n
                      >= -taken[b][todo[u][1].currency]
                 /\ \A v \in Threads \ {u} : ~ChargeIs(todo[v], b)
      BY <2>9, Zenon DEF AccountsInv, Covered
    <2>10. n < 0 /\ k > 0 => ChargeIs(todo[t], a)
      BY <1>1, <1>2, <1>4, <1>12 DEF ChargeIs, IsCharge
    <2>21. a \in DOMAIN accounts
      BY <1>10, OwnersAndMade
    <2>11. ASSUME a \notin overlapped, NEW u \in Threads \ {t}, ChargeIs(todo[u], a)
           PROVE  ~(n < 0 /\ k > 0)
      BY <2>9, <2>10, <2>11, <2>21
    <2>12. Covered'
      <3>1. ASSUME NEW b \in DOMAIN accounts' \ overlapped', NEW u \in Threads,
                   ChargeIs(todo'[u], b)
            PROVE  /\ b \in DOMAIN wallet'
                   /\ wallet'[b][todo'[u][1].currency] + todo'[u][1].n
                        >= -taken'[b][todo'[u][1].currency]
                   /\ \A v \in Threads \ {u} : ~ChargeIs(todo'[v], b)
        <4>1. u # t /\ todo'[u] = todo[u] /\ ChargeIs(todo[u], b)
          BY <1>7, <2>5, <3>1
        <4>2. b \in DOMAIN accounts \ overlapped
          BY <1>5
        <4>3. /\ b \in DOMAIN wallet
              /\ wallet[b][todo[u][1].currency] + todo[u][1].n
                   >= -taken[b][todo[u][1].currency]
              /\ \A v \in Threads \ {u} : ~ChargeIs(todo[v], b)
          BY <2>9, <4>1, <4>2
        <4>4. /\ b \in DOMAIN wallet'
              /\ \A v \in Threads \ {u} : ~ChargeIs(todo'[v], b)
          BY <1>7, <2>4, <2>5, <4>3
        <4>5. wallet'[b][todo'[u][1].currency] + todo'[u][1].n
                >= -taken'[b][todo'[u][1].currency]
          <5>1. CASE b # a
            <6>1. b \in Ids
              BY <4>2, IdsOfAccounts DEF AccountsInv
            <6>2. wallet'[b] = wallet[b] /\ taken'[b] = taken[b]
              BY <2>4, <2>19, <4>3, <5>1, <6>1
            <6>3. QED
              BY <4>1, <4>3, <6>2
          <5>2. CASE b = a
            <6>1. ~(n < 0 /\ k > 0)
              BY <2>11, <4>1, <4>2, <5>2
            <6>2. PICK x \in Statement : x = todo[u][1] /\ x.op = "add"
              <7>1. Doing(u, "add")
                <8>1. todo[u] # << >> /\ todo[u][1].op = "add" /\ todo[u] \in Seq(Statement)
                  BY <4>1 DEF ChargeIs, IsCharge, AccountsInv, Plans
                <8>2. QED
                  BY <8>1 DEF Doing
              <7>2. QED
                BY <7>1, HeadFacts
            <6>3. x.currency \in Currency /\ x.n \in Int
              BY <6>2, StatementFields
            <6>4. PICK d \in Currency, m \in Int : d = x.currency /\ m = x.n
              BY <6>3
            <6>5. wallet[a][d] + m >= -taken[a][d]
              BY <4>3, <5>2, <6>2, <6>4
            <6>6. wallet'[a][d] + m >= -taken'[a][d]
              BY <2>20, <6>1, <6>5
            <6>7. todo'[u][1].currency = d /\ todo'[u][1].n = m
              BY <4>1, <6>2, <6>4
            <6>8. QED
              BY <5>2, <6>6, <6>7
          <5>3. QED
            BY <5>1, <5>2
        <4>6. QED
          BY <4>4, <4>5
      <3>2. QED
        BY <3>1, Zenon DEF Covered
    <2>13. OverdraftNeedsOverlap'
      <3>1. ASSUME NEW b \in DOMAIN wallet' \ overlapped', NEW d \in Currency
            PROVE  wallet'[b][d] >= -taken'[b][d]
        <4>1. b \in DOMAIN wallet \ overlapped /\ b \in DOMAIN accounts \ overlapped
          BY <1>5, <2>4, OwnersAndMade
        <4>2. wallet[b][d] >= -taken[b][d] /\ wallet[b][d] \in Int /\ b \in Ids
          BY <2>2, <4>1, IdsOfAccounts DEF AccountsInv, OverdraftNeedsOverlap
        <4>3. CASE b # a
          BY <2>4, <2>19, <4>1, <4>2, <4>3
        <4>4. CASE b = a /\ ~(n < 0 /\ k > 0)
          BY <2>20, <4>2, <4>4
        <4>5. CASE b = a /\ n < 0 /\ k > 0
          <5>1. wallet[a][c] + n >= -taken[a][c]
            BY <1>3, <1>4, <2>9, <2>10, <4>1, <4>5
          <5>2. f = taken[a][c]
            BY <2>16, <4>5
          <5>3. CASE d = c
            BY <2>4, <2>19, <4>5, <5>1, <5>2, <5>3
          <5>4. CASE d # c
            BY <2>4, <2>19, <4>2, <4>5, <5>4
          <5>5. QED
            BY <5>3, <5>4
        <4>6. QED
          BY <4>3, <4>4, <4>5
      <3>2. QED
        BY <3>1 DEF OverdraftNeedsOverlap
    <2>14. QED
      BY <2>5, <2>6, <2>7, <2>8, <2>12, <2>13 DEF AccountsInv
  <1>11. QED
    BY <1>9, <1>10

\* A check that passes: the charge after it is covered, and if there is another
\* under way, the account is one of those with an overlap.
LEMMA CheckBalanceKeeps ==
  ASSUME AccountsInv, NEW t \in Threads, CheckBalance(t)
  PROVE  AccountsInv'
  <1>1. /\ todo[t] # << >> /\ Head(todo[t]) = todo[t][1] /\ todo[t][1].op = "check"
        /\ todo[t][1] \in Statement /\ todo[t][1].account \in DOMAIN accounts
    BY HeadFacts DEF CheckBalance
  <1>2. PICK a \in DOMAIN accounts : a = todo[t][1].account
    BY <1>1
  <1>3. PICK c \in Currency : c = todo[t][1].currency
    BY <1>1, StatementFields
  <1>4. PICK n \in Nat : n = todo[t][1].n
    BY <1>1, StatementFields
  <1>5. UNCHANGED <<accounts, wallet, owned, progress, who, failed, taken, made,
                    credited, raced, pooled>>
    BY DEF CheckBalance, tables, Continue
  <1>6. failed' \/ (~failed /\ \A b : ~HeadIs(todo[t], "row", b))
    BY <1>1, <1>5 DEF HeadIs
  <1>7. CASE ~(a \in DOMAIN wallet /\ wallet[a][c] >= n)
    <2>1. PICK s : s = << >> /\ todo' = [todo EXCEPT ![t] = s]
      BY <1>1, <1>2, <1>3, <1>4, <1>7 DEF CheckBalance, Continue
    <2>2. overlapped' = overlapped
      BY <1>1, <1>2, <1>3, <1>4, <1>7 DEF CheckBalance
    <2>3. /\ Plan(s, DOMAIN accounts)
          /\ \A b : ~HeadIs(s, "row", b) /\ ~HeadIs(s, "set", b) /\ ~ChargeIs(s, b)
          /\ \A i \in DOMAIN s : s[i].op = "answer" => s[i].account \in DOMAIN wallet
      BY <1>1, <2>1, MovesOn DEF Sure
    <2>4. QED
      BY <1>5, <1>6, <2>1, <2>2, <2>3, OwnersAndMade, QuietStep
  <1>8. CASE a \in DOMAIN wallet /\ wallet[a][c] >= n
    <2>1. PICK s : s = Tail(todo[t]) /\ todo' = [todo EXCEPT ![t] = s]
      BY <1>1, <1>2, <1>3, <1>4, <1>8 DEF CheckBalance, Continue
    <2>2. overlapped' = IF \E u \in Threads : Charging(u, a)
                        THEN overlapped \cup {a} ELSE overlapped
      BY <1>1, <1>2, <1>3, <1>4, <1>8 DEF CheckBalance
    <2>3. ASSUME NEW u \in Threads, ChargeIs(todo[u], a)
          PROVE  Charging(u, a)
      <3>1. /\ todo[u] # << >> /\ todo[u][1].op = "add" /\ todo[u][1].n < 0
            /\ todo[u][1].copies > 0
            /\ todo[u][1].account = a /\ todo[u] \in Seq(Statement)
        BY <2>3 DEF ChargeIs, IsCharge, AccountsInv, Plans
      <3>2. QED
        BY <3>1 DEF Charging
    <2>4. /\ overlapped' \subseteq overlapped \cup {a}
          /\ overlapped \subseteq overlapped'
          /\ a \notin overlapped' => \A u \in Threads : ~ChargeIs(todo[u], a)
      BY <2>2, <2>3
    <2>5. /\ Plan(s, DOMAIN accounts)
          /\ \A b : ~HeadIs(s, "row", b) /\ ~HeadIs(s, "set", b)
          /\ \A i \in DOMAIN s : s[i].op = "answer" => s[i].account \in DOMAIN wallet
      BY <1>1, <2>1, MovesOn DEF Sure
    <2>6. \A b : ChargeIs(s, b) => CheckOf(todo[t][1], s[1])
      BY <1>1, <2>1, Onward DEF Sure
    <2>7. /\ Plans'
          /\ todo'[t] = s /\ \A u \in Threads \ {t} : todo'[u] = todo[u]
      BY <1>5, <2>1, <2>5, PlansStep
    <2>8. TypeOK'
      <3>1. overlapped' \cup made' \subseteq DOMAIN accounts'
        BY <1>5, <2>4 DEF AccountsInv, TypeOK
      <3>2. QED
        BY <1>5, <3>1 DEF AccountsInv, TypeOK
    <2>9. Rows'
      <3>1. made' \subseteq DOMAIN wallet
        BY <1>5, OwnersAndMade
      <3>2. QED
        BY <1>5, <1>6, <2>5, <2>7, <3>1, RowsQuiet
    <2>10. Credits'
      BY <1>5, <2>5, <2>7, CreditsQuiet
    <2>11. Covered'
      <3>1. ASSUME NEW b \in DOMAIN accounts' \ overlapped', NEW u \in Threads,
                   ChargeIs(todo'[u], b)
            PROVE  /\ b \in DOMAIN wallet'
                   /\ wallet'[b][todo'[u][1].currency] + todo'[u][1].n
                        >= -taken'[b][todo'[u][1].currency]
                   /\ \A v \in Threads \ {u} : ~ChargeIs(todo'[v], b)
        <4>1. b \in DOMAIN accounts \ overlapped
          BY <1>5, <2>4
        <4>2. CASE u = t
          <5>1. ChargeIs(s, b)
            BY <2>7, <3>1, <4>2
          <5>2. CheckOf(todo[t][1], s[1]) /\ s[1].account = b /\ s # << >>
            BY <2>6, <5>1 DEF ChargeIs
          <5>3. b = a /\ s[1].currency = c /\ n = -s[1].n
            BY <1>2, <1>3, <1>4, <5>2 DEF CheckOf
          <5>4. s[1] \in Statement /\ s[1].op = "add"
            <6>1. s \in Seq(Statement)
              BY <2>5 DEF Plan
            <6>2. s[1].op = "add"
              BY <5>1 DEF ChargeIs, IsCharge
            <6>3. QED
              BY <5>2, <6>1, <6>2
          <5>5. s[1].n \in Int
            BY <5>4, StatementFields
          <5>6. wallet[a][c] \in Int /\ taken[a][c] \in Nat
            <6>1. a \in Ids
              BY IdsOfAccounts DEF AccountsInv
            <6>2. QED
              BY <1>8, <6>1 DEF AccountsInv, TypeOK
          <5>7. wallet[a][c] + s[1].n >= -taken[a][c]
            BY <1>8, <5>3, <5>5, <5>6
          <5>8. \A v \in Threads \ {u} : ~ChargeIs(todo'[v], b)
            BY <2>4, <2>7, <4>2, <5>3
          <5>9. QED
            BY <1>5, <1>8, <2>7, <4>2, <5>3, <5>7, <5>8
        <4>3. CASE u # t
          <5>1. todo'[u] = todo[u] /\ ChargeIs(todo[u], b)
            BY <2>7, <3>1, <4>3
          <5>2. /\ b \in DOMAIN wallet
                /\ wallet[b][todo[u][1].currency] + todo[u][1].n
                     >= -taken[b][todo[u][1].currency]
                /\ \A v \in Threads \ {u} : ~ChargeIs(todo[v], b)
            BY <4>1, <5>1, Zenon DEF AccountsInv, Covered
          <5>3. b # a
            BY <2>4, <5>1
          <5>4. ~ChargeIs(s, b)
            <6>1. ChargeIs(s, b) => s[1].account = todo[t][1].account /\ s[1].account = b
              BY <2>6 DEF ChargeIs, CheckOf
            <6>2. QED
              BY <1>2, <5>3, <6>1
          <5>5. QED
            BY <1>5, <2>7, <5>1, <5>2, <5>4
        <4>4. QED
          BY <4>2, <4>3
      <3>2. QED
        BY <3>1, Zenon DEF Covered
    <2>12. OverdraftNeedsOverlap'
      BY <1>5, <2>4 DEF AccountsInv, OverdraftNeedsOverlap
    <2>13. QED
      BY <2>7, <2>8, <2>9, <2>10, <2>11, <2>12 DEF AccountsInv
  <1>9. QED
    BY <1>7, <1>8

\* What is read is written by the next statement, plus one.
LEMMA ReadProgressKeeps ==
  ASSUME AccountsInv, NEW t \in Threads, ReadProgress(t)
  PROVE  AccountsInv'
  <1>1. /\ todo[t] # << >> /\ Head(todo[t]) = todo[t][1] /\ todo[t][1].op = "read"
        /\ todo[t][1].account \in Ids
    BY HeadFacts DEF ReadProgress
  <1>2. PICK a \in Ids : a = todo[t][1].account
    BY <1>1
  <1>3. a \in Ids /\ a \in Nat
    BY IdsAreNat
  <1>4. PICK n \in Nat : n = progress[a] + 1
    BY <1>3 DEF AccountsInv, TypeOK
  <1>5. PICK x : x = [op |-> "set", account |-> a, n |-> n, must |-> TRUE]
    OBVIOUS
  <1>6. /\ x \in Statement /\ x.op = "set" /\ x.account = a /\ x.n = n
    <2>1. x \in SetStatement
      BY <1>3, <1>5 DEF SetStatement
    <2>2. x \in Statement
      BY <2>1, Zenon DEF Statement
    <2>3. QED
      BY <1>5, <2>2
  <1>7. PICK s : s = <<x>>
    OBVIOUS
  <1>8. todo' = [todo EXCEPT ![t] = s]
    BY <1>1, <1>2, <1>4, <1>5, <1>7 DEF ReadProgress, Continue
  <1>9. /\ UNCHANGED <<accounts, wallet, owned, progress, who, failed, overlapped,
                       taken, made, credited, pooled>>
        /\ raced' = IF \E u \in Threads :
                         Doing(u, "set") /\ Head(todo[u]).account = a
                    THEN raced \cup {a} ELSE raced
    BY <1>1, <1>2 DEF ReadProgress, tables, Continue
  <1>10. /\ s \in Seq(Statement) /\ s # << >> /\ DOMAIN s = {1} /\ Len(s) = 1
         /\ s[1] = x
    BY <1>6, <1>7
  <1>11. Plan(s, DOMAIN accounts)
    BY <1>2, <1>6, <1>10 DEF Plan, Known, IsCharge
  <1>12. /\ HeadIs(s, "set", a) /\ \A b : HeadIs(s, "set", b) => b = a
         /\ \A b : ~HeadIs(s, "row", b) /\ ~ChargeIs(s, b)
         /\ \A i \in DOMAIN s : s[i].op # "answer"
    BY <1>6, <1>10 DEF HeadIs, ChargeIs, IsCharge
  <1>13. /\ Plans'
         /\ todo'[t] = s /\ \A u \in Threads \ {t} : todo'[u] = todo[u]
    BY <1>8, <1>9, <1>11, PlansStep
  <1>14. ASSUME NEW u \in Threads, HeadIs(todo[u], "set", a)
         PROVE  Doing(u, "set") /\ Head(todo[u]).account = a
    <2>1. /\ todo[u] # << >> /\ todo[u][1].op = "set" /\ todo[u][1].account = a
          /\ todo[u] \in Seq(Statement)
      BY <1>14 DEF HeadIs, AccountsInv, Plans
    <2>2. QED
      BY <2>1 DEF Doing
  <1>15. /\ raced' \subseteq raced \cup {a} /\ raced \subseteq raced'
         /\ a \notin raced' => \A u \in Threads : ~HeadIs(todo[u], "set", a)
    BY <1>9, <1>14
  <1>16. TypeOK'
    <2>1. raced' \subseteq Ids
      BY <1>9, <1>15 DEF AccountsInv, TypeOK
    <2>2. QED
      BY <1>9, <2>1 DEF AccountsInv, TypeOK
  <1>17. Rows'
    <2>1. failed' \/ (~failed /\ \A b : ~HeadIs(todo[t], "row", b))
      BY <1>1, <1>9 DEF HeadIs
    <2>2. made' \subseteq DOMAIN wallet
      BY <1>9, OwnersAndMade
    <2>3. QED
      BY <1>9, <1>12, <1>13, <2>1, <2>2, RowsQuiet
  <1>18. Credits'
    <2>1. ASSUME NEW b \in Ids \ raced', NEW u \in Threads, HeadIs(todo'[u], "set", b)
          PROVE  /\ todo'[u][1].n = progress'[b] + 1
                 /\ \A v \in Threads \ {u} : ~HeadIs(todo'[v], "set", b)
      <3>1. CASE u = t
        <4>1. b = a /\ todo'[u][1].n = n
          BY <1>6, <1>10, <1>12, <1>13, <2>1, <3>1
        <4>2. \A v \in Threads \ {u} : ~HeadIs(todo'[v], "set", b)
          BY <1>13, <1>15, <3>1, <4>1
        <4>3. QED
          BY <1>4, <1>9, <4>1, <4>2
      <3>2. CASE u # t
        <4>1. todo'[u] = todo[u] /\ HeadIs(todo[u], "set", b)
          BY <1>13, <2>1, <3>2
        <4>2. /\ todo[u][1].n = progress[b] + 1
              /\ \A v \in Threads \ {u} : ~HeadIs(todo[v], "set", b)
          BY <1>15, <4>1, Zenon DEF AccountsInv, Credits
        <4>3. b # a
          BY <1>15, <4>1
        <4>4. QED
          BY <1>9, <1>12, <1>13, <4>1, <4>2, <4>3
      <3>3. QED
        BY <3>1, <3>2
    <2>2. \A b \in Ids \ raced' : progress'[b] = credited'[b]
      BY <1>9, <1>15 DEF AccountsInv, Credits
    <2>3. credited' \in [Ids -> Nat]
      BY <1>9 DEF AccountsInv, Credits
    <2>4. QED
      BY <2>1, <2>2, <2>3, Zenon DEF Credits
  <1>19. Covered' /\ OverdraftNeedsOverlap'
    BY <1>9, <1>12, <1>13, CoveredQuiet
  <1>20. QED
    BY <1>13, <1>16, <1>17, <1>18, <1>19 DEF AccountsInv

LEMMA SetProgressKeeps ==
  ASSUME AccountsInv, NEW t \in Threads, SetProgress(t)
  PROVE  AccountsInv'
  <1>1. /\ todo[t] # << >> /\ Head(todo[t]) = todo[t][1] /\ todo[t][1].op = "set"
        /\ todo[t][1] \in Statement /\ todo[t][1].account \in Ids
    BY HeadFacts DEF SetProgress
  <1>2. PICK a \in Ids : a = todo[t][1].account
    BY <1>1
  <1>3. a \in Ids
    OBVIOUS
  <1>4. PICK n \in Nat : n = todo[t][1].n
    BY <1>1, StatementFields
  <1>5. PICK s : s = Tail(todo[t]) /\ todo' = [todo EXCEPT ![t] = s]
    BY DEF SetProgress, Continue
  <1>6. /\ UNCHANGED <<accounts, wallet, owned, who, failed, overlapped, taken,
                       made, raced, pooled>>
        /\ progress' = [progress EXCEPT ![a] = n]
        /\ credited' = [credited EXCEPT ![a] = credited[a] + 1]
    BY <1>1, <1>2, <1>4 DEF SetProgress, Continue
  <1>7. /\ progress' \in [Ids -> Nat] /\ progress'[a] = n
        /\ \A b \in Ids \ {a} : progress'[b] = progress[b]
    BY <1>3, <1>6 DEF AccountsInv, TypeOK
  <1>8. /\ credited' \in [Ids -> Nat] /\ credited'[a] = credited[a] + 1
        /\ \A b \in Ids \ {a} : credited'[b] = credited[b]
    BY <1>3, <1>6 DEF AccountsInv, Credits
  <1>9. /\ Plan(s, DOMAIN accounts)
        /\ \A b : ~HeadIs(s, "row", b) /\ ~HeadIs(s, "set", b) /\ ~ChargeIs(s, b)
        /\ \A i \in DOMAIN s : s[i].op = "answer" => s[i].account \in DOMAIN wallet
    BY <1>1, <1>5, MovesOn DEF Sure
  <1>10. /\ Plans'
         /\ todo'[t] = s /\ \A u \in Threads \ {t} : todo'[u] = todo[u]
    BY <1>5, <1>6, <1>9, PlansStep
  <1>11. TypeOK'
    BY <1>6, <1>7 DEF AccountsInv, TypeOK
  <1>12. Rows'
    <2>1. failed' \/ (~failed /\ \A b : ~HeadIs(todo[t], "row", b))
      BY <1>1, <1>6 DEF HeadIs
    <2>2. made' \subseteq DOMAIN wallet
      BY <1>6, OwnersAndMade
    <2>3. QED
      BY <1>6, <1>9, <1>10, <2>1, <2>2, RowsQuiet
  <1>13. HeadIs(todo[t], "set", a)
    BY <1>1, <1>2 DEF HeadIs
  <1>14. Credits'
    <2>1. ASSUME a \notin raced
          PROVE  /\ progress[a] = credited[a] /\ n = progress[a] + 1
                 /\ \A u \in Threads \ {t} : ~HeadIs(todo[u], "set", a)
      <3>1. /\ progress[a] = credited[a] /\ todo[t][1].n = progress[a] + 1
            /\ \A u \in Threads \ {t} : ~HeadIs(todo[u], "set", a)
        BY <1>3, <1>13, <2>1, Zenon DEF AccountsInv, Credits
      <3>2. QED
        BY <1>4, <3>1
    <2>2. ASSUME NEW b \in Ids \ raced', NEW u \in Threads, HeadIs(todo'[u], "set", b)
          PROVE  /\ todo'[u][1].n = progress'[b] + 1
                 /\ \A v \in Threads \ {u} : ~HeadIs(todo'[v], "set", b)
      <3>1. u # t /\ todo'[u] = todo[u] /\ HeadIs(todo[u], "set", b)
        BY <1>9, <1>10, <2>2
      <3>2. /\ todo[u][1].n = progress[b] + 1
            /\ \A v \in Threads \ {u} : ~HeadIs(todo[v], "set", b)
        BY <1>6, <3>1, Zenon DEF AccountsInv, Credits
      <3>3. b # a
        BY <1>13, <3>1, <3>2
      <3>4. QED
        BY <1>7, <1>9, <1>10, <3>1, <3>2, <3>3
    <2>3. ASSUME NEW b \in Ids \ raced'
          PROVE  progress'[b] = credited'[b]
      <3>1. CASE b = a
        BY <1>6, <1>7, <1>8, <2>1, <3>1
      <3>2. CASE b # a
        <4>1. progress[b] = credited[b]
          BY <1>6 DEF AccountsInv, Credits
        <4>2. QED
          BY <1>7, <1>8, <3>2, <4>1
      <3>3. QED
        BY <3>1, <3>2
    <2>4. QED
      BY <1>8, <2>2, <2>3, Zenon DEF Credits
  <1>15. Covered' /\ OverdraftNeedsOverlap'
    BY <1>6, <1>9, <1>10, CoveredQuiet
  <1>16. QED
    BY <1>10, <1>11, <1>12, <1>14, <1>15 DEF AccountsInv

\* The credit of an account that does not exist may be refused.
LEMMA RefuseProgressKeeps ==
  ASSUME AccountsInv, NEW t \in Threads, RefuseProgress(t)
  PROVE  AccountsInv'
  <1>1. todo[t] # << >> /\ todo[t][1].op = "set"
    BY HeadFacts DEF RefuseProgress
  <1>2. PICK s : s = << >> /\ todo' = [todo EXCEPT ![t] = s]
    BY DEF RefuseProgress, Continue
  <1>3. UNCHANGED <<accounts, wallet, owned, progress, who, failed, overlapped,
                    taken, made, credited, raced, pooled>>
    BY DEF RefuseProgress, tables, history, Continue
  <1>4. /\ Plan(s, DOMAIN accounts)
        /\ \A a : ~HeadIs(s, "row", a) /\ ~HeadIs(s, "set", a) /\ ~ChargeIs(s, a)
        /\ \A i \in DOMAIN s : s[i].op = "answer" => s[i].account \in DOMAIN wallet
    BY <1>1, <1>2, MovesOn
  <1>5. failed' \/ (~failed /\ \A a : ~HeadIs(todo[t], "row", a))
    BY <1>1, <1>3 DEF HeadIs
  <1>6. QED
    BY <1>2, <1>3, <1>4, <1>5, OwnersAndMade, QuietStep

\* After a restart nobody is at work, and the tables are what they were.
LEMMA CrashKeeps ==
  ASSUME AccountsInv, Crash
  PROVE  AccountsInv'
  <1>1. /\ todo' = [t \in Threads |-> << >>] /\ who' = [t \in Threads |-> 0]
        /\ failed' = TRUE /\ pooled' = FALSE
        /\ UNCHANGED <<accounts, wallet, owned, progress, overlapped, taken, made,
                       credited, raced>>
    BY DEF Crash, tables
  <1>2. \A t \in Threads : todo'[t] = << >>
    BY <1>1
  <1>3. TypeOK'
    BY <1>1 DEF AccountsInv, TypeOK
  <1>4. Plans'
    <2>1. Plan(<< >>, DOMAIN accounts')
      BY EmptyPlan
    <2>2. QED
      BY <1>1, <2>1 DEF Plans
  <1>5. Rows'
    <2>1. made' \subseteq DOMAIN wallet'
      BY <1>1, OwnersAndMade
    <2>2. QED
      BY <1>1, <1>2, <2>1 DEF Rows, HeadIs
  <1>6. Credits'
    BY <1>1, <1>2 DEF AccountsInv, Credits, HeadIs
  <1>7. Covered' /\ OverdraftNeedsOverlap'
    BY <1>1, <1>2 DEF AccountsInv, Covered, OverdraftNeedsOverlap, ChargeIs
  <1>8. QED
    BY <1>3, <1>4, <1>5, <1>6, <1>7 DEF AccountsInv

LEMMA NextAccounts == AccountsInv /\ [Next]_vars => AccountsInv'
  <1> SUFFICES ASSUME AccountsInv, [Next]_vars PROVE AccountsInv'
    OBVIOUS
  <1>1. ASSUME NEW t \in Threads, Request(t) PROVE AccountsInv'
    BY <1>1, RequestKeeps
  <1>2. ASSUME NEW t \in Threads, Lookup(t) PROVE AccountsInv'
    BY <1>2, LookupKeeps
  <1>3. ASSUME NEW t \in Threads, LoginAs(t) PROVE AccountsInv'
    BY <1>3, LoginKeeps
  <1>4. ASSUME NEW t \in Threads, InsertAccount(t) PROVE AccountsInv'
    BY <1>4, InsertAccountKeeps
  <1>5. ASSUME NEW t \in Threads, InsertRow(t) PROVE AccountsInv'
    BY <1>5, InsertRowKeeps
  <1>6. ASSUME NEW t \in Threads, Answer(t) PROVE AccountsInv'
    BY <1>6, AnswerKeeps
  <1>7. ASSUME NEW t \in Threads, AddTo(t) PROVE AccountsInv'
    BY <1>7, AddToKeeps
  <1>8. ASSUME NEW t \in Threads, CheckBalance(t) PROVE AccountsInv'
    BY <1>8, CheckBalanceKeeps
  <1>9. ASSUME NEW t \in Threads, AddCharacter(t) PROVE AccountsInv'
    BY <1>9, AddCharacterKeeps
  <1>10. ASSUME NEW t \in Threads, ReadProgress(t) PROVE AccountsInv'
    BY <1>10, ReadProgressKeeps
  <1>11. ASSUME NEW t \in Threads, SetProgress(t) PROVE AccountsInv'
    BY <1>11, SetProgressKeeps
  <1>16. ASSUME NEW t \in Threads, RefuseProgress(t) PROVE AccountsInv'
    BY <1>16, RefuseProgressKeeps
  <1>12. ASSUME NEW t \in Threads, Fail(t) PROVE AccountsInv'
    BY <1>12, FailKeeps
  <1>13. ASSUME Crash PROVE AccountsInv'
    BY <1>13, CrashKeeps
  <1>14. CASE UNCHANGED vars
    <2>1. UNCHANGED <<accounts, wallet, owned, progress, todo, who, failed,
                      overlapped, taken, made, credited, raced, pooled>>
      BY <1>14 DEF vars, tables, history
    <2>2. TypeOK'
      BY <2>1 DEF AccountsInv, TypeOK
    <2>3. Plans' /\ Rows' /\ Credits'
      BY <2>1 DEF AccountsInv, Plans, Rows, Credits
    <2>4. Covered' /\ OverdraftNeedsOverlap'
      BY <2>1 DEF AccountsInv, Covered, OverdraftNeedsOverlap
    <2>5. QED
      BY <2>2, <2>3, <2>4 DEF AccountsInv
  <1>15. QED
    BY <1>1, <1>2, <1>3, <1>4, <1>5, <1>6, <1>7, <1>8, <1>9, <1>10, <1>11, <1>12,
       <1>13, <1>14, <1>16, Zenon DEF Next

LEMMA AccountsAlways == Spec => []AccountsInv
  BY InitAccounts, NextAccounts, PTL DEF Spec

-----------------------------------------------------------------------------
(* What an operation owes. *)

\* A statement that charges account b for something, or delivers it.
IsFor(x, b) == x.op \in {"add", "own"} /\ x.account = b

\* What a statement adds to what its operation owes to b.
Owes(x, b) ==
  IF ~IsFor(x, b) THEN 0
  ELSE IF x.op = "add" /\ x.n < 0 THEN x.copies ELSE 0 - x.copies

\* p is what an operation with the statements s left owes to b before each of
\* them and in the end: never less than nothing, and nothing while it may still
\* be refused.
Balances(s, b, p) ==
  /\ p \in [1 .. Len(s) + 1 -> Nat]
  /\ \A i \in 1 .. Len(s) :
       /\ p[i + 1] = p[i] + Owes(s[i], b)
       /\ ~IsFor(s[i], b) => p[i] = 0
       /\ ~s[i].must => Owes(s[i], b) = 0

\* An operation with the statements s left owes o to b: it will deliver that,
\* and b has the wallet it was charged from.
Paid(s, b, o, lost, rows) ==
  /\ \E p : /\ Balances(s, b, p)
            /\ p[1] = o
            /\ lost \/ p[Len(s) + 1] = 0
  /\ o # 0 => b \in rows

AllPaid ==
  /\ owed \in [Threads -> [Ids -> Nat]]
  /\ \A t \in Threads, b \in Ids : Paid(todo[t], b, owed[t][b], failed, DOMAIN wallet)

LEMMA OwesType ==
  ASSUME NEW x \in Statement, NEW b
  PROVE  /\ Owes(x, b) \in Int
         /\ x.op \in {"add", "own"} => x.copies \in Nat
<1>1. x.op \in {"add", "own"} => x.copies \in Nat
  BY DEF Statement, NameStatement, LoginStatement, CheckStatement, AddStatement,
         OwnStatement, RowStatement, AnswerStatement, ReadStatement, SetStatement
<1> QED
  BY <1>1 DEF Owes, IsFor

\* An operation that is over, or never had anything to deliver.
LEMMA PaidOver ==
  ASSUME NEW b, NEW o \in Nat, NEW lost, NEW rows, lost \/ o = 0, o # 0 => b \in rows
  PROVE  Paid(<< >>, b, o, lost, rows)
<1> DEFINE p == [i \in 1 .. 1 |-> o]
<1>1. Len(<< >>) = 0 /\ 1 .. 0 = {} /\ 0 + 1 = 1
  OBVIOUS
<1>2. p \in [1 .. 0 + 1 -> Nat] /\ p[1] = o /\ p[0 + 1] = o
  BY <1>1
<1> HIDE DEF p
<1> QED
  BY <1>1, <1>2 DEF Paid, Balances

LEMMA PaidEven ==
  ASSUME NEW s \in Seq(Statement), NEW b, NEW lost, NEW rows,
         \A i \in 1 .. Len(s) : Owes(s[i], b) = 0
  PROVE  Paid(s, b, 0, lost, rows)
<1> DEFINE n == Len(s)
           p == [i \in 1 .. n + 1 |-> 0]
<1>1. n \in Nat
  OBVIOUS
<1> HIDE DEF n
<1>2. /\ \A i \in 1 .. n : i \in 1 .. n + 1 /\ i + 1 \in 1 .. n + 1
      /\ 1 \in 1 .. n + 1 /\ n + 1 \in 1 .. n + 1
  BY <1>1
<1>3. /\ p \in [1 .. n + 1 -> Nat] /\ p[1] = 0 /\ p[n + 1] = 0
      /\ \A i \in 1 .. n : p[i] = 0 /\ p[i + 1] = 0
  BY <1>2
<1> HIDE DEF p
<1>4. Balances(s, b, p)
  BY <1>3 DEF Balances, n
<1> QED
  BY <1>3, <1>4 DEF Paid, n

LEMMA PaidWeaker ==
  ASSUME NEW s, NEW b, NEW o, NEW lost, NEW rows, Paid(s, b, o, lost, rows),
         NEW lost2, NEW rows2, lost => lost2, rows \subseteq rows2
  PROVE  Paid(s, b, o, lost2, rows2)
BY DEF Paid

\* The next statement done.
LEMMA PaidTail ==
  ASSUME NEW s \in Seq(Statement), s # << >>, NEW b, NEW o, NEW lost, NEW rows,
         Paid(s, b, o, lost, rows), NEW rows2, rows \subseteq rows2,
         Owes(s[1], b) > 0 => b \in rows2
  PROVE  /\ o + Owes(s[1], b) \in Nat
         /\ Paid(Tail(s), b, o + Owes(s[1], b), lost, rows2)
<1> DEFINE n == Len(s)
           r == Tail(s)
<1>1. /\ n \in Nat \ {0} /\ r \in Seq(Statement) /\ Len(r) = n - 1
      /\ \A i \in 1 .. n - 1 : r[i] = s[i + 1]
      /\ s[1] \in Statement
  BY HeadTailProperties
<1>2. PICK p : /\ p \in [1 .. n + 1 -> Nat]
               /\ \A i \in 1 .. n :
                    /\ p[i + 1] = p[i] + Owes(s[i], b)
                    /\ ~IsFor(s[i], b) => p[i] = 0
                    /\ ~s[i].must => Owes(s[i], b) = 0
               /\ p[1] = o
               /\ lost \/ p[n + 1] = 0
  BY DEF Paid, Balances
<1>3. o # 0 => b \in rows2
  BY DEF Paid
<1> HIDE DEF n, r
<1>4. PICK q : q = [i \in 1 .. n |-> p[i + 1]]
  OBVIOUS
<1>5. /\ \A i \in 1 .. n - 1 : i \in 1 .. n /\ i + 1 \in 1 .. n /\ (i + 1) + 1 = i + 2
      /\ 1 \in 1 .. n /\ n \in 1 .. n /\ (n - 1) + 1 = n
      /\ \A i \in 1 .. n : i + 1 \in 1 .. n + 1 /\ i \in 1 .. n + 1
  BY <1>1
<1>6. /\ q \in [1 .. n -> Nat]
      /\ \A i \in 1 .. n : q[i] = p[i + 1]
  BY <1>2, <1>4, <1>5
<1>7. q[1] = o + Owes(s[1], b) /\ q[1] \in Nat
  <2>1. q[1] = p[1 + 1] /\ p[1 + 1] = p[1] + Owes(s[1], b)
    BY <1>2, <1>5, <1>6
  <2> QED
    BY <1>2, <1>5, <1>6, <2>1
<1>8. lost \/ q[n] = 0
  BY <1>2, <1>5, <1>6
<1>9. ASSUME NEW i \in 1 .. n - 1
      PROVE  /\ q[i + 1] = q[i] + Owes(r[i], b)
             /\ ~IsFor(r[i], b) => q[i] = 0
             /\ ~r[i].must => Owes(r[i], b) = 0
  <2>1. PICK k \in 1 .. n : k = i + 1
    BY <1>5
  <2>2. r[i] = s[k] /\ q[i] = p[k] /\ q[k] = p[k + 1]
    BY <1>1, <1>5, <1>6, <2>1
  <2>3. /\ p[k + 1] = p[k] + Owes(s[k], b)
        /\ ~IsFor(s[k], b) => p[k] = 0
        /\ ~s[k].must => Owes(s[k], b) = 0
    BY <1>2
  <2> QED
    BY <2>1, <2>2, <2>3
<1>10. Balances(r, b, q)
  BY <1>1, <1>5, <1>6, <1>9 DEF Balances
<1>11. q[1] # 0 => b \in rows2
  <2>1. CASE o = 0
    <3>1. Owes(s[1], b) \in Int
      BY <1>1, OwesType
    <3> QED
      BY <1>7, <2>1, <3>1
  <2> QED
    BY <1>3, <2>1
<1>12. Paid(r, b, q[1], lost, rows2)
  BY <1>1, <1>5, <1>8, <1>10, <1>11 DEF Paid
<1> QED
  BY <1>7, <1>12 DEF r

LEMMA PaidStep ==
  ASSUME AllPaid, NEW t \in Threads, NEW s, NEW o \in [Ids -> Nat],
         todo \in [Threads -> Seq(Statement)],
         todo' = [todo EXCEPT ![t] = s], owed' = [owed EXCEPT ![t] = o],
         failed => failed', DOMAIN wallet \subseteq DOMAIN wallet',
         \A b \in Ids : Paid(s, b, o[b], failed', DOMAIN wallet')
  PROVE  AllPaid'
<1>1. /\ owed' \in [Threads -> [Ids -> Nat]] /\ owed'[t] = o
      /\ \A u \in Threads \ {t} : owed'[u] = owed[u]
  BY DEF AllPaid
<1>2. todo'[t] = s /\ \A u \in Threads \ {t} : todo'[u] = todo[u]
  OBVIOUS
<1>3. \A u \in Threads, b \in Ids :
        Paid(todo[u], b, owed[u][b], failed', DOMAIN wallet')
  BY PaidWeaker DEF AllPaid
<1>4. ASSUME NEW u \in Threads, NEW b \in Ids
      PROVE  Paid(todo'[u], b, owed'[u][b], failed', DOMAIN wallet')
  <2>1. CASE u = t
    BY <1>1, <1>2, <2>1
  <2>2. CASE u # t
    <3>1. todo'[u] = todo[u] /\ owed'[u] = owed[u]
      BY <1>1, <1>2, <2>2
    <3> QED
      BY <1>3, <3>1
  <2> QED
    BY <2>1, <2>2
<1>5. Ids' = Ids
  BY DEF Ids
<1> QED
  BY <1>1, <1>4, <1>5 DEF AllPaid

-----------------------------------------------------------------------------
(* What the operations owe. *)

\* A check and a charge of k copies.
Charges(s, a, k) ==
  /\ s \in Seq(Statement)
  /\ Len(s) \in {2, 3}
  /\ s[1].op = "check" /\ s[1].must
  /\ IsFor(s[2], a) /\ s[2].must /\ Owes(s[2], a) = k
  /\ Len(s) = 3 => IsFor(s[3], a) /\ s[3].must /\ Owes(s[3], a) = 0

\* The delivery of k copies.
Delivers(r, a, k) ==
  /\ r \in Seq(Statement)
  /\ \E q : Balances(r, a, q) /\ q[1] = k /\ q[Len(r) + 1] = 0

LEMMA ChargeThenDeliver ==
  ASSUME NEW s, NEW r, NEW a, NEW k \in Nat, Charges(s, a, k), Delivers(r, a, k),
         NEW lost, NEW rows
  PROVE  Paid(s \o r, a, 0, lost, rows)
<1> DEFINE l == Len(s)
           m == Len(r)
           c == s \o r
<1>1. /\ l \in {2, 3} /\ m \in Nat /\ c \in Seq(Statement) /\ Len(c) = l + m
      /\ \A i \in 1 .. l + m : c[i] = IF i <= l THEN s[i] ELSE r[i - l]
  BY ConcatProperties DEF Charges, Delivers
<1>2. PICK q : /\ q \in [1 .. m + 1 -> Nat]
               /\ \A i \in 1 .. m : /\ q[i + 1] = q[i] + Owes(r[i], a)
                                    /\ ~IsFor(r[i], a) => q[i] = 0
                                    /\ ~r[i].must => Owes(r[i], a) = 0
               /\ q[1] = k /\ q[m + 1] = 0
  BY DEF Delivers, Balances
<1>3. /\ s[1].op = "check" /\ s[1].must
      /\ IsFor(s[2], a) /\ s[2].must /\ Owes(s[2], a) = k
      /\ l = 3 => IsFor(s[3], a) /\ s[3].must /\ Owes(s[3], a) = 0
      /\ Owes(s[1], a) = 0
  BY DEF Owes, IsFor, Charges
<1> HIDE DEF l, m, c
<1>4. PICK p : p = [i \in 1 .. l + m + 1 |->
                      IF i <= 2 THEN 0 ELSE IF i <= l THEN k ELSE q[i - l]]
  OBVIOUS
<1>5. \A i \in 1 .. l + m + 1 : i <= l \/ i - l \in 1 .. m + 1
  BY <1>1
<1>6. /\ p \in [1 .. l + m + 1 -> Nat]
      /\ \A i \in 1 .. l + m + 1 :
           p[i] = IF i <= 2 THEN 0 ELSE IF i <= l THEN k ELSE q[i - l]
  <2>1. \A i \in 1 .. l + m + 1 :
          (IF i <= 2 THEN 0 ELSE IF i <= l THEN k ELSE q[i - l]) \in Nat
    BY <1>1, <1>2, <1>5
  <2> QED
    BY <1>4, <2>1
<1>7. p[1] = 0 /\ p[l + m + 1] = 0
  <2>1. 1 \in 1 .. l + m + 1 /\ l + m + 1 \in 1 .. l + m + 1
        /\ ~(l + m + 1 <= 2) /\ ~(l + m + 1 <= l) /\ (l + m + 1) - l = m + 1
    BY <1>1
  <2> QED
    BY <1>2, <1>6, <2>1
<1>8. ASSUME NEW i \in 1 .. l + m
      PROVE  /\ p[i + 1] = p[i] + Owes(c[i], a)
             /\ ~IsFor(c[i], a) => p[i] = 0
             /\ ~c[i].must => Owes(c[i], a) = 0
  <2>0. i \in 1 .. l + m + 1 /\ i + 1 \in 1 .. l + m + 1
    BY <1>1
  <2>1. CASE i = 1
    <3>1. c[i] = s[1] /\ p[i] = 0 /\ p[i + 1] = 0
      BY <1>1, <1>6, <2>0, <2>1
    <3> QED
      BY <1>3, <3>1
  <2>2. CASE i = 2
    <3>1. c[i] = s[2] /\ p[i] = 0
      BY <1>1, <1>6, <2>0, <2>2
    <3>2. p[i + 1] = k
      <4>1. CASE l = 3
        BY <1>6, <2>0, <2>2, <4>1
      <4>2. CASE l = 2
        <5>1. p[i + 1] = q[3 - 2] /\ 3 - 2 = 1
          BY <1>6, <2>0, <2>2, <4>2
        <5> QED
          BY <1>2, <5>1
      <4> QED
        BY <1>1, <4>1, <4>2
    <3> QED
      BY <1>2, <1>3, <3>1, <3>2
  <2>3. CASE i = 3 /\ l = 3
    <3>1. c[i] = s[3] /\ p[i] = k
      BY <1>1, <1>6, <2>0, <2>3
    <3>2. p[i + 1] = q[4 - 3] /\ 4 - 3 = 1
      BY <1>6, <2>0, <2>3
    <3> QED
      BY <1>2, <1>3, <2>3, <3>1, <3>2
  <2>4. CASE i > l
    <3>1. PICK j \in 1 .. m : j = i - l
      BY <1>1, <2>4
    <3>2. c[i] = r[j] /\ p[i] = q[j]
      <4>1. ~(i <= 2) /\ ~(i <= l)
        BY <1>1, <2>4
      <4>2. c[i] = r[i - l]
        BY <1>1, <4>1
      <4>3. p[i] = q[i - l]
        BY <1>6, <2>0, <4>1
      <4> QED
        BY <3>1, <4>2, <4>3
    <3>3. p[i + 1] = q[j + 1]
      <4>1. ~(i + 1 <= 2) /\ ~(i + 1 <= l) /\ (i + 1) - l = j + 1
        BY <1>1, <2>4, <3>1
      <4> QED
        BY <1>6, <2>0, <4>1
    <3> QED
      BY <1>2, <3>2, <3>3
  <2> QED
    BY <1>1, <2>1, <2>2, <2>3, <2>4
<1>9. Balances(c, a, p)
  BY <1>1, <1>6, <1>8 DEF Balances
<1>10. Paid(c, a, 0, lost, rows)
  BY <1>1, <1>7, <1>9 DEF Paid
<1> QED
  BY <1>10 DEF c

LEMMA ChargePart ==
  ASSUME NEW A \in SUBSET Nat, NEW a \in A, NEW c \in Currency,
         NEW m \in Nat \ {0}, NEW k \in Nat
  PROVE  Charges(<<Check(a, c, m)>> \o Grant(a, c, -m, k), a, k)
<1>0. -m \in Int /\ -m < 0 /\ a \in Nat /\ m \in Nat
  OBVIOUS
<1>1. PICK g \in Seq(Statement) :
        /\ g = Grant(a, c, -m, k)
        /\ Len(g) \in {1, 2}
        /\ g[1] = Add(a, c, -m, k)
        /\ Len(g) = 2 => g[2] = Add(a, "ticket", 0, 0)
  BY <1>0, GrantShape
<1>2. PICK x : x = Add(a, c, -m, k)
  OBVIOUS
<1>3. PICK y : y = Add(a, "ticket", 0, 0)
  OBVIOUS
<1>4. PICK h \in Statement : h = Check(a, c, m)
  BY <1>0, CheckType
<1>5. Len(g) \in {1, 2} /\ g[1] = x /\ (Len(g) = 2 => g[2] = y)
  BY <1>1, <1>2, <1>3
<1>6. PICK s : s = <<h>> \o g
  OBVIOUS
<1>7. /\ s \in Seq(Statement) /\ Len(s) = 1 + Len(g)
      /\ s[1] = h /\ s[2] = x /\ (Len(s) = 3 => s[3] = y)
  <2>1. <<h>> \in Seq(Statement) /\ Len(<<h>>) = 1 /\ <<h>>[1] = h
    OBVIOUS
  <2>2. /\ s \in Seq(Statement) /\ Len(s) = 1 + Len(g)
        /\ \A i \in 1 .. 1 + Len(g) : s[i] = IF i <= 1 THEN <<h>>[i] ELSE g[i - 1]
    BY <1>6, <2>1, ConcatProperties
  <2> QED
    BY <1>5, <2>1, <2>2
<1>8. /\ IsFor(x, a) /\ x.must /\ Owes(x, a) = k
      /\ IsFor(y, a) /\ y.must /\ Owes(y, a) = 0
      /\ h.op = "check" /\ h.must
  <2>1. x.op = "add" /\ x.must /\ x.account = a /\ x.n = -m /\ x.copies = k
    BY <1>2 DEF Add
  <2>2. y.op = "add" /\ y.must /\ y.account = a /\ y.n = 0 /\ y.copies = 0
    BY <1>3 DEF Add
  <2>3. h.op = "check" /\ h.must
    BY <1>4 DEF Check
  <2>4. IsFor(x, a) /\ Owes(x, a) = k
    BY <1>0, <2>1 DEF Owes, IsFor
  <2>5. IsFor(y, a) /\ Owes(y, a) = 0
    BY <2>2 DEF Owes, IsFor
  <2> QED
    BY <2>1, <2>2, <2>3, <2>4, <2>5
<1>9. Len(s) \in {2, 3}
  <2>1. CASE Len(g) = 1
    BY <1>7, <2>1
  <2>2. CASE Len(g) = 2
    BY <1>7, <2>2
  <2> QED
    BY <1>5, <2>1, <2>2
<1>10. Charges(s, a, k)
  BY <1>7, <1>8, <1>9 DEF Charges
<1> QED
  BY <1>1, <1>4, <1>6, <1>10

\* Nothing is charged or delivered but for the account of the operation.
LEMMA OthersEven ==
  ASSUME NEW s, NEW r \in Seq(Statement), NEW a, NEW k, Charges(s, a, k),
         \A i \in 1 .. Len(r) : IsFor(r[i], a), NEW b, b # a, NEW lost, NEW rows
  PROVE  Paid(s \o r, b, 0, lost, rows)
<1>1. PICK l \in {2, 3}, m \in Nat : l = Len(s) /\ m = Len(r)
  BY DEF Charges
<1>2. PICK c \in Seq(Statement) : c = s \o r
  BY ConcatProperties DEF Charges
<1>3. Len(c) = l + m /\ \A i \in 1 .. l + m : c[i] = IF i <= l THEN s[i] ELSE r[i - l]
  BY <1>1, <1>2, ConcatProperties DEF Charges
<1>4. ASSUME NEW i \in 1 .. l + m PROVE Owes(c[i], b) = 0
  <2>1. CASE i <= l
    <3>1. c[i] = s[i] /\ (i = 1 \/ i = 2 \/ (i = 3 /\ l = 3))
      BY <1>3, <2>1
    <3>2. ~IsFor(s[1], b) /\ ~IsFor(s[2], b) /\ (l = 3 => ~IsFor(s[3], b))
      BY <1>1 DEF Charges, IsFor
    <3> QED
      BY <3>1, <3>2 DEF Owes
  <2>2. CASE ~(i <= l)
    <3>1. PICK j \in 1 .. m : c[i] = r[j]
      BY <1>3, <2>2
    <3>2. ~IsFor(r[j], b)
      BY <1>1 DEF IsFor
    <3> QED
      BY <3>1, <3>2 DEF Owes
  <2> QED
    BY <2>1, <2>2
<1>5. \A i \in 1 .. Len(c) : Owes(c[i], b) = 0
  BY <1>3, <1>4
<1> QED
  BY <1>2, <1>5, PaidEven

\* Operations that charge for nothing: what they add is of no copies.
LEMMA NoCopies ==
  ASSUME NEW s \in Seq(Statement), NEW b, NEW lost, NEW rows,
         \A i \in 1 .. Len(s) : s[i].op \in {"add", "own"} => s[i].copies = 0
  PROVE  Paid(s, b, 0, lost, rows)
<1>1. ASSUME NEW i \in 1 .. Len(s) PROVE Owes(s[i], b) = 0
  BY DEF Owes, IsFor
<1> QED
  BY <1>1, PaidEven

LEMMA PurchasePaid ==
  ASSUME NEW A \in SUBSET Nat, NEW a \in A, NEW g \in Catalog,
         NEW n \in 1 .. MaxCopies, NEW b, NEW lost, NEW rows
  PROVE  Paid(Purchase(a, g, n), b, 0, lost, rows)
<1>1. /\ g.cost \in Nat \ {0} /\ g.currency \in Currency /\ g.reward \in Nat
      /\ n \in Nat \ {0} /\ "gold" \in Currency /\ "ticket" \in Currency
      /\ a \in Nat
  BY AccountsAssumption DEF Currency
<1>2. PICK m \in Nat \ {0} : m = g.cost * n
  BY <1>1
<1>3. PICK w \in Nat : w = g.reward * n
  BY <1>1
<1>4. PICK s : s = <<Check(a, g.currency, m)>> \o Grant(a, g.currency, -m, n)
  OBVIOUS
<1>5. Charges(s, a, n)
  BY <1>1, <1>4, ChargePart
<1>6. PICK x \in Statement : x = Add(a, "gold", w, n)
  BY <1>1, <1>3, AddType
<1>7. PICK y \in Statement : y = Add(a, "ticket", 0, 0)
  BY <1>1, AddType
<1>8. PICK r : r = <<x, y>> /\ r = Grant(a, "gold", w, n)
  BY <1>6, <1>7 DEF Grant
<1>9. /\ r \in Seq(Statement) /\ Len(r) = 2 /\ r[1] = x /\ r[2] = y
  BY <1>8
<1>10. /\ IsFor(x, a) /\ x.must /\ Owes(x, a) = -n
       /\ IsFor(y, a) /\ y.must /\ Owes(y, a) = 0
  <2>1. x.op = "add" /\ x.must /\ x.account = a /\ x.n = w /\ x.copies = n
    BY <1>6 DEF Add
  <2>2. y.op = "add" /\ y.must /\ y.account = a /\ y.n = 0 /\ y.copies = 0
    BY <1>7 DEF Add
  <2>3. IsFor(x, a) /\ Owes(x, a) = -n
    BY <1>3, <2>1 DEF Owes, IsFor
  <2>4. IsFor(y, a) /\ Owes(y, a) = 0
    BY <2>2 DEF Owes, IsFor
  <2> QED
    BY <2>1, <2>2, <2>3, <2>4
<1>11. PICK q : q = [i \in 1 .. 3 |-> IF i = 1 THEN n ELSE 0]
  OBVIOUS
<1>12. q \in [1 .. 2 + 1 -> Nat] /\ q[1] = n /\ q[2] = 0 /\ q[3] = 0
  BY <1>1, <1>11
<1>13. \A i \in 1 .. 2 : i = 1 \/ i = 2
  OBVIOUS
<1>14. Balances(r, a, q)
  <2>1. ASSUME NEW i \in 1 .. 2
        PROVE  /\ q[i + 1] = q[i] + Owes(r[i], a)
               /\ IsFor(r[i], a) /\ r[i].must
    <3>1. CASE i = 1
      BY <1>1, <1>9, <1>10, <1>12, <3>1
    <3>2. CASE i = 2
      BY <1>9, <1>10, <1>12, <3>2
    <3> QED
      BY <1>13, <3>1, <3>2
  <2> QED
    BY <1>9, <1>12, <2>1 DEF Balances
<1>16. Delivers(r, a, n)
  BY <1>9, <1>12, <1>14 DEF Delivers
<1>17. n \in Nat
  BY <1>1
<1>18. Paid(s \o r, a, 0, lost, rows)
  BY <1>5, <1>16, <1>17, ChargeThenDeliver
<1>19. Purchase(a, g, n) = s \o r
  <2>1. Purchase(a, g, n) = (<<Check(a, g.currency, m)>>
                               \o Grant(a, g.currency, -m, n))
                               \o Grant(a, "gold", w, n)
    BY <1>2, <1>3 DEF Purchase
  <2> QED
    BY <1>4, <1>8, <2>1
<1>20. CASE b = a
  BY <1>18, <1>19, <1>20
<1>21. CASE b # a
  <2>1. \A i \in 1 .. Len(r) : IsFor(r[i], a)
    BY <1>9, <1>10, <1>13
  <2>2. Paid(s \o r, b, 0, lost, rows)
    BY <1>5, <1>9, <1>21, <2>1, OthersEven
  <2> QED
    BY <1>19, <2>2
<1> QED
  BY <1>20, <1>21

LEMMA OpenPaid ==
  ASSUME NEW A \in SUBSET Nat, NEW a \in A, NEW n \in 1 .. MaxCopies,
         NEW chars \in [1 .. n -> Characters], NEW b, NEW lost, NEW rows
  PROVE  Paid(Open(a, chars), b, 0, lost, rows)
<1>1. /\ n \in Nat \ {0} /\ Len(chars) = n /\ DOMAIN chars = 1 .. n
      /\ "diamond" \in Currency /\ a \in Nat
  BY AccountsAssumption DEF Currency
<1>2. PICK m \in Nat \ {0} : m = Len(chars) * PricePerDraw
  BY <1>1, AccountsAssumption
<1>3. PICK s : s = <<Check(a, "diamond", m)>> \o Grant(a, "diamond", -m, n)
  OBVIOUS
<1>4. n \in Nat /\ Charges(s, a, n)
  BY <1>1, <1>3, ChargePart
<1>5. PICK r : r = [i \in 1 .. n |-> Own(a, chars[i], 1)]
  OBVIOUS
<1>6. r \in Seq(Statement) /\ Len(r) = n
  <2>1. \A i \in 1 .. n : Own(a, chars[i], 1) \in Statement
    BY <1>1, OwnType
  <2> QED
    BY <1>1, <1>5, <2>1
<1>7. \A i \in 1 .. n : IsFor(r[i], a) /\ r[i].must /\ Owes(r[i], a) = -1
  BY <1>5 DEF Own, Owes, IsFor
<1>8. PICK q : q = [i \in 1 .. n + 1 |-> n + 1 - i]
  OBVIOUS
<1>9. /\ q \in [1 .. n + 1 -> Nat] /\ q[1] = n /\ q[n + 1] = 0
      /\ \A i \in 1 .. n : q[i + 1] = q[i] + (-1)
  BY <1>1, <1>8
<1>10. Balances(r, a, q)
  BY <1>6, <1>7, <1>9 DEF Balances
<1>11. Delivers(r, a, n)
  BY <1>6, <1>9, <1>10 DEF Delivers
<1>12. Paid(s \o r, a, 0, lost, rows)
  BY <1>4, <1>11, ChargeThenDeliver
<1>13. Open(a, chars) = s \o r
  <2>1. Open(a, chars) = (<<Check(a, "diamond", m)>> \o Grant(a, "diamond", -m, n))
                           \o [i \in DOMAIN chars |-> Own(a, chars[i], 1)]
    BY <1>1, <1>2 DEF Open
  <2> QED
    BY <1>1, <1>3, <1>5, <2>1
<1>14. CASE b = a
  BY <1>12, <1>13, <1>14
<1>15. CASE b # a
  <2>1. \A i \in 1 .. Len(r) : IsFor(r[i], a)
    BY <1>6, <1>7
  <2>2. Paid(s \o r, b, 0, lost, rows)
    BY <1>4, <1>6, <1>15, <2>1, OthersEven
  <2> QED
    BY <1>13, <2>2
<1> QED
  BY <1>14, <1>15

LEMMA GrantAccountPaid ==
  ASSUME NEW a \in Ids, NEW g \in Grants,
         NEW chars \in {<< >>} \cup {<<ch>> : ch \in Characters},
         NEW b, NEW lost, NEW rows
  PROVE  Paid(GrantAccount(a, g, chars), b, 0, lost, rows)
<1>1. PICK s : s = GrantAccount(a, g, chars)
  OBVIOUS
<1>2. Plan(s, Nat) /\ \A i \in DOMAIN s : s[i].copies = 0
  BY <1>1, GrantAccountPlan
<1>3. s \in Seq(Statement) /\ DOMAIN s = 1 .. Len(s)
  BY <1>2 DEF Plan
<1> QED
  BY <1>1, <1>2, <1>3, NoCopies

LEMMA SmallPaid ==
  ASSUME NEW name \in Names, NEW visitor \in BOOLEAN, NEW b, NEW lost, NEW rows
  PROVE  /\ Paid(Signup(name, visitor), b, 0, lost, rows)
         /\ Paid(Login(name), b, 0, lost, rows)
<1>1. Plan(Signup(name, visitor), Nat) /\ Plan(Login(name), Nat)
  BY SmallPlans
<1>2. /\ \A i \in 1 .. Len(Signup(name, visitor)) :
           Signup(name, visitor)[i].op \in {"lookup", "insert"}
      /\ \A i \in 1 .. Len(Login(name)) : Login(name)[i].op = "login"
  BY DEF Signup, Login
<1> QED
  BY <1>1, <1>2, NoCopies DEF Plan

LEMMA IncrementPaid ==
  ASSUME NEW a \in Nat, NEW b, NEW lost, NEW rows
  PROVE  Paid(Increment(a), b, 0, lost, rows)
<1>1. Plan(Increment(a), Nat)
  BY IncrementPlan
<1>2. \A i \in 1 .. Len(Increment(a)) : Increment(a)[i].op = "read"
  BY DEF Increment
<1> QED
  BY <1>1, <1>2, NoCopies DEF Plan

LEMMA WalletPaid ==
  ASSUME NEW A \in SUBSET Nat, NEW a \in A, NEW visitor \in BOOLEAN,
         NEW b, NEW lost, NEW rows
  PROVE  Paid(MakeWallet(a, visitor), b, 0, lost, rows)
<1>1. /\ Plan(MakeWallet(a, visitor), A)
      /\ \A i \in DOMAIN MakeWallet(a, visitor) :
           /\ MakeWallet(a, visitor)[i].op \in {"row", "add", "answer"}
           /\ MakeWallet(a, visitor)[i].account = a
           /\ MakeWallet(a, visitor)[i].op = "add" =>
                MakeWallet(a, visitor)[i].copies = 0
  BY WalletPlan
<1>2. PICK s : s = MakeWallet(a, visitor)
  OBVIOUS
<1>3. /\ s \in Seq(Statement) /\ DOMAIN s = 1 .. Len(s)
      /\ \A i \in DOMAIN s : s[i].op \in {"add", "own"} => s[i].copies = 0
  BY <1>1, <1>2 DEF Plan
<1> QED
  BY <1>2, <1>3, NoCopies

-----------------------------------------------------------------------------
(* What an operation owes is paid, or lost. *)

\* While an operation may still be refused it owes nothing; nor does it by a
\* statement that may fail unnoticed, or without a wallet.
LEMMA PaidHead ==
  ASSUME NEW s \in Seq(Statement), s # << >>, NEW b, NEW o, NEW lost, NEW rows,
         Paid(s, b, o, lost, rows)
  PROVE  /\ ~IsFor(s[1], b) => o = 0 /\ Owes(s[1], b) = 0
         /\ ~s[1].must => Owes(s[1], b) = 0
         /\ b \notin rows => o = 0
<1>1. Len(s) \in Nat \ {0} /\ 1 \in 1 .. Len(s) /\ 1 \in 1 .. Len(s) + 1
  BY HeadTailProperties
<1>2. ~IsFor(s[1], b) => Owes(s[1], b) = 0
  BY DEF Owes
<1> QED
  BY <1>1, <1>2 DEF Paid, Balances

\* A step to the next statement.
LEMMA PaidMoves ==
  ASSUME AllPaid, NEW t \in Threads, todo \in [Threads -> Seq(Statement)],
         todo[t] # << >>, todo' = [todo EXCEPT ![t] = Tail(todo[t])],
         NEW o, DOMAIN o = Ids, o = [b \in Ids |-> o[b]],
         \A b \in Ids : o[b] = owed[t][b] + Owes(todo[t][1], b),
         owed' = [owed EXCEPT ![t] = o],
         failed => failed', DOMAIN wallet \subseteq DOMAIN wallet',
         \A b \in Ids : Owes(todo[t][1], b) > 0 => b \in DOMAIN wallet'
  PROVE  AllPaid'
<1>1. PICK rows : rows = DOMAIN wallet'
  OBVIOUS
<1>2. PICK lost \in BOOLEAN : lost <=> failed'
  OBVIOUS
<1>3. PICK x \in Seq(Statement) : x = todo[t]
  OBVIOUS
<1>4. ASSUME NEW b \in Ids
      PROVE  o[b] \in Nat /\ Paid(Tail(x), b, o[b], lost, rows)
  <2>1. PICK v : v = owed[t][b]
    OBVIOUS
  <2>2. Paid(x, b, v, failed, DOMAIN wallet)
    BY <1>3, <2>1 DEF AllPaid
  <2>3. Paid(x, b, v, lost, rows)
    BY <1>1, <1>2, <2>2, PaidWeaker
  <2>4. x # << >> /\ (Owes(x[1], b) > 0 => b \in rows)
    BY <1>1, <1>3
  <2>5. v + Owes(x[1], b) \in Nat /\ Paid(Tail(x), b, v + Owes(x[1], b), lost, rows)
    BY <2>3, <2>4, PaidTail
  <2>6. o[b] = v + Owes(x[1], b)
    BY <1>3, <2>1
  <2> QED
    BY <2>5, <2>6
<1>5. o \in [Ids -> Nat]
  BY <1>4
<1>6. PICK s : s = Tail(x)
  OBVIOUS
<1>7. \A b \in Ids : Paid(s, b, o[b], failed', DOMAIN wallet')
  BY <1>1, <1>2, <1>4, <1>6 DEF Paid
<1>8. todo' = [todo EXCEPT ![t] = s]
  BY <1>3, <1>6
<1> QED
  BY <1>5, <1>7, <1>8, PaidStep

\* A step that neither charges nor delivers.
LEMMA PaidQuiet ==
  ASSUME AllPaid, NEW t \in Threads, NEW s, todo \in [Threads -> Seq(Statement)],
         todo[t] # << >>, todo' = [todo EXCEPT ![t] = s], owed' = owed,
         failed => failed', DOMAIN wallet \subseteq DOMAIN wallet',
         \/ s = Tail(todo[t]) /\ \A b \in Ids : Owes(todo[t][1], b) = 0
         \/ s = << >> /\ (failed' \/ \A b \in Ids : owed[t][b] = 0)
  PROVE  AllPaid'
<1>1. PICK o \in [Ids -> Nat] : o = owed[t]
  BY DEF AllPaid
<1>2. owed' = [owed EXCEPT ![t] = o]
  BY <1>1 DEF AllPaid
<1>3. CASE s = Tail(todo[t]) /\ \A b \in Ids : Owes(todo[t][1], b) = 0
  <2>1. \A b \in Ids : /\ o[b] = owed[t][b] + Owes(todo[t][1], b)
                       /\ ~(Owes(todo[t][1], b) > 0)
    BY <1>1, <1>3
  <2>2. DOMAIN o = Ids /\ o = [b \in Ids |-> o[b]]
    OBVIOUS
  <2> QED
    BY <1>2, <1>3, <2>1, <2>2, PaidMoves
<1>4. CASE s = << >> /\ (failed' \/ \A b \in Ids : owed[t][b] = 0)
  <2>1. ASSUME NEW b \in Ids
        PROVE  Paid(s, b, o[b], failed', DOMAIN wallet')
    <3>1. PICK rows : rows = DOMAIN wallet'
      OBVIOUS
    <3>2. PICK lost \in BOOLEAN : lost <=> failed'
      OBVIOUS
    <3>3. PICK v \in Nat : v = o[b]
      OBVIOUS
    <3>4. v # 0 => b \in rows
      BY <1>1, <3>1, <3>3 DEF AllPaid, Paid
    <3>5. lost \/ v = 0
      BY <1>1, <1>4, <3>2, <3>3
    <3>6. Paid(<< >>, b, v, lost, rows)
      BY <3>4, <3>5, PaidOver
    <3> QED
      BY <1>4, <3>1, <3>2, <3>3, <3>6 DEF Paid
  <2> QED
    BY <1>2, <2>1, PaidStep
<1> QED
  BY <1>3, <1>4

LEMMA PaidStart ==
  ASSUME AccountsInv, AllPaid, NEW t \in Threads, NEW s, Start(t, s),
         \A b, lost, rows : Paid(s, b, 0, lost, rows)
  PROVE  AllPaid'
<1>1. PICK o \in [Ids -> Nat] : o = [b \in Ids |-> 0]
  OBVIOUS
<1>4. /\ todo' = [todo EXCEPT ![t] = s] /\ owed' = [owed EXCEPT ![t] = o]
      /\ failed' = failed /\ wallet' = wallet
  BY <1>1 DEF Start, tables, history
<1>2. todo \in [Threads -> Seq(Statement)]
  BY DEF AccountsInv, Plans
<1>3. \A b \in Ids : Paid(s, b, o[b], failed', DOMAIN wallet')
  BY <1>1
<1> QED
  BY <1>2, <1>3, <1>4, PaidStep

LEMMA RequestPaid ==
  ASSUME AccountsInv, AllPaid, NEW t \in Threads, Request(t)
  PROVE  AllPaid'
<1>1. PICK A \in SUBSET Nat : A = DOMAIN accounts
  BY AccountFacts DEF AccountsInv
<1>2. ASSUME NEW name \in Names, NEW visitor \in BOOLEAN,
             Start(t, Signup(name, visitor))
      PROVE  AllPaid'
  <2>2. PICK s : s = Signup(name, visitor)
    OBVIOUS
  <2>3. \A b, lost, rows : Paid(s, b, 0, lost, rows)
    BY <2>2, SmallPaid
  <2> QED
    BY <1>2, <2>2, <2>3, PaidStart
<1>3. ASSUME NEW name \in Names, Start(t, Login(name))
      PROVE  AllPaid'
  <2>1. PICK s : s = Login(name)
    OBVIOUS
  <2>2. \A b, lost, rows : Paid(s, b, 0, lost, rows)
    BY <2>1, SmallPaid
  <2> QED
    BY <1>3, <2>1, <2>2, PaidStart
<1>4. who[t] # 0 => who[t] \in A
  BY <1>1 DEF AccountsInv, TypeOK
<1>5. ASSUME who[t] # 0, NEW g \in Catalog, NEW n \in 1 .. MaxCopies,
             Start(t, Purchase(who[t], g, n))
      PROVE  AllPaid'
  <2>1. PICK a \in A : a = who[t]
    BY <1>4, <1>5
  <2>2. PICK s : s = Purchase(a, g, n)
    OBVIOUS
  <2>3. \A b, lost, rows : Paid(s, b, 0, lost, rows)
    BY <2>2, PurchasePaid
  <2> QED
    BY <1>5, <2>1, <2>2, <2>3, PaidStart
<1>6. ASSUME who[t] # 0, NEW n \in 1 .. MaxCopies,
             NEW chars \in [1 .. n -> Characters], Start(t, Open(who[t], chars))
      PROVE  AllPaid'
  <2>1. PICK a \in A : a = who[t]
    BY <1>4, <1>6
  <2>2. PICK s : s = Open(a, chars)
    OBVIOUS
  <2>3. \A b, lost, rows : Paid(s, b, 0, lost, rows)
    BY <2>2, OpenPaid
  <2> QED
    BY <1>6, <2>1, <2>2, <2>3, PaidStart
<1>7. ASSUME NEW a \in Ids, NEW g \in Grants,
             NEW chars \in {<< >>} \cup {<<ch>> : ch \in Characters},
             Start(t, GrantAccount(a, g, chars))
      PROVE  AllPaid'
  <2>1. PICK s : s = GrantAccount(a, g, chars)
    OBVIOUS
  <2>2. \A b, lost, rows : Paid(s, b, 0, lost, rows)
    BY <2>1, GrantAccountPaid
  <2> QED
    BY <1>7, <2>1, <2>2, PaidStart
<1>8. ASSUME NEW a \in Ids, Start(t, Increment(a))
      PROVE  AllPaid'
  <2>1. PICK s : s = Increment(a)
    OBVIOUS
  <2>2. \A b, lost, rows : Paid(s, b, 0, lost, rows)
    <3>1. a \in Nat
      BY IdsAreNat
    <3> QED
      BY <2>1, <3>1, IncrementPaid
  <2> QED
    BY <1>8, <2>1, <2>2, PaidStart
<1> QED
  BY <1>1, <1>2, <1>3, <1>5, <1>6, <1>7, <1>8 DEF Request

LEMMA AtHead ==
  ASSUME AccountsInv, AllPaid, NEW t \in Threads, todo[t] # << >>
  PROVE  /\ todo \in [Threads -> Seq(Statement)]
         /\ Head(todo[t]) = todo[t][1]
         /\ owed[t] \in [Ids -> Nat]
         /\ \A b \in Ids :
              /\ ~IsFor(todo[t][1], b) => owed[t][b] = 0 /\ Owes(todo[t][1], b) = 0
              /\ ~todo[t][1].must => Owes(todo[t][1], b) = 0
              /\ b \notin DOMAIN wallet => owed[t][b] = 0
<1>1. todo \in [Threads -> Seq(Statement)]
  BY DEF AccountsInv, Plans
<1>2. PICK x \in Seq(Statement) : x = todo[t]
  BY <1>1
<1>3. PICK rows : rows = DOMAIN wallet
  OBVIOUS
<1>4. ASSUME NEW b \in Ids
      PROVE  /\ ~IsFor(x[1], b) => owed[t][b] = 0 /\ Owes(x[1], b) = 0
             /\ ~x[1].must => Owes(x[1], b) = 0
             /\ b \notin rows => owed[t][b] = 0
  <2>1. Paid(x, b, owed[t][b], failed, rows)
    BY <1>2, <1>3 DEF AllPaid
  <2> QED
    BY <1>2, <2>1, PaidHead
<1>5. owed[t] \in [Ids -> Nat]
  BY DEF AllPaid
<1> QED
  BY <1>1, <1>2, <1>3, <1>4, <1>5

\* Statements that are neither of a charge nor of a delivery.
LEMMA OthersPaid ==
  ASSUME AccountsInv, AllPaid, NEW t \in Threads,
         \/ Lookup(t) \/ LoginAs(t) \/ InsertRow(t) \/ Answer(t)
         \/ CheckBalance(t) \/ SetProgress(t) \/ RefuseProgress(t)
  PROVE  AllPaid'
<1>1. todo[t] # << >> /\ Head(todo[t]).op \notin {"add", "own"}
  BY DEF Lookup, LoginAs, InsertRow, Answer, CheckBalance, SetProgress, RefuseProgress, Doing
<1>2. /\ todo \in [Threads -> Seq(Statement)]
      /\ \A b \in Ids : owed[t][b] = 0 /\ Owes(todo[t][1], b) = 0
  <2>1. /\ todo \in [Threads -> Seq(Statement)]
        /\ Head(todo[t]) = todo[t][1]
        /\ \A b \in Ids :
             ~IsFor(todo[t][1], b) => owed[t][b] = 0 /\ Owes(todo[t][1], b) = 0
    BY <1>1, AtHead
  <2> QED
    BY <1>1, <2>1 DEF IsFor
<1>3. owed' = owed /\ failed' = failed
  BY DEF Lookup, LoginAs, InsertRow, Answer, CheckBalance, SetProgress, RefuseProgress, history
<1>4. DOMAIN wallet \subseteq DOMAIN wallet'
  <2>1. CASE InsertRow(t)
    BY <2>1 DEF InsertRow
  <2>2. CASE ~InsertRow(t)
    BY <2>2 DEF Lookup, LoginAs, Answer, CheckBalance, SetProgress, RefuseProgress, tables
  <2> QED
    BY <2>1, <2>2
<1>5. PICK s : /\ todo' = [todo EXCEPT ![t] = s]
               /\ s = << >> \/ s = Tail(todo[t])
  BY DEF Lookup, LoginAs, InsertRow, Answer, CheckBalance, SetProgress, RefuseProgress, Continue
<1> QED
  BY <1>1, <1>2, <1>3, <1>4, <1>5, PaidQuiet

LEMMA InsertAccountPaid ==
  ASSUME AccountsInv, AllPaid, NEW t \in Threads, InsertAccount(t)
  PROVE  AllPaid'
<1>1. /\ todo[t] # << >> /\ Head(todo[t]) = todo[t][1] /\ todo[t][1].op = "insert"
      /\ todo[t][1] \in Statement
  BY HeadFacts DEF InsertAccount
<1>2. /\ todo \in [Threads -> Seq(Statement)] /\ owed[t] \in [Ids -> Nat]
      /\ \A b \in Ids :
           ~IsFor(todo[t][1], b) => owed[t][b] = 0 /\ Owes(todo[t][1], b) = 0
  BY <1>1, AtHead
<1>3. owed' = owed /\ failed' = failed /\ wallet' = wallet
  BY DEF InsertAccount, history
<1>4. \A b \in Ids : owed[t][b] = 0
  BY <1>1, <1>2 DEF IsFor
<1>5. CASE Head(todo[t]).name \in Range(accounts)
  <2>1. todo' = [todo EXCEPT ![t] = << >>]
    BY <1>5 DEF InsertAccount, Continue
  <2> QED
    BY <1>1, <1>2, <1>3, <1>4, <2>1, PaidQuiet
<1>6. CASE Head(todo[t]).name \notin Range(accounts)
  <2>1. accounts' = Append(accounts, Head(todo[t]).name)
    BY <1>6 DEF InsertAccount
  <2>2. PICK n \in Nat : n = Len(accounts')
    BY <2>1, AccountFacts DEF AccountsInv
  <2>3. PICK visitor \in BOOLEAN : visitor = Head(todo[t]).visitor
    BY <1>1, StatementFields
  <2>4. PICK s : s = MakeWallet(n, visitor)
    OBVIOUS
  <2>5. todo' = [todo EXCEPT ![t] = s]
    BY <1>6, <2>2, <2>3, <2>4 DEF InsertAccount, Continue
  <2>6. \A b, lost, rows : Paid(s, b, 0, lost, rows)
    BY <2>4, WalletPaid
  <2>7. PICK o \in [Ids -> Nat] : o = owed[t]
    BY <1>2
  <2>8. \A b \in Ids : Paid(s, b, o[b], failed', DOMAIN wallet')
    BY <1>4, <2>6, <2>7
  <2>9. owed' = [owed EXCEPT ![t] = o]
    BY <1>3, <2>7 DEF AllPaid
  <2> QED
    BY <1>2, <1>3, <2>5, <2>8, <2>9, PaidStep
<1> QED
  BY <1>5, <1>6

LEMMA ReadPaid ==
  ASSUME AccountsInv, AllPaid, NEW t \in Threads, ReadProgress(t)
  PROVE  AllPaid'
<1>1. /\ todo[t] # << >> /\ Head(todo[t]) = todo[t][1] /\ todo[t][1].op = "read"
      /\ todo[t][1].account \in Ids
  BY HeadFacts DEF ReadProgress
<1>2. /\ todo \in [Threads -> Seq(Statement)] /\ owed[t] \in [Ids -> Nat]
      /\ \A b \in Ids :
           ~IsFor(todo[t][1], b) => owed[t][b] = 0 /\ Owes(todo[t][1], b) = 0
  BY <1>1, AtHead
<1>3. owed' = owed /\ failed' = failed /\ wallet' = wallet
  BY DEF ReadProgress, tables
<1>4. PICK a \in Nat : a = todo[t][1].account /\ a \in Ids
  BY <1>1, IdsAreNat
<1>5. PICK n \in Nat : n = progress[a] + 1
  BY <1>4 DEF AccountsInv, TypeOK
<1>6. PICK x : x = [op |-> "set", account |-> a, n |-> n, must |-> TRUE]
  OBVIOUS
<1>7. x \in Statement /\ x.op = "set"
  <2>1. x \in SetStatement /\ x.op = "set"
    BY <1>6 DEF SetStatement
  <2> QED
    BY <2>1 DEF Statement
<1>8. PICK s : s = <<x>>
  OBVIOUS
<1>9. todo' = [todo EXCEPT ![t] = s]
  BY <1>1, <1>4, <1>5, <1>6, <1>8 DEF ReadProgress, Continue
<1>10. \A b, lost, rows : Paid(s, b, 0, lost, rows)
  <2>1. s \in Seq(Statement) /\ Len(s) = 1 /\ s[1] = x
    BY <1>7, <1>8
  <2>2. \A i \in 1 .. Len(s) : s[i].op \notin {"add", "own"}
    BY <1>7, <2>1
  <2> QED
    BY <2>1, <2>2, NoCopies
<1>11. PICK o \in [Ids -> Nat] : o = owed[t]
  BY <1>2
<1>12. \A b \in Ids : Paid(s, b, o[b], failed', DOMAIN wallet')
  <2>1. \A b \in Ids : o[b] = 0
    BY <1>1, <1>2, <1>11 DEF IsFor
  <2> QED
    BY <1>10, <2>1
<1>13. owed' = [owed EXCEPT ![t] = o]
  BY <1>3, <1>11 DEF AllPaid
<1> QED
  BY <1>2, <1>3, <1>9, <1>12, <1>13, PaidStep

\* What an update of a wallet, or the row of a character, takes from what is
\* owed to its account.
LEMMA OwesLess ==
  ASSUME AccountsInv, AllPaid, NEW t \in Threads, todo[t] # << >>,
         NEW a \in Ids, a = todo[t][1].account, todo[t][1].op \in {"add", "own"},
         NEW v, v = owed[t][a] + Owes(todo[t][1], a),
         owed' = [owed EXCEPT ![t] = [owed[t] EXCEPT ![a] = v]],
         todo' = [todo EXCEPT ![t] = Tail(todo[t])],
         failed' = failed, DOMAIN wallet' = DOMAIN wallet,
         todo[t][1].op = "add" => a \in DOMAIN wallet
  PROVE  AllPaid'
<1>1. /\ todo \in [Threads -> Seq(Statement)] /\ owed[t] \in [Ids -> Nat]
      /\ \A b \in Ids : ~IsFor(todo[t][1], b) => Owes(todo[t][1], b) = 0
  BY AtHead
<1>2. PICK o : o = [owed[t] EXCEPT ![a] = v]
  OBVIOUS
<1>3. /\ DOMAIN o = Ids /\ o = [b \in Ids |-> o[b]]
      /\ o[a] = v /\ \A b \in Ids \ {a} : o[b] = owed[t][b]
  BY <1>1, <1>2
<1>4. \A b \in Ids \ {a} : Owes(todo[t][1], b) = 0
  BY <1>1 DEF IsFor
<1>5. \A b \in Ids : o[b] = owed[t][b] + Owes(todo[t][1], b)
  BY <1>1, <1>3, <1>4
<1>6. Owes(todo[t][1], a) > 0 => todo[t][1].op = "add"
  <2>1. todo[t][1] \in Statement
    BY <1>1
  <2>2. todo[t][1].copies \in Nat
    BY <2>1, OwesType
  <2> QED
    BY <2>2 DEF Owes
<1>7. \A b \in Ids : Owes(todo[t][1], b) > 0 => b \in DOMAIN wallet'
  BY <1>4, <1>6
<1>8. owed' = [owed EXCEPT ![t] = o]
  BY <1>2
<1> QED
  BY <1>1, <1>3, <1>5, <1>7, <1>8, PaidMoves

LEMMA AddToPaid ==
  ASSUME AccountsInv, AllPaid, NEW t \in Threads, AddTo(t)
  PROVE  AllPaid'
<1>1. /\ todo[t] # << >> /\ Head(todo[t]) = todo[t][1] /\ todo[t][1].op = "add"
      /\ todo[t][1] \in Statement /\ todo[t][1].account \in Ids
  BY HeadFacts DEF AddTo
<1>2. PICK a \in Ids : a = todo[t][1].account
  BY <1>1
<1>3. /\ todo \in [Threads -> Seq(Statement)] /\ owed[t] \in [Ids -> Nat]
      /\ \A b \in Ids :
           /\ ~IsFor(todo[t][1], b) => owed[t][b] = 0 /\ Owes(todo[t][1], b) = 0
           /\ ~todo[t][1].must => Owes(todo[t][1], b) = 0
           /\ b \notin DOMAIN wallet => owed[t][b] = 0
  BY <1>1, AtHead
<1>4. failed' = failed
  BY DEF AddTo
<1>5. CASE a \in DOMAIN wallet
  <2>1. PICK k \in Int : k = todo[t][1].copies
    <3>1. todo[t][1].copies \in Nat
      BY <1>1, OwesType
    <3> QED
      BY <3>1
  <2>2. PICK v : v = IF todo[t][1].n < 0 THEN owed[t][a] + k ELSE owed[t][a] - k
    OBVIOUS
  <2>3. /\ owed' = [owed EXCEPT ![t] = [owed[t] EXCEPT ![a] = v]]
        /\ todo' = [todo EXCEPT ![t] = Tail(todo[t])]
        /\ DOMAIN wallet' = DOMAIN wallet
    BY <1>1, <1>2, <1>3, <1>5, <2>1, <2>2 DEF AddTo, Continue
  <2>4. v = owed[t][a] + Owes(todo[t][1], a)
    BY <1>1, <1>2, <1>3, <2>1, <2>2 DEF Owes, IsFor
  <2> QED
    BY <1>1, <1>2, <1>4, <1>5, <2>3, <2>4, OwesLess
<1>6. CASE a \notin DOMAIN wallet
  <2>1. /\ owed' = owed /\ wallet' = wallet
        /\ todo' = [todo EXCEPT ![t] = IF todo[t][1].must THEN << >>
                                                          ELSE Tail(todo[t])]
    BY <1>1, <1>2, <1>6 DEF AddTo, Continue
  <2>2. \A b \in Ids : owed[t][b] = 0
    <3>1. \A b \in Ids \ {a} : ~IsFor(todo[t][1], b)
      BY <1>2 DEF IsFor
    <3> QED
      BY <1>3, <1>6, <3>1
  <2> QED
    BY <1>1, <1>3, <1>4, <2>1, <2>2, PaidQuiet
<1> QED
  BY <1>5, <1>6

LEMMA AddCharacterPaid ==
  ASSUME AccountsInv, AllPaid, NEW t \in Threads, AddCharacter(t)
  PROVE  AllPaid'
<1>1. /\ todo[t] # << >> /\ Head(todo[t]) = todo[t][1] /\ todo[t][1].op = "own"
      /\ todo[t][1] \in Statement /\ todo[t][1].account \in Ids
  BY HeadFacts DEF AddCharacter
<1>2. PICK a \in Ids : a = todo[t][1].account
  BY <1>1
<1>3. owed[t] \in [Ids -> Nat]
  BY <1>1, AtHead
<1>4. PICK k \in Int : k = todo[t][1].copies
  <2>1. todo[t][1].copies \in Nat
    BY <1>1, OwesType
  <2> QED
    BY <2>1
<1>5. PICK v : v = owed[t][a] - k
  OBVIOUS
<1>6. /\ owed' = [owed EXCEPT ![t] = [owed[t] EXCEPT ![a] = v]]
      /\ todo' = [todo EXCEPT ![t] = Tail(todo[t])]
      /\ failed' = failed /\ wallet' = wallet
  BY <1>1, <1>2, <1>4, <1>5 DEF AddCharacter, Continue
<1>7. v = owed[t][a] + Owes(todo[t][1], a)
  BY <1>1, <1>2, <1>3, <1>4, <1>5 DEF Owes, IsFor
<1> QED
  BY <1>1, <1>2, <1>6, <1>7, OwesLess

LEMMA FailPaid ==
  ASSUME AccountsInv, AllPaid, NEW t \in Threads, Fail(t)
  PROVE  AllPaid'
<1>1. todo[t] # << >>
  BY DEF Fail
<1>2. /\ todo \in [Threads -> Seq(Statement)] /\ Head(todo[t]) = todo[t][1]
      /\ \A b \in Ids : ~todo[t][1].must => Owes(todo[t][1], b) = 0
  BY <1>1, AtHead
<1>3. /\ todo' = [todo EXCEPT ![t] = IF todo[t][1].must THEN << >> ELSE Tail(todo[t])]
      /\ failed' = TRUE /\ owed' = owed /\ wallet' = wallet
  BY <1>2 DEF Fail, Continue, tables
<1>4. CASE todo[t][1].must
  BY <1>1, <1>2, <1>3, <1>4, PaidQuiet
<1>5. CASE ~todo[t][1].must
  BY <1>1, <1>2, <1>3, <1>5, PaidQuiet
<1> QED
  BY <1>4, <1>5

\* After a restart nothing is left to do, and what was owed is lost.
LEMMA CrashPaid ==
  ASSUME AllPaid, Crash
  PROVE  AllPaid'
<1>1. /\ \A t \in Threads : todo'[t] = << >>
      /\ failed' = TRUE /\ owed' = owed /\ wallet' = wallet
  BY DEF Crash, tables
<1>2. ASSUME NEW t \in Threads, NEW b \in Ids
      PROVE  Paid(todo'[t], b, owed'[t][b], failed', DOMAIN wallet')
  <2>1. PICK o \in Nat : o = owed[t][b]
    BY DEF AllPaid
  <2>2. PICK rows : rows = DOMAIN wallet'
    OBVIOUS
  <2>3. Paid(<< >>, b, o, TRUE, rows)
    <3>1. o # 0 => b \in rows
      BY <1>1, <2>1, <2>2 DEF AllPaid, Paid
    <3> QED
      BY <3>1, PaidOver
  <2> QED
    BY <1>1, <2>1, <2>2, <2>3 DEF Paid
<1>3. Ids' = Ids
  BY DEF Ids
<1> QED
  BY <1>1, <1>2, <1>3 DEF AllPaid

LEMMA InitPaid == Init => AllPaid
<1> SUFFICES ASSUME Init PROVE AllPaid
  OBVIOUS
<1>1. /\ owed = [t \in Threads |-> [a \in Ids |-> 0]]
      /\ \A t \in Threads : todo[t] = << >>
  BY DEF Init
<1>2. \A b, lost, rows : Paid(<< >>, b, 0, lost, rows)
  BY PaidOver
<1> QED
  BY <1>1, <1>2 DEF AllPaid

LEMMA NextPaid == AccountsInv /\ AllPaid /\ [Next]_vars => AllPaid'
<1> SUFFICES ASSUME AccountsInv, AllPaid, [Next]_vars PROVE AllPaid'
  OBVIOUS
<1>1. ASSUME NEW t \in Threads, Request(t) PROVE AllPaid'
  BY <1>1, RequestPaid
<1>2. ASSUME NEW t \in Threads,
             \/ Lookup(t) \/ LoginAs(t) \/ InsertRow(t) \/ Answer(t)
             \/ CheckBalance(t) \/ SetProgress(t) \/ RefuseProgress(t)
      PROVE  AllPaid'
  BY <1>2, OthersPaid
<1>3. ASSUME NEW t \in Threads, InsertAccount(t) PROVE AllPaid'
  BY <1>3, InsertAccountPaid
<1>4. ASSUME NEW t \in Threads, ReadProgress(t) PROVE AllPaid'
  BY <1>4, ReadPaid
<1>5. ASSUME NEW t \in Threads, AddTo(t) PROVE AllPaid'
  BY <1>5, AddToPaid
<1>6. ASSUME NEW t \in Threads, AddCharacter(t) PROVE AllPaid'
  BY <1>6, AddCharacterPaid
<1>7. ASSUME NEW t \in Threads, Fail(t) PROVE AllPaid'
  BY <1>7, FailPaid
<1>8. ASSUME Crash PROVE AllPaid'
  BY <1>8, CrashPaid
<1>9. CASE UNCHANGED vars
  <2>1. UNCHANGED <<wallet, todo, owed, failed>>
    BY <1>9 DEF vars, tables, history
  <2> QED
    BY <2>1 DEF AllPaid, Ids
<1> QED
  BY <1>1, <1>2, <1>3, <1>4, <1>5, <1>6, <1>7, <1>8, <1>9, Zenon DEF Next

-----------------------------------------------------------------------------
(* The theorems. *)

\* The tables hold what their columns may, whatever fails and whoever else is
\* at work: an id per name, wallets and characters of accounts that exist
\* (storage/migrations/0001_init.sql, user.Signup), though the GM may name an
\* account that does not: the update of its wallet comes first and is refused.
THEOREM TypeCorrect == Spec => []TypeOK
  <1>1. AccountsInv => TypeOK
    BY DEF AccountsInv
  <1>2. QED
    BY <1>1, AccountsAlways, PTL

\* A balance falls below zero by more than the GM took from it only after two
\* operations of the account were both past the check and before the charge
\* (shop.Purchase, gacha.Open, admin.grantAccount): the check covers the charge
\* as long as it is the only one under way.
THEOREM OverdraftsOverlap == Spec => []OverdraftNeedsOverlap
  <1>1. AccountsInv => OverdraftNeedsOverlap
    BY DEF AccountsInv
  <1>2. QED
    BY <1>1, AccountsAlways, PTL

\* A signup answered as done has left a wallet (user.Signup,
\* accountRepo.Create), and without a failure whoever is logged in has one or
\* is about to get it.
THEOREM SignupsLeaveWallets == Spec => []AnsweredHasWallet
  <1>1. ASSUME AccountsInv PROVE AnsweredHasWallet
    <2>1. made \subseteq DOMAIN wallet
      BY <1>1, OwnersAndMade
    <2>2. ASSUME ~failed, NEW t \in Threads, who[t] \notin {0} \cup DOMAIN wallet
          PROVE  \E u \in Threads : Doing(u, "row") /\ Head(todo[u]).account = who[t]
      <3>1. who[t] \in DOMAIN accounts
        BY <1>1, <2>2, OwnersAndMade
      <3>2. PICK u \in Threads : HeadIs(todo[u], "row", who[t])
        BY <1>1, <2>2, <3>1 DEF AccountsInv, Rows
      <3>3. /\ todo[u] # << >> /\ todo[u][1].op = "row"
            /\ todo[u][1].account = who[t] /\ todo[u] \in Seq(Statement)
        BY <1>1, <3>2 DEF HeadIs, AccountsInv, Plans
      <3>4. QED
        BY <3>3 DEF Doing
    <2>3. QED
      BY <2>1, <2>2 DEF AnsweredHasWallet
  <1>2. QED
    BY <1>1, AccountsAlways, PTL

\* Rounds of an account credited one after the other are all counted
\* (achHook.Increment): what the second statement writes is what the first has
\* read, and nobody wrote in between.
THEOREM CreditsKept == Spec => []CreditsAddUp
  <1>1. AccountsInv => CreditsAddUp
    BY DEF AccountsInv, Credits, CreditsAddUp
  <1>2. QED
    BY <1>1, AccountsAlways, PTL

\* No operation delivers to an account a copy or a draw it has not charged that
\* account for, whatever fails or ends between two statements and whoever else
\* uses the account (shop.Purchase, gacha.Open); and when nothing ever failed,
\* one that is over has delivered all it charged.  What an operation will still
\* charge and deliver is in the statements it has left, and these balance what
\* it owes: it can only be refused while that is nothing.
THEOREM DeliveriesPaid == Spec => []RewardIsPaid
<1>1. ASSUME AllPaid PROVE RewardIsPaid
  <2>1. ASSUME NEW t \in Threads, NEW b \in Ids
        PROVE  owed[t][b] >= 0 /\ (~failed /\ todo[t] = << >> => owed[t][b] = 0)
    <3>1. owed[t][b] \in Nat /\ Paid(todo[t], b, owed[t][b], failed, DOMAIN wallet)
      BY <1>1 DEF AllPaid
    <3>2. ASSUME ~failed, todo[t] = << >> PROVE owed[t][b] = 0
      <4>1. PICK p : p[1] = owed[t][b] /\ p[Len(<< >>) + 1] = 0
        BY <3>1, <3>2 DEF Paid
      <4>2. Len(<< >>) + 1 = 1
        OBVIOUS
      <4> QED
        BY <4>1, <4>2
    <3> QED
      BY <3>1, <3>2
  <2> QED
    BY <2>1 DEF RewardIsPaid
<1>2. AccountsInv /\ AccountsInv' /\ AllPaid /\ [Next]_vars => AllPaid'
  BY NextPaid
<1> QED
  BY <1>1, <1>2, InitPaid, AccountsAlways, PTL DEF Spec
=============================================================================
