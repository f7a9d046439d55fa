------------------------------- MODULE Accounts -------------------------------
(***************************************************************************)
(* Accounts, wallets, characters and achievements: package user over the   *)
(* repositories of package storage, and the operations that use it: signup *)
(* (lobby and GM console), the shop, the lottery, the GM's grant and the   *)
(* credit of a finished round.                                             *)
(*                                                                         *)
(* No operation opens a transaction: each is a sequence of SQL statements, *)
(* run by the goroutine of its connection, request or drive.  A statement  *)
(* is one step here; between two the statements of other goroutines run,   *)
(* any may fail, and the process may end, after which the tables are what  *)
(* the committed statements left.  todo[t] holds the statements that       *)
(* goroutine t has left.                                                   *)
(***************************************************************************)
EXTENDS Integers, SequencesExt

CONSTANTS Threads,      \* connections; the GM and drives use their goroutines
          Names,        \* user names
          Characters,   \* ids the lottery may draw
          Catalog,      \* goods, each with cost, currency and reward in gold
          Allowance,    \* what a new account gets of each currency
          PricePerDraw, \* diamonds
          Grants,       \* amounts the GM grants, negative ones included
          MaxCopies,    \* bound: copies or draws a request asks for
          MaxRequests   \* bound: operations started

Currency == {"gold", "diamond", "ticket"}

ASSUME AccountsAssumption ==
  /\ IsFiniteSet(Names)
  /\ Catalog \subseteq [cost : Nat \ {0}, currency : Currency, reward : Nat]
  /\ Allowance \in [Currency -> Nat]
  /\ PricePerDraw \in Nat \ {0}
  /\ Grants \subseteq [Currency -> Int]
  /\ MaxCopies \in Nat \ {0}
  /\ MaxRequests \in Nat

VARIABLES accounts,   \* names in the order of their ids
          wallet,     \* rows of currencies, by account id
          owned,      \* rows of characters
          progress,   \* the played-game achievement, by account id
          todo,       \* per goroutine, the statements it has left
          who,        \* the account a connection has logged in as, or 0
          requests,   \* operations started
          pooled,     \* operations have run at once: there may be a connection
                      \* to the database other than the one that opened it
          owed,       \* per goroutine and account, the copies or draws that its
                      \* operation has charged and not delivered
          failed,     \* a statement has failed, or the process has ended once
          overlapped, \* accounts with two charges between balance and update
          taken,      \* per account, what GM grants of negative amounts took
          made,       \* accounts whose signup was answered
          credited,   \* per account, rounds credited
          raced       \* accounts with two credits between read and write

tables == <<accounts, wallet, owned, progress>>
history == <<failed, overlapped, taken, made, credited, raced>>
vars == <<tables, todo, who, requests, pooled, owed, history>>

\* The ids a client or the GM may name: those of accounts, and others.
Ids == 1 .. Cardinality(Names) + 1

Init ==
  /\ accounts = << >>
  /\ wallet = [a \in {} |-> Allowance]
  /\ owned = {}
  /\ progress = [a \in Ids |-> 0]
  /\ todo = [t \in Threads |-> << >>]
  /\ who = [t \in Threads |-> 0]
  /\ requests = 0
  /\ pooled = FALSE
  /\ owed = [t \in Threads |-> [a \in Ids |-> 0]]
  /\ failed = FALSE
  /\ overlapped = {}
  /\ taken = [a \in Ids |-> [c \in Currency |-> 0]]
  /\ made = {}
  /\ credited = [a \in Ids |-> 0]
  /\ raced = {}

-----------------------------------------------------------------------------
(* The operations as sequences of statements.  "must" is false where the   *)
(* code drops the error of a statement.                                    *)

Check(a, currency, n) ==
  [op |-> "check", account |-> a, currency |-> currency, n |-> n, must |-> TRUE]
Own(a, ch, copies) ==
  [op |-> "own", account |-> a, char |-> ch, copies |-> copies, must |-> TRUE]
\* An update of a wallet, for which copies of something are charged
\* (negative n) or delivered; without copies, it is a gift or a fine.
Add(a, currency, n, copies) ==
  [op |-> "add", account |-> a, currency |-> currency, n |-> n,
   copies |-> copies, must |-> TRUE]

\* Service.Grant: gold and diamonds if any, and always tickets.
Grant(a, currency, n, copies) ==
  IF currency = "ticket"
  THEN <<Add(a, "ticket", n, copies)>>
  ELSE <<Add(a, currency, n, copies), Add(a, "ticket", 0, 0)>>

\* What Signup does once the account has its id.  The allowances are added
\* whether or not the one before was.
Allowances(a) ==
  [i \in 1 .. 3 |->
     LET c == <<"gold", "diamond", "ticket">>[i]
     IN  [Add(a, c, Allowance[c], 0) EXCEPT !.must = FALSE]]

\* Mutant: the error of the currency row is dropped too.
MakeWalletAnyway(a, visitor) ==
  <<[op |-> "row", account |-> a, must |-> FALSE]>>
  \o Append(Allowances(a),
            [op |-> "answer", account |-> a, visitor |-> visitor, must |-> FALSE])

MakeWallet(a, visitor) ==
  <<[op |-> "row", account |-> a, must |-> TRUE]>>
  \o Append(Allowances(a),
            [op |-> "answer", account |-> a, visitor |-> visitor, must |-> FALSE])

\* A visitor signs up with a token, which is the name of the account.
Signup(name, visitor) ==
  <<[op |-> "lookup", name |-> name, visitor |-> visitor, must |-> TRUE],
    [op |-> "insert", name |-> name, visitor |-> visitor, must |-> TRUE]>>

\* With the right password or token; a wrong one changes nothing.
Login(name) == <<[op |-> "login", name |-> name, must |-> TRUE]>>

\* Mutant: the goods are delivered before they are paid for.
PurchaseOnCredit(a, g, n) ==
  <<Check(a, g.currency, g.cost * n)>>
  \o Grant(a, "gold", g.reward * n, n)
  \o Grant(a, g.currency, -(g.cost * n), n)

\* Mutant: the balance is compared with the price of one copy.
PurchaseOne(a, g, n) ==
  <<Check(a, g.currency, g.cost)>>
  \o Grant(a, g.currency, -(g.cost * n), n)
  \o Grant(a, "gold", g.reward * n, n)

Purchase(a, g, n) ==
  <<Check(a, g.currency, g.cost * n)>>
  \o Grant(a, g.currency, -(g.cost * n), n)
  \o Grant(a, "gold", g.reward * n, n)

\* Open: chars are the characters drawn.
Open(a, chars) ==
  <<Check(a, "diamond", Len(chars) * PricePerDraw)>>
  \o Grant(a, "diamond", -(Len(chars) * PricePerDraw), Len(chars))
  \o [i \in DOMAIN chars |-> Own(a, chars[i], 1)]

Gift(a, currency, n) == IF n = 0 THEN << >> ELSE <<Add(a, currency, n, 0)>>

\* The GM's grant of amounts of any sign, and of characters.
GrantAccount(a, g, chars) ==
  Gift(a, "gold", g["gold"]) \o Gift(a, "diamond", g["diamond"])
  \o <<Add(a, "ticket", g["ticket"], 0)>>
  \o [i \in DOMAIN chars |-> Own(a, chars[i], 0)]

Increment(a) == <<[op |-> "read", account |-> a, must |-> TRUE]>>

\* A client or the GM asks, or a drive has ended.
Start(t, statements) ==
  /\ todo[t] = << >>
  /\ requests < MaxRequests
  /\ todo' = [todo EXCEPT ![t] = statements]
  /\ requests' = requests + 1
  /\ pooled' = (pooled \/ \E u \in Threads : todo[u] # << >>)
  /\ owed' = [owed EXCEPT ![t] = [a \in Ids |-> 0]]
  /\ UNCHANGED <<tables, who, history>>

-----------------------------------------------------------------------------
(* The statements.                                                         *)

Doing(t, op) == todo[t] # << >> /\ Head(todo[t]).op = op

Continue(t, statements) ==
  /\ todo' = [todo EXCEPT ![t] = statements]
  /\ UNCHANGED <<requests, pooled>>

IdOf(name) == CHOOSE a \in DOMAIN accounts : accounts[a] = name

\* SELECT by name: a name that is there ends the operation, with ErrTaken or,
\* for a visitor, with the account of that name, to which it is logged in.
Lookup(t) ==
  LET s == Head(todo[t])
  IN  /\ Doing(t, "lookup")
      /\ IF s.name \in Range(accounts)
         THEN /\ Continue(t, << >>)
              /\ who' = IF s.visitor THEN [who EXCEPT ![t] = IdOf(s.name)] ELSE who
         ELSE Continue(t, Tail(todo[t])) /\ UNCHANGED who
      /\ UNCHANGED <<tables, owed, history>>

\* SELECT by name or token; the update of the login time is dropped when it
\* fails, and SetAccountID comes before the read of the home page.
LoginAs(t) ==
  LET name == Head(todo[t]).name
  IN  /\ Doing(t, "login")
      /\ Continue(t, << >>)
      /\ who' = IF name \in Range(accounts) THEN [who EXCEPT ![t] = IdOf(name)]
                                            ELSE who
      /\ UNCHANGED <<tables, owed, history>>

\* Mutant: the column is not UNIQUE.
InsertAgain(t) ==
  /\ Doing(t, "insert")
  /\ Len(accounts) < Cardinality(Names)
  /\ accounts' = Append(accounts, Head(todo[t]).name)
  /\ Continue(t, MakeWallet(Len(accounts'), Head(todo[t]).visitor))
  /\ UNCHANGED <<wallet, owned, progress, who, owed, history>>

\* INSERT of an account: the column is UNIQUE, the id the next one.
InsertAccount(t) ==
  /\ Doing(t, "insert")
  /\ IF Head(todo[t]).name \in Range(accounts)
     THEN Continue(t, << >>) /\ UNCHANGED accounts
     ELSE /\ accounts' = Append(accounts, Head(todo[t]).name)
          /\ Continue(t, MakeWallet(Len(accounts'), Head(todo[t]).visitor))
  /\ UNCHANGED <<wallet, owned, progress, who, owed, history>>

InsertRow(t) ==
  LET a == Head(todo[t]).account
  IN  /\ Doing(t, "row")
      /\ wallet' = [b \in DOMAIN wallet \cup {a} |->
                      IF b = a THEN [c \in Currency |-> 0] ELSE wallet[b]]
      /\ Continue(t, Tail(todo[t]))
      /\ UNCHANGED <<accounts, owned, progress, who, owed, history>>

Answer(t) ==
  /\ Doing(t, "answer")
  /\ made' = made \cup {Head(todo[t]).account}
  /\ who' = IF Head(todo[t]).visitor THEN [who EXCEPT ![t] = Head(todo[t]).account]
                                     ELSE who
  /\ Continue(t, Tail(todo[t]))
  /\ UNCHANGED <<tables, owed, failed, overlapped, taken, credited, raced>>

\* UPDATE ... SET c = c + n: no row is ErrNotFound, and n may be more than
\* there is.
AddTo(t) ==
  LET s == Head(todo[t])
      a == s.account
  IN  /\ Doing(t, "add")
      /\ IF a \in DOMAIN wallet
         THEN /\ wallet' = [wallet EXCEPT ![a][s.currency] = @ + s.n]
              /\ owed' = [owed EXCEPT ![t][a] = IF s.n < 0 THEN @ + s.copies
                                                           ELSE @ - s.copies]
              /\ taken' = [taken EXCEPT ![a][s.currency] =
                             IF s.n < 0 /\ s.copies = 0 THEN @ - s.n ELSE @]
              /\ Continue(t, Tail(todo[t]))
         ELSE /\ Continue(t, IF s.must THEN << >> ELSE Tail(todo[t]))
              /\ UNCHANGED <<wallet, owed, taken>>
      /\ UNCHANGED <<accounts, owned, progress, who, failed, overlapped, made,
                     credited, raced>>

\* A charge that has passed its check and is not made yet.
Charging(t, a) ==
  todo[t] # << >> /\ LET s == Head(todo[t])
                     IN  /\ s.op = "add" /\ s.account = a
                         /\ s.n < 0 /\ s.copies > 0

\* SELECT of the balance, and the comparison with what is asked for.
CheckBalance(t) ==
  LET s == Head(todo[t])
      a == s.account
  IN  /\ Doing(t, "check")
      /\ IF a \in DOMAIN wallet /\ wallet[a][s.currency] >= s.n
         THEN /\ Continue(t, Tail(todo[t]))
              /\ overlapped' = IF \E u \in Threads : Charging(u, a)
                               THEN overlapped \cup {a} ELSE overlapped
         ELSE Continue(t, << >>) /\ UNCHANGED overlapped
      /\ UNCHANGED <<tables, who, owed, failed, taken, made, credited, raced>>

\* INSERT OR IGNORE of a character.
AddCharacter(t) ==
  LET s == Head(todo[t])
  IN  /\ Doing(t, "own")
      /\ owned' = owned \cup {<<s.account, s.char>>}
      /\ owed' = [owed EXCEPT ![t][s.account] = @ - s.copies]
      /\ Continue(t, Tail(todo[t]))
      /\ UNCHANGED <<accounts, wallet, progress, who, failed, overlapped, taken,
                     made, credited, raced>>

\* Mutant: the progress there was is left out.
ReadNothing(t) ==
  LET a == Head(todo[t]).account
  IN  /\ Doing(t, "read")
      /\ Continue(t, <<[op |-> "set", account |-> a, n |-> 1, must |-> TRUE]>>)
      /\ UNCHANGED <<tables, who, owed, history>>

\* SELECT of the achievements; the sum is made in memory.
ReadProgress(t) ==
  LET a == Head(todo[t]).account
  IN  /\ Doing(t, "read")
      /\ Continue(t, <<[op |-> "set", account |-> a, n |-> progress[a] + 1,
                        must |-> TRUE]>>)
      /\ raced' = IF \E u \in Threads :
                       Doing(u, "set") /\ Head(todo[u]).account = a
                  THEN raced \cup {a} ELSE raced
      /\ UNCHANGED <<tables, who, owed, failed, overlapped, taken, made, credited>>

\* INSERT ... ON CONFLICT DO UPDATE of the progress.  Its row refers to an
\* account, but foreign keys are on in the first connection alone: a statement
\* that gets another writes the row of an account that does not exist.
SetProgress(t) ==
  LET s == Head(todo[t])
  IN  /\ Doing(t, "set")
      /\ s.account \in DOMAIN accounts \/ pooled
      /\ progress' = [progress EXCEPT ![s.account] = s.n]
      /\ credited' = [credited EXCEPT ![s.account] = @ + 1]
      /\ Continue(t, Tail(todo[t]))
      /\ UNCHANGED <<accounts, wallet, owned, who, owed, failed, overlapped, taken,
                     made, raced>>

\* One that gets the first refuses it.
RefuseProgress(t) ==
  /\ Doing(t, "set")
  /\ Head(todo[t]).account \notin DOMAIN accounts
  /\ Continue(t, << >>)
  /\ UNCHANGED <<tables, who, owed, history>>

\* Any statement may fail: the database is locked, the disk is full.
Fail(t) ==
  /\ todo[t] # << >>
  /\ ~Doing(t, "answer")
  /\ Continue(t, IF Head(todo[t]).must THEN << >> ELSE Tail(todo[t]))
  /\ failed' = TRUE
  /\ UNCHANGED <<tables, who, owed, overlapped, taken, made, credited, raced>>

\* The process ends, its connections with it, and is started again.
Crash ==
  /\ \E t \in Threads : todo[t] # << >>
  /\ todo' = [t \in Threads |-> << >>]
  /\ who' = [t \in Threads |-> 0]
  /\ pooled' = FALSE
  /\ failed' = TRUE
  /\ UNCHANGED <<tables, requests, owed, overlapped, taken, made, credited, raced>>

\* What a client asks for is done for the account its connection has logged
\* in as; the GM names any, and so does the client whose session a drive credits.
Request(t) ==
  \/ \E name \in Names : \/ \E visitor \in BOOLEAN : Start(t, Signup(name, visitor))
                         \/ Start(t, Login(name))
  \/ /\ who[t] # 0
     /\ \/ \E g \in Catalog, n \in 1 .. MaxCopies : Start(t, Purchase(who[t], g, n))
        \/ \E n \in 1 .. MaxCopies : \E chars \in [1 .. n -> Characters] :
             Start(t, Open(who[t], chars))
  \/ \E a \in Ids :
       \/ \E g \in Grants : \E chars \in {<< >>} \cup {<<ch>> : ch \in Characters} :
            Start(t, GrantAccount(a, g, chars))
       \/ Start(t, Increment(a))

Next ==
  \/ \E t \in Threads :
       \/ Request(t)
       \/ Lookup(t) \/ LoginAs(t) \/ InsertAccount(t) \/ InsertRow(t) \/ Answer(t)
       \/ AddTo(t) \/ CheckBalance(t) \/ AddCharacter(t)
       \/ ReadProgress(t) \/ SetProgress(t) \/ RefuseProgress(t)
       \/ Fail(t)
  \/ Crash

Spec == Init /\ [][Next]_vars

-----------------------------------------------------------------------------
(* Properties.                                                             *)

\* The tables hold what their columns may: an id per name, wallets and
\* characters of accounts that exist (storage/migrations/0001_init.sql).
TypeOK ==
  /\ accounts \in Seq(Names)
  /\ IsInjective(accounts)
  /\ DOMAIN wallet \subseteq DOMAIN accounts
  /\ \A a \in DOMAIN wallet : wallet[a] \in [Currency -> Int]
  /\ owned \subseteq (DOMAIN accounts) \X Characters
  /\ progress \in [Ids -> Nat]
  /\ overlapped \cup made \subseteq DOMAIN accounts
  /\ taken \in [Ids -> [Currency -> Nat]]
  /\ pooled \in BOOLEAN
  /\ raced \subseteq Ids
  /\ who \in [Threads -> {0} \cup DOMAIN accounts]

\* No operation delivers to an account a copy or a draw it has not charged that
\* account for, whatever fails or ends between two statements and whoever else
\* uses the account (shop.Purchase, gacha.Open); and when nothing ever failed,
\* one that is over has delivered all it charged.
RewardIsPaid ==
  \A t \in Threads, a \in Ids :
    /\ owed[t][a] >= 0
    /\ ~failed /\ todo[t] = << >> => owed[t][a] = 0

\* A balance falls below zero by more than the GM took from it only when two
\* operations of the account were both past the check and before the charge: one
\* at a time never spends more than there is, except for what the GM takes after
\* its check (shop.Purchase, gacha.Open, admin.grantAccount).
OverdraftNeedsOverlap ==
  \A a \in DOMAIN wallet \ overlapped :
    \A c \in Currency : wallet[a][c] >= -taken[a][c]

\* A signup that was answered as done has left a wallet, though its statements
\* fail one by one and three of them unnoticed (user.Signup,
\* accountRepo.Create): without the row every later grant would be refused.
\* A connection may be logged in to an account without one, for a login and a
\* visitor's signup ask for the name alone; but unless something failed, the
\* signup that makes the account is then about to insert the row.
AnsweredHasWallet ==
  /\ made \subseteq DOMAIN wallet
  /\ ~failed => \A t \in Threads :
       who[t] \in {0} \cup DOMAIN wallet
       \/ \E u \in Threads : Doing(u, "row") /\ Head(todo[u]).account = who[t]

\* Rounds credited one after the other are all counted (achHook.Increment);
\* only two drives of one account that end together lose one.
CreditsAddUp == \A a \in Ids \ raced : progress[a] = credited[a]

\* No account spends diamonds it does not have: Charge must fail when the
\* balance is insufficient (gacha.go).
NoOverdraft ==
  \A a \in DOMAIN wallet : wallet[a]["diamond"] >= -taken[a]["diamond"]
=============================================================================
