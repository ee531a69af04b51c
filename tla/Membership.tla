---------------------------- MODULE Membership ----------------------------
(***************************************************************************)
(* The accounts of a library: registered under AUTH_MODE=local, made by an *)
(* admin as test accounts, or made and kept in step with a directory (LDAP *)
(* or a proxy's headers) each time its identity signs in; who is an admin  *)
(* and who sets an address.                                                *)
(*                                                                         *)
(* A request reads the accounts, and then writes the columns that differ   *)
(* from what it read in one commit, which a name that is taken refuses.    *)
(* The configuration changes by a restart.  A name is a number: the names  *)
(* _free_username tries for it, in turn, are the numbers after it.         *)
(*                                                                         *)
(* Left out: names a column cannot hold, which are refused before anything *)
(* is read; passwords, confirmations and sessions (module Accounts); how a *)
(* directory is asked.                                                     *)
(***************************************************************************)
EXTENDS Naturals, FiniteSets, FiniteSetsExt, FiniteSetTheorems, TLAPS

CONSTANTS
  Procs,        \* threads that serve requests
  MaxName,      \* bound on the names
  MaxId,        \* bound on the accounts
  MaxRestarts   \* bound on the restarts

MembershipAssumption == MaxName \in Nat /\ MaxId \in Nat

VARIABLES
  users,     \* [Ids -> the row of users, or Absent]
  config,    \* AUTH_MODE, whether an admin group is set, and whether the
             \* directory owns addresses
  req,       \* [Procs -> the request it serves]
  told,      \* [Ids -> the address the directory last gave, or "unheard"]
  grouped,   \* whether an admin group was ever set
  restarts,
  overlap    \* whether requests overlap or take turns

vars == <<users, config, req, told, grouped, restarts, overlap>>

Ids == 1 .. MaxId
Names == 1 .. MaxName
Emails == {"none", "typed", "directory"}

Absent == [name |-> 0, admin |-> FALSE, source |-> "none", test |-> FALSE,
           email |-> "none", password |-> FALSE]
User == [name : Names, admin : BOOLEAN, source : {"local", "directory"},
         test : BOOLEAN, email : Emails, password : BOOLEAN]
Present == {i \in Ids : users[i] # Absent}

(* `set` holds the columns to write, by id; `new` the row to insert.       *)
Idle == [set |-> <<>>, new |-> Absent, gave |-> "unheard", busy |-> FALSE]
Request == [Idle EXCEPT !.busy = TRUE]

Free(p) == ~ req[p].busy /\ (overlap \/ \A q \in Procs : ~ req[q].busy)

Begin(p, r) ==
  /\ req' = [req EXCEPT ![p] = r]
  /\ UNCHANGED <<users, config, told, grouped, restarts, overlap>>

(* The columns of row i that `new` changes. *)
Dirty(i, new) == [f \in {g \in DOMAIN new : new[g] # users[i][g]} |-> new[f]]

Named(n) == {i \in Present : users[i].name = n}

----------------------------------------------------------------------------
(* Registration, and test accounts *)

FirstAccount == Present = {}

ReadRegister(p, n, e) ==
  /\ Free(p) /\ config.mode = "local" /\ Named(n) = {}
  /\ Begin(p, [Request EXCEPT !.new =
       [name |-> n, admin |-> FirstAccount, source |-> "local", test |-> FALSE,
        email |-> e, password |-> TRUE]])

ReadTestAccount(p, n) ==
  /\ Free(p) /\ Named(n) = {} /\ \E i \in Present : users[i].admin
  /\ Begin(p, [Request EXCEPT !.new =
       [name |-> n, admin |-> FALSE, source |-> "local", test |-> TRUE,
        email |-> "none", password |-> TRUE]])

----------------------------------------------------------------------------
(* upsert_directory_user *)

(* _free_username *)
FreeName(n) == Min({m \in n + 1 .. MaxName + 1 : Named(m) = {}})

(* The row that is the identity's own: never a test account.              *)
Adopted(n) == {i \in Named(n) : ~ users[i].test}

(* The first account is an admin, and nobody is demoted while no group is *)
(* set to be demoted on.                                                   *)
Rights(inGroup, own) ==
  \/ config.group /\ inGroup
  \/ FirstAccount
  \/ ~ config.group /\ \E i \in own : users[i].admin

(* directory_owns_email *)
Owned(source) == source = "directory" /\ config.owns

ReadSignIn(p, n, inGroup, e) ==
  LET own == Adopted(n)
      aside == Named(n) \ own
      asserted == IF config.owns THEN e ELSE "none"
  IN
  /\ Free(p) /\ config.mode = "directory"
  /\ aside # {} => FreeName(n) <= MaxName
  /\ Begin(p, [Request EXCEPT
       !.set = [i \in own \cup aside |->
                  IF i \in aside THEN [name |-> FreeName(n)]
                  ELSE Dirty(i, [users[i] EXCEPT
                         !.admin = Rights(inGroup, own), !.source = "directory",
                         !.email = IF config.owns THEN e ELSE @])],
       !.new = IF own # {} THEN Absent
               ELSE [name |-> n, admin |-> Rights(inGroup, own), source |-> "directory",
                     test |-> FALSE, email |-> asserted, password |-> FALSE],
       !.gave = IF config.owns THEN e ELSE "unheard"])

----------------------------------------------------------------------------
(* An address set by the member, or by an admin *)

(* _refuse_if_the_directory_owns_it *)
MayEdit(i) == ~ Owned(users[i].source)

ReadSetEmail(p, i, e) ==
  /\ Free(p) /\ i \in Present /\ MayEdit(i)
  /\ Begin(p, [Request EXCEPT !.set = [j \in {i} |-> Dirty(i, [users[i] EXCEPT !.email = e])]])

----------------------------------------------------------------------------
NextId == 1 + Max({0} \cup Present)

Written(r) ==
  [i \in Ids |->
     IF i \in DOMAIN r.set
     THEN [f \in DOMAIN users[i] |-> IF f \in DOMAIN r.set[i] THEN r.set[i][f] ELSE users[i][f]]
     ELSE IF r.new # Absent /\ i = NextId THEN r.new
     ELSE users[i]]

(* users.username is unique: a commit that breaks it is refused whole. *)
Accepted(table) ==
  \A i, j \in Ids : table[i] # Absent /\ table[i].name = table[j].name => i = j

(* Whose row a sign-in wrote or made. *)
SignedIn(r) == IF r.new # Absent THEN NextId
               ELSE CHOOSE i \in DOMAIN r.set : DOMAIN r.set[i] # {"name"}

Commit(p) ==
  LET r == req[p] IN
  /\ r.busy
  /\ r.new # Absent => NextId \in Ids
  /\ req' = [req EXCEPT ![p] = Idle]
  /\ IF Accepted(Written(r))
     THEN /\ users' = Written(r)
          /\ told' = IF r.gave = "unheard" THEN told ELSE [told EXCEPT ![SignedIn(r)] = r.gave]
     ELSE UNCHANGED <<users, told>>
  /\ UNCHANGED <<config, grouped, restarts, overlap>>

(* The requests in flight are gone, and what the directory said before is  *)
(* no promise under another configuration.                                 *)
Restart(c) ==
  /\ restarts < MaxRestarts
  /\ config' = c /\ restarts' = restarts + 1
  /\ grouped' = (grouped \/ c.group)
  /\ req' = [p \in Procs |-> Idle] /\ told' = [i \in Ids |-> "unheard"]
  /\ UNCHANGED <<users, overlap>>

Configs == [mode : {"local", "directory"}, group : BOOLEAN, owns : BOOLEAN]

Init ==
  /\ users = [i \in Ids |-> Absent] /\ config \in Configs
  /\ req = [p \in Procs |-> Idle] /\ told = [i \in Ids |-> "unheard"]
  /\ grouped = config.group /\ restarts = 0 /\ overlap \in BOOLEAN

Next ==
  \/ \E p \in Procs, n \in Names, e \in {"none", "typed"} : ReadRegister(p, n, e)
  \/ \E p \in Procs, n \in Names : ReadTestAccount(p, n)
  \/ \E p \in Procs, n \in Names, g \in BOOLEAN, e \in {"none", "directory"} : ReadSignIn(p, n, g, e)
  \/ \E p \in Procs, i \in Ids, e \in {"none", "typed"} : ReadSetEmail(p, i, e)
  \/ \E p \in Procs : Commit(p)
  \/ \E c \in Configs : Restart(c)

Spec == Init /\ [][Next]_vars

----------------------------------------------------------------------------
(* Properties *)

(* Rows are accounts, and no two have one name. *)
TypeOK ==
  /\ \A i \in Present : users[i] \in User
  /\ \A i, j \in Present : users[i].name = users[j].name => i = j
  /\ config \in Configs /\ told \in [Ids -> Emails \cup {"unheard"}]

(* is_switch_target: a test account stays one an admin may switch to, no   *)
(* member's and no admin, whatever name a directory signs in with.         *)
TestAccountsAreTargets ==
  \A i \in Present : users[i].test =>
    ~ users[i].admin /\ users[i].source = "local" /\ users[i].password

(* While no admin group was ever set, a library with accounts has an       *)
(* admin, whatever modes it was started in.                                *)
SomebodyAdministers ==
  ~ grouped /\ Present # {} => \E i \in Present : users[i].admin

(* Where the directory owns addresses, a member's is the one it last gave. *)
OwnedIsAsserted ==
  ~ overlap /\ config.owns =>
    \A i \in Present : told[i] # "unheard" => users[i].email = told[i]
----------------------------------------------------------------------------
(* Proofs: for any number of threads, names and accounts. *)

RowsOf(table) == {i \in Ids : table[i] # Absent}

(* What may be written to the columns of a row: never the mark of a test   *)
(* account, whose rights and origin stay what they are; and nobody is      *)
(* demoted while there is no group.                                        *)
Change(c, row, group) ==
  /\ DOMAIN c \subseteq {"name", "admin", "source", "email"}
  /\ "name" \in DOMAIN c => c["name"] \in Names
  /\ "admin" \in DOMAIN c => c["admin"] \in BOOLEAN /\ ~ row.test /\ (group \/ c["admin"])
  /\ "source" \in DOMAIN c => c["source"] = "directory" /\ ~ row.test
  /\ "email" \in DOMAIN c => c["email"] \in Emails

AsTarget(row) == row.test => ~ row.admin /\ row.source = "local" /\ row.password

Insert(row, first) ==
  row # Absent => row \in User /\ AsTarget(row) /\ (first => row.admin)

RequestFine(r, table, group) ==
  /\ DOMAIN r.set \subseteq RowsOf(table)
  /\ \A i \in DOMAIN r.set : Change(r.set[i], table[i], group)
  /\ Insert(r.new, RowsOf(table) = {})
  /\ r.gave \in Emails \cup {"unheard"}

(* What a request that read the rows as they are will leave a member's     *)
(* address at.                                                             *)
ReadNow(r, table, owns) ==
  IF r.gave = "unheard"
  THEN \A i \in DOMAIN r.set :
         owns /\ "email" \in DOMAIN r.set[i] => table[i].source # "directory"
  ELSE IF r.new # Absent
  THEN /\ r.new.email = r.gave /\ r.new.source = "directory"
       /\ \A i \in DOMAIN r.set : "email" \notin DOMAIN r.set[i]
  ELSE \E i \in Ids :
         LET c == r.set[i] IN
         /\ DOMAIN r.set = {i} /\ DOMAIN c # {"name"}
         /\ IF "email" \in DOMAIN c THEN c["email"] = r.gave ELSE table[i].email = r.gave
         /\ "source" \in DOMAIN c \/ table[i].source = "directory"

Roll(table) ==
  /\ table \in [Ids -> User \cup {Absent}]
  /\ \A i, j \in RowsOf(table) : table[i].name = table[j].name => i = j
  /\ \A i \in RowsOf(table) : AsTarget(table[i])

TypeInv ==
  /\ Roll(users)
  /\ config \in Configs /\ told \in [Ids -> Emails \cup {"unheard"}]
  /\ DOMAIN req = Procs

RequestsInv == \A p \in Procs : RequestFine(req[p], users, config.group)

AdminInv ==
  /\ config.group => grouped
  /\ ~ grouped /\ RowsOf(users) # {} => \E i \in RowsOf(users) : users[i].admin

(* Where requests take turns, one writes what it read. *)
Asserted(table, said, owns) ==
  \A i \in Ids : said[i] # "unheard" =>
    /\ i \in RowsOf(table) /\ table[i].source = "directory"
    /\ owns => table[i].email = said[i]

AssertedInv ==
  ~ overlap =>
    /\ \A p, q \in Procs : p # q => ~ req[p].busy \/ ~ req[q].busy
    /\ \A p \in Procs : req[p].busy => ReadNow(req[p], users, config.owns)
    /\ Asserted(users, told, config.owns)

IInv == TypeInv /\ RequestsInv /\ AdminInv /\ AssertedInv

Columns == {"name", "admin", "source", "test", "email", "password"}

LEMMA Least ==
  ASSUME NEW S, S \subseteq Nat, S # {} PROVE \E x \in S : \A y \in S : x <= y
<1> DEFINE R == OpToRel(<, Nat)
<1>1. IsWellFoundedOn(R, Nat)
  BY NatLessThanWellFounded
<1>2. \A x, y \in Nat : x < y => <<x, y>> \in R
  BY DEF OpToRel
<1> HIDE DEF R
<1>3. PICK x \in S : \A y \in S : ~ (<<y, x>> \in R)
  BY <1>1, WFMin
<1>4. ASSUME NEW y \in S PROVE x <= y
  <2>1. ~ (y < x)
    BY <1>2, <1>3
  <2> QED BY <2>1
<1> QED BY <1>4

LEMMA AbsentIsNoUser == Absent \notin User
BY DEF Absent, User, Names

LEMMA UserColumns ==
  ASSUME NEW u \in User
  PROVE  /\ DOMAIN u = Columns /\ u = [f \in Columns |-> u[f]]
         /\ u.name \in Names /\ u.admin \in BOOLEAN /\ u.source \in {"local", "directory"}
         /\ u.test \in BOOLEAN /\ u.email \in Emails /\ u.password \in BOOLEAN
BY DEF User, Columns

LEMMA ColumnsMakeUser ==
  ASSUME NEW u, u = [f \in Columns |-> u[f]],
         u.name \in Names, u.admin \in BOOLEAN, u.source \in {"local", "directory"},
         u.test \in BOOLEAN, u.email \in Emails, u.password \in BOOLEAN
  PROVE  u \in User
BY DEF User, Columns

(* The id an insert gets is no row's. *)
LEMMA NextIdIsNew == ASSUME MembershipAssumption PROVE NextId \notin Present
<1> DEFINE Taken == {0} \cup Present
           Bounds == {m \in Nat : \A i \in Taken : i <= m}
<1>1. Taken \subseteq Nat /\ MaxId \in Bounds
  BY DEF MembershipAssumption, Present, Ids
<1>2. PICK x \in Bounds : \A y \in Bounds : x <= y
  BY <1>1, Least
<1>3. x \in Taken
  <2>1. CASE x = 0
    BY <2>1
  <2>2. CASE x # 0
    <3>1. x - 1 \in Nat /\ x - 1 \notin Bounds
      BY <1>2, <2>2
    <3>2. PICK i \in Taken : ~ (i <= x - 1)
      BY <3>1
    <3>3. i = x
      BY <1>1, <1>2, <3>1, <3>2
    <3> QED BY <3>2, <3>3
  <2> QED BY <2>1, <2>2
<1>4. \A y \in Taken : x >= y
  BY <1>1, <1>2
<1>5. Max(Taken) \in Taken /\ \A y \in Taken : Max(Taken) >= y
  BY <1>3, <1>4 DEF Max
<1>6. NextId = 1 + Max(Taken)
  BY DEF NextId
<1>7. ASSUME NextId \in Present PROVE FALSE
  <2>1. NextId \in Taken
    BY <1>7
  <2> HIDE DEF Taken
  <2>2. Max(Taken) \in Nat /\ Max(Taken) >= NextId
    BY <1>1, <1>5, <2>1
  <2> QED BY <1>6, <2>2
<1> QED BY <1>7

(* A name that is moved to is a name, and nobody's. *)
LEMMA FreeNameIsName ==
  ASSUME MembershipAssumption, TypeInv, NEW n \in Names, FreeName(n) <= MaxName
  PROVE  FreeName(n) \in Names
<1> DEFINE Left == {m \in n + 1 .. MaxName + 1 : Named(m) = {}}
<1>1. MaxName + 1 \in Left
  <2>1. \A i \in Present : users[i] \in User
    BY DEF TypeInv, Roll, Present
  <2>2. \A i \in Present : users[i].name \in 1 .. MaxName
    BY <2>1, UserColumns DEF Names
  <2>3. Named(MaxName + 1) = {}
    BY <2>2 DEF Named, MembershipAssumption
  <2> QED BY <2>3 DEF Names, MembershipAssumption
<1>2. Left \subseteq Nat
  BY DEF Names, MembershipAssumption
<1>3. \E x \in Left : \A y \in Left : x <= y
  BY <1>1, <1>2, Least
<1>4. FreeName(n) \in Left
  BY <1>3 DEF FreeName, Min
<1>5. Left \subseteq n + 1 .. MaxName + 1
  OBVIOUS
<1>6. FreeName(n) \in n + 1 .. MaxName + 1
  BY <1>4, <1>5
<1> QED BY <1>6 DEF Names, MembershipAssumption

(* What a commit writes, column by column. *)
LEMMA WrittenRows ==
  ASSUME MembershipAssumption, TypeInv, NEW r, RequestFine(r, users, config.group),
         r.new # Absent => NextId \in Ids
  PROVE  /\ Written(r) \in [Ids -> User \cup {Absent}]
         /\ \A i \in DOMAIN r.set :
              LET c == r.set[i] w == Written(r)[i] IN
              /\ i \in Present /\ w \in User
              /\ w.test = users[i].test /\ w.password = users[i].password
              /\ w.admin = IF "admin" \in DOMAIN c THEN c["admin"] ELSE users[i].admin
              /\ w.source = IF "source" \in DOMAIN c THEN c["source"] ELSE users[i].source
              /\ w.email = IF "email" \in DOMAIN c THEN c["email"] ELSE users[i].email
         /\ r.new # Absent => NextId \notin Present /\ Written(r)[NextId] = r.new
         /\ \A i \in Ids \ DOMAIN r.set :
              r.new = Absent \/ i # NextId => Written(r)[i] = users[i]
<1>0. /\ users \in [Ids -> User \cup {Absent}] /\ DOMAIN r.set \subseteq Present
      /\ NextId \notin Present
  BY NextIdIsNew DEF TypeInv, Roll, RequestFine, RowsOf, Present
<1>1. ASSUME NEW i \in DOMAIN r.set
      PROVE  LET c == r.set[i] w == Written(r)[i] IN
              /\ i \in Present /\ w \in User
              /\ w.test = users[i].test /\ w.password = users[i].password
              /\ w.admin = IF "admin" \in DOMAIN c THEN c["admin"] ELSE users[i].admin
              /\ w.source = IF "source" \in DOMAIN c THEN c["source"] ELSE users[i].source
              /\ w.email = IF "email" \in DOMAIN c THEN c["email"] ELSE users[i].email
  <2> DEFINE c == r.set[i]
             w == Written(r)[i]
             u == users[i]
  <2>1. i \in Ids /\ i \in Present /\ u \in User
    BY <1>0 DEF Present
  <2>2. DOMAIN u = Columns
    BY <2>1, UserColumns
  <2>3. w = [f \in Columns |-> IF f \in DOMAIN c THEN c[f] ELSE u[f]]
    BY <2>1, <2>2 DEF Written
  <2>4. Change(c, u, config.group)
    BY DEF RequestFine
  <2> HIDE DEF c, w, u
  <2>5. /\ w = [f \in Columns |-> w[f]]
        /\ w.test = u.test /\ w.password = u.password
        /\ w.name = IF "name" \in DOMAIN c THEN c["name"] ELSE u.name
        /\ w.admin = IF "admin" \in DOMAIN c THEN c["admin"] ELSE u.admin
        /\ w.source = IF "source" \in DOMAIN c THEN c["source"] ELSE u.source
        /\ w.email = IF "email" \in DOMAIN c THEN c["email"] ELSE u.email
    BY <2>3, <2>4 DEF Columns, Change
  <2>6. /\ w.name \in Names /\ w.admin \in BOOLEAN /\ w.source \in {"local", "directory"}
        /\ w.test \in BOOLEAN /\ w.email \in Emails /\ w.password \in BOOLEAN
    BY <2>1, <2>4, <2>5, UserColumns DEF Change
  <2>7. w \in User
    BY <2>5, <2>6, ColumnsMakeUser
  <2> QED BY <2>1, <2>5, <2>7 DEF c, w, u
<1>2. r.new # Absent => r.new \in User /\ NextId \in Ids /\ Written(r)[NextId] = r.new
  BY <1>0 DEF RequestFine, Insert, Written
<1>3. \A i \in Ids \ DOMAIN r.set :
        r.new = Absent \/ i # NextId => Written(r)[i] = users[i]
  BY DEF Written
<1>4. \A i \in Ids : Written(r)[i] \in User \cup {Absent}
  BY <1>0, <1>1, <1>2, <1>3
<1>5. Written(r) = [i \in Ids |-> Written(r)[i]]
  BY DEF Written
<1>6. Written(r) \in [Ids -> User \cup {Absent}]
  BY <1>4, <1>5
<1> QED BY <1>0, <1>1, <1>2, <1>3, <1>6

LEMMA RowsArePresent == RowsOf(users) = Present
BY DEF RowsOf, Present

LEMMA Initially ==
  /\ Request.set = <<>> /\ DOMAIN Request.set = {} /\ Request.new = Absent
  /\ Request.gave = "unheard" /\ Request.busy = TRUE /\ ~ Idle.busy
  /\ Idle.set = <<>> /\ DOMAIN Idle.set = {} /\ Idle.new = Absent /\ Idle.gave = "unheard"
BY DEF Request, Idle

(* What is dirty of an account that keeps its name, and its test mark.     *)
LEMMA DirtyIsChange ==
  ASSUME TypeInv, NEW i \in Present, NEW new \in User,
         new.name = users[i].name, new.test = users[i].test, new.password = users[i].password,
         new.source \in {users[i].source, "directory"},
         users[i].test => new.admin = users[i].admin /\ new.source = users[i].source,
         config.group \/ new.admin \/ new.admin = users[i].admin
  PROVE  LET c == Dirty(i, new) IN
         /\ Change(c, users[i], config.group) /\ "name" \notin DOMAIN c
         /\ IF "email" \in DOMAIN c THEN c["email"] = new.email /\ new.email # users[i].email
                                    ELSE users[i].email = new.email
         /\ "source" \in DOMAIN c \/ users[i].source = new.source
<1> DEFINE c == Dirty(i, new)
           u == users[i]
<1>1. u \in User
  BY DEF TypeInv, Roll, Present
<1>2. DOMAIN new = Columns
  BY UserColumns
<1>3. DOMAIN c = {g \in Columns : new[g] # u[g]} /\ \A g \in DOMAIN c : c[g] = new[g]
  BY <1>2 DEF Dirty
<1>4. /\ new.admin \in BOOLEAN /\ new.source \in {"local", "directory"} /\ new.email \in Emails
      /\ u.admin \in BOOLEAN
  BY <1>1, UserColumns
<1> HIDE DEF c, u
<1>5. /\ new.name = u.name /\ new.test = u.test /\ new.password = u.password
      /\ new.source \in {u.source, "directory"}
      /\ u.test => new.admin = u.admin /\ new.source = u.source
      /\ config.group \/ new.admin \/ new.admin = u.admin
  BY DEF u
<1>6. DOMAIN c \subseteq {"admin", "source", "email"}
  BY <1>3, <1>5 DEF Columns
<1>7. /\ "admin" \in DOMAIN c => c["admin"] = new.admin /\ new.admin # u.admin
      /\ "source" \in DOMAIN c => c["source"] = new.source /\ new.source # u.source
      /\ "email" \in DOMAIN c => c["email"] = new.email /\ new.email # u.email
      /\ "source" \notin DOMAIN c => new.source = u.source
      /\ "email" \notin DOMAIN c => new.email = u.email
  BY <1>3 DEF Columns
<1>8. Change(c, u, config.group)
  BY <1>4, <1>5, <1>6, <1>7 DEF Change
<1> QED BY <1>6, <1>7, <1>8 DEF c, u

LEMMA RegisterReads ==
  ASSUME TypeInv, NEW p \in Procs, NEW n \in Names, NEW e \in {"none", "typed"},
         ReadRegister(p, n, e) \/ ReadTestAccount(p, n)
  PROVE  \E r : /\ req' = [req EXCEPT ![p] = r] /\ Free(p)
                /\ RequestFine(r, users, config.group) /\ ReadNow(r, users, config.owns)
<1> DEFINE made(admin, test, email) ==
      [name |-> n, admin |-> admin, source |-> "local", test |-> test, email |-> email,
       password |-> TRUE]
           r(row) == [Request EXCEPT !.new = row]
<1>1. ASSUME NEW row, Insert(row, Present = {})
      PROVE  RequestFine(r(row), users, config.group) /\ ReadNow(r(row), users, config.owns)
  <2> DEFINE rr == r(row)
  <2>1. DOMAIN rr.set = {} /\ rr.new = row /\ rr.gave = "unheard"
    BY Initially DEF Request, Idle
  <2> HIDE DEF rr
  <2>2. RequestFine(rr, users, config.group)
    BY <1>1, <2>1, RowsArePresent DEF RequestFine
  <2>3. ReadNow(rr, users, config.owns)
    BY <2>1 DEF ReadNow
  <2> QED BY <2>2, <2>3 DEF rr
<1>2. ASSUME ReadRegister(p, n, e)
      PROVE  /\ req' = [req EXCEPT ![p] = r(made(FirstAccount, FALSE, e))] /\ Free(p)
             /\ Insert(made(FirstAccount, FALSE, e), Present = {})
  <2>1. made(FirstAccount, FALSE, e) \in User
    BY DEF User, Emails, FirstAccount
  <2> QED BY <1>2, <2>1 DEF ReadRegister, Begin, Insert, AsTarget, FirstAccount
<1>3. ASSUME ReadTestAccount(p, n)
      PROVE  /\ req' = [req EXCEPT ![p] = r(made(FALSE, TRUE, "none"))] /\ Free(p)
             /\ Insert(made(FALSE, TRUE, "none"), Present = {})
  <2>1. made(FALSE, TRUE, "none") \in User
    BY DEF User, Emails
  <2>2. Present # {}
    BY <1>3 DEF ReadTestAccount
  <2> QED BY <1>3, <2>1, <2>2 DEF ReadTestAccount, Begin, Insert, AsTarget
<1> HIDE DEF r, made
<1> QED BY <1>1, <1>2, <1>3

LEMMA SetEmailReads ==
  ASSUME TypeInv, NEW p \in Procs, NEW i \in Ids, NEW e \in {"none", "typed"},
         ReadSetEmail(p, i, e)
  PROVE  \E r : /\ req' = [req EXCEPT ![p] = r] /\ Free(p)
                /\ RequestFine(r, users, config.group) /\ ReadNow(r, users, config.owns)
<1> DEFINE new == [users[i] EXCEPT !.email = e]
           c == Dirty(i, new)
           r == [Request EXCEPT !.set = [j \in {i} |-> c]]
<1>1. i \in Present /\ MayEdit(i) /\ Free(p) /\ req' = [req EXCEPT ![p] = r]
  BY DEF ReadSetEmail, Begin
<1>2. users[i] \in User
  BY <1>1 DEF TypeInv, Roll, Present
<1>3. /\ new \in User /\ new.name = users[i].name /\ new.test = users[i].test
      /\ new.password = users[i].password /\ new.source = users[i].source
      /\ new.admin = users[i].admin
  BY <1>2 DEF User, Emails
<1> HIDE DEF new
<1>4. Change(c, users[i], config.group)
  BY <1>1, <1>3, DirtyIsChange
<1>5. DOMAIN r.set = {i} /\ r.set[i] = c /\ r.new = Absent /\ r.gave = "unheard"
  BY DEF Request, Idle
<1> HIDE DEF r, c
<1>6. RequestFine(r, users, config.group)
  BY <1>1, <1>4, <1>5, RowsArePresent DEF RequestFine, Insert
<1>7. ReadNow(r, users, config.owns)
  BY <1>1, <1>5 DEF ReadNow, MayEdit, Owned
<1> QED BY <1>1, <1>6, <1>7

LEMMA SignInReads ==
  ASSUME MembershipAssumption, TypeInv, NEW p \in Procs, NEW n \in Names, NEW inGroup \in BOOLEAN,
         NEW e \in {"none", "directory"}, ReadSignIn(p, n, inGroup, e)
  PROVE  \E r : /\ req' = [req EXCEPT ![p] = r] /\ Free(p)
                /\ RequestFine(r, users, config.group) /\ ReadNow(r, users, config.owns)
<1> DEFINE own == Adopted(n)
           aside == Named(n) \ own
           rights == Rights(inGroup, own)
           new(i) == [users[i] EXCEPT !.admin = rights, !.source = "directory",
                                      !.email = IF config.owns THEN e ELSE @]
           set == [i \in own \cup aside |->
                     IF i \in aside THEN [name |-> FreeName(n)] ELSE Dirty(i, new(i))]
           made == IF own # {} THEN Absent
                   ELSE [name |-> n, admin |-> rights, source |-> "directory", test |-> FALSE,
                         email |-> IF config.owns THEN e ELSE "none", password |-> FALSE]
           gave == IF config.owns THEN e ELSE "unheard"
           r == [Request EXCEPT !.set = set, !.new = made, !.gave = gave]
<1>1. /\ Free(p) /\ req' = [req EXCEPT ![p] = r]
      /\ aside # {} => FreeName(n) <= MaxName
  BY DEF ReadSignIn, Begin
<1>2. r.set = set /\ r.new = made /\ r.gave = gave
  BY DEF Request, Idle
<1>3. rights \in BOOLEAN /\ (Present = {} => rights)
      /\ (~ config.group => \A i \in own : users[i].admin => rights)
  BY DEF Rights, FirstAccount
<1>4. \A i \in own : i \in Present /\ users[i].name = n /\ users[i] \in User /\ ~ users[i].test
  BY DEF Adopted, Named, TypeInv, Roll, Present
<1>5. \A i \in aside : i \in Present /\ users[i].name = n
  BY DEF Named
<1>6. \A i \in own, j \in own \cup aside : i = j
  BY <1>4, <1>5, RowsArePresent DEF TypeInv, Roll
<1>7. config.owns \in BOOLEAN /\ e \in Emails /\ e # "unheard" /\ "none" \in Emails
  BY DEF TypeInv, Configs, Emails
<1>8. DOMAIN set = own \cup aside
      /\ (\A i \in aside : set[i] = [name |-> FreeName(n)])
      /\ \A i \in own : set[i] = Dirty(i, new(i))
  OBVIOUS
<1> HIDE DEF r, set, rights
<1>9. ASSUME NEW i \in own
      PROVE  LET c == set[i] IN
             /\ Change(c, users[i], config.group) /\ "name" \notin DOMAIN c
             /\ config.owns => IF "email" \in DOMAIN c THEN c["email"] = e ELSE users[i].email = e
             /\ "source" \in DOMAIN c \/ users[i].source = "directory"
  <2> DEFINE w == new(i)
             u == users[i]
  <2>1. u \in User /\ i \in Present /\ ~ u.test
    BY <1>4
  <2>2. w \in User /\ w.name = u.name /\ w.test = u.test /\ w.password = u.password
        /\ w.source = "directory" /\ w.admin = rights /\ (config.owns => w.email = e)
    BY <1>3, <1>7, <2>1 DEF User
  <2>3. config.group \/ w.admin \/ w.admin = u.admin
    <3>1. u.admin \in BOOLEAN
      BY <2>1, UserColumns
    <3> QED BY <1>3, <2>2, <3>1
  <2> HIDE DEF w
  <2>4. Change(Dirty(i, w), u, config.group) /\ "name" \notin DOMAIN Dirty(i, w)
        /\ (IF "email" \in DOMAIN Dirty(i, w) THEN Dirty(i, w)["email"] = w.email ELSE u.email = w.email)
        /\ ("source" \in DOMAIN Dirty(i, w) \/ u.source = w.source)
    BY <2>1, <2>2, <2>3, DirtyIsChange
  <2>5. set[i] = Dirty(i, w)
    BY <1>8 DEF w
  <2> QED BY <2>2, <2>4, <2>5
<1>10. ASSUME NEW i \in aside PROVE Change(set[i], users[i], config.group) /\ DOMAIN set[i] = {"name"}
  <2>1. FreeName(n) \in Names
    BY <1>1, FreeNameIsName
  <2>2. /\ DOMAIN [name |-> FreeName(n)] = {"name"} /\ [name |-> FreeName(n)]["name"] = FreeName(n)
        /\ set[i] = [name |-> FreeName(n)]
    BY <1>8
  <2>3. DOMAIN set[i] = {"name"} /\ set[i]["name"] \in Names
    BY <2>1, <2>2
  <2> QED BY <2>3 DEF Change
<1>11. made # Absent => made \in User /\ made.email = (IF config.owns THEN e ELSE "none")
                        /\ made.source = "directory" /\ ~ made.test /\ made.admin = rights
  BY <1>3, <1>7 DEF User
<1>12. made = Absent => own # {}
  <2>1. [name |-> n, admin |-> rights, source |-> "directory", test |-> FALSE,
         email |-> IF config.owns THEN e ELSE "none", password |-> FALSE] \in User
    BY <1>3, <1>7 DEF User
  <2> QED BY <2>1, AbsentIsNoUser
<1>13. made # Absent => own = {}
  OBVIOUS
<1>14. gave = IF config.owns THEN e ELSE "unheard"
  OBVIOUS
<1> HIDE DEF own, aside, made, gave
<1>15. RequestFine(r, users, config.group)
  <2>1. Insert(made, Present = {})
    BY <1>3, <1>11 DEF Insert, AsTarget
  <2>2. gave \in Emails \cup {"unheard"}
    BY <1>7, <1>14
  <2> QED BY <1>2, <1>4, <1>5, <1>8, <1>9, <1>10, <2>1, <2>2, RowsArePresent DEF RequestFine
<1>16. ReadNow(r, users, config.owns)
  <2>1. CASE ~ config.owns
    BY <1>2, <1>14, <2>1 DEF ReadNow
  <2>2. CASE config.owns /\ made # Absent
    <3>1. made.email = gave /\ made.source = "directory" /\ gave # "unheard"
      BY <1>7, <1>11, <1>14, <2>2
    <3>2. \A i \in DOMAIN set : "email" \notin DOMAIN set[i]
      <4>1. DOMAIN set = aside
        BY <1>8, <1>13, <2>2
      <4>2. \A i \in aside : DOMAIN set[i] = {"name"}
        BY <1>10
      <4> QED BY <4>1, <4>2
    <3> QED BY <1>2, <2>2, <3>1, <3>2 DEF ReadNow
  <2>3. CASE config.owns /\ made = Absent
    <3>1. PICK i \in own : TRUE
      BY <1>12, <2>3
    <3>2. i \in Ids /\ own \cup aside = {i}
      BY <1>4, <1>6, <3>1 DEF Present
    <3>3. DOMAIN set[i] # {"name"}
      BY <1>9
    <3>4. gave = e /\ gave # "unheard"
      BY <1>7, <1>14, <2>3
    <3> QED BY <1>2, <1>8, <1>9, <2>3, <3>1, <3>2, <3>3, <3>4 DEF ReadNow
  <2> QED BY <1>7, <2>1, <2>2, <2>3
<1> QED BY <1>1, <1>15, <1>16

LEMMA IdleIsFine ==
  ASSUME NEW table, NEW group PROVE RequestFine(Idle, table, group)
BY Initially DEF RequestFine, Insert

(* A request that read the rows may still be written once there are more.  *)
LEMMA FineWhileRowsGrow ==
  ASSUME NEW r, NEW table, NEW next, NEW group, RequestFine(r, table, group),
         RowsOf(table) \subseteq RowsOf(next),
         \A i \in RowsOf(table) : next[i].test = table[i].test
  PROVE  RequestFine(r, next, group)
<1>1. \A i \in DOMAIN r.set : Change(r.set[i], next[i], group)
  BY DEF RequestFine, Change
<1>2. Insert(r.new, RowsOf(next) = {})
  BY DEF RequestFine, Insert
<1> QED BY <1>1, <1>2 DEF RequestFine

(* What a commit leaves: the rows there were, of which a test account is   *)
(* as it was, with what was asked for written.                             *)
LEMMA CommitRows ==
  ASSUME MembershipAssumption, TypeInv, AdminInv, NEW r, RequestFine(r, users, config.group),
         r.new # Absent => NextId \in Ids, Accepted(Written(r))
  PROVE  LET next == Written(r) IN
         /\ Roll(next)
         /\ Present \subseteq RowsOf(next)
         /\ \A i \in Present : next[i].test = users[i].test
         /\ ~ grouped /\ RowsOf(next) # {} => \E i \in RowsOf(next) : next[i].admin
<1> DEFINE next == Written(r)
<1>1. /\ next \in [Ids -> User \cup {Absent}]
      /\ \A i \in DOMAIN r.set :
           LET c == r.set[i] w == next[i] IN
           /\ i \in Present /\ w \in User
           /\ w.test = users[i].test /\ w.password = users[i].password
           /\ w.admin = IF "admin" \in DOMAIN c THEN c["admin"] ELSE users[i].admin
           /\ w.source = IF "source" \in DOMAIN c THEN c["source"] ELSE users[i].source
      /\ r.new # Absent => NextId \notin Present /\ next[NextId] = r.new
      /\ \A i \in Ids \ DOMAIN r.set : r.new = Absent \/ i # NextId => next[i] = users[i]
  BY WrittenRows
<1>2. Accepted(next)
  OBVIOUS
<1> HIDE DEF next
<1>3. /\ Present \subseteq Ids /\ (\A i \in Present : users[i] # Absent)
      /\ \A i \in Ids \ Present : users[i] = Absent
  BY DEF Present
<1>4. ASSUME NEW i \in Present PROVE next[i] # Absent /\ next[i].test = users[i].test
  <2>1. CASE i \in DOMAIN r.set
    BY <1>1, <2>1, AbsentIsNoUser
  <2>2. CASE i \notin DOMAIN r.set
    BY <1>1, <1>3, <2>2
  <2> QED BY <2>1, <2>2
<1>5. Present \subseteq RowsOf(next)
  BY <1>3, <1>4 DEF RowsOf
<1>6. \A i \in RowsOf(next) \ Present : r.new # Absent /\ i = NextId
  BY <1>1, <1>3 DEF RowsOf
<1>7. \A i \in DOMAIN r.set : Change(r.set[i], users[i], config.group)
  BY DEF RequestFine
<1>8. \A i \in Present : AsTarget(users[i])
  BY RowsArePresent DEF TypeInv, Roll
<1>9. ASSUME NEW i \in RowsOf(next) PROVE AsTarget(next[i])
  <2>1. CASE i \in DOMAIN r.set
    <3>1. /\ Change(r.set[i], users[i], config.group) /\ AsTarget(users[i])
          /\ i \in Present
      BY <1>1, <1>7, <1>8, <2>1
    <3> QED BY <1>1, <2>1, <3>1 DEF Change, AsTarget
  <2>2. CASE i \in Present \ DOMAIN r.set
    BY <1>1, <1>3, <1>8, <2>2
  <2>3. CASE i \notin Present
    BY <1>1, <1>6, <2>3 DEF RequestFine, Insert
  <2> QED BY <2>1, <2>2, <2>3
<1>10. \A i, j \in RowsOf(next) : next[i].name = next[j].name => i = j
  BY <1>2 DEF Accepted, RowsOf
<1>11. Roll(next)
  BY <1>1, <1>9, <1>10 DEF Roll
<1>12. ASSUME ~ grouped, RowsOf(next) # {} PROVE \E i \in RowsOf(next) : next[i].admin
  <2>1. CASE Present = {}
    <3>1. r.new # Absent /\ NextId \in RowsOf(next) /\ next[NextId] = r.new
      BY <1>1, <1>6, <1>12, <2>1
    <3>2. r.new.admin
      BY <2>1, <3>1, RowsArePresent DEF RequestFine, Insert
    <3> QED BY <3>1, <3>2
  <2>2. CASE Present # {}
    <3>1. PICK i \in Present : users[i].admin
      BY <1>12, <2>2, RowsArePresent DEF AdminInv
    <3>2. ~ config.group
      BY <1>12 DEF AdminInv
    <3>3. next[i].admin
      <4>1. CASE i \in DOMAIN r.set
        BY <1>1, <1>7, <3>1, <3>2, <4>1 DEF Change
      <4>2. CASE i \notin DOMAIN r.set
        BY <1>1, <1>3, <3>1, <4>2
      <4> QED BY <4>1, <4>2
    <3> QED BY <1>5, <3>3
  <2> QED BY <2>1, <2>2
<1> QED BY <1>4, <1>5, <1>11, <1>12 DEF next

(* What is told of is what is written, by a request that writes what it    *)
(* read.                                                                   *)
LEMMA CommitAsserts ==
  ASSUME MembershipAssumption, TypeInv, NEW r, RequestFine(r, users, config.group),
         r.new # Absent => NextId \in Ids,
         ReadNow(r, users, config.owns), Asserted(users, told, config.owns), NEW said,
         said = IF r.gave = "unheard" THEN told ELSE [told EXCEPT ![SignedIn(r)] = r.gave]
  PROVE  Asserted(Written(r), said, config.owns)
<1> DEFINE next == Written(r)
<1>1. /\ \A i \in DOMAIN r.set :
           LET c == r.set[i] w == next[i] IN
           /\ i \in Present /\ w \in User
           /\ w.source = IF "source" \in DOMAIN c THEN c["source"] ELSE users[i].source
           /\ w.email = IF "email" \in DOMAIN c THEN c["email"] ELSE users[i].email
      /\ r.new # Absent => NextId \notin Present /\ next[NextId] = r.new
      /\ \A i \in Ids \ DOMAIN r.set : r.new = Absent \/ i # NextId => next[i] = users[i]
  BY WrittenRows
<1> HIDE DEF next
<1>2. told \in [Ids -> Emails \cup {"unheard"}]
  BY DEF TypeInv
<1>3. \A i \in DOMAIN r.set : next[i] # Absent /\
        ("source" \in DOMAIN r.set[i] => next[i].source = "directory")
  BY <1>1, AbsentIsNoUser DEF RequestFine, Change
<1>4. \A i \in Ids : told[i] # "unheard" =>
        /\ i \in Present /\ users[i] # Absent /\ users[i].source = "directory"
        /\ config.owns => users[i].email = told[i]
  BY RowsArePresent DEF Asserted, RowsOf
(* A row it does not set, or whose address it leaves, stays as it is.      *)
<1>5. ASSUME NEW i \in Ids, told[i] # "unheard",
             i \in DOMAIN r.set => (config.owns => "email" \notin DOMAIN r.set[i])
      PROVE  /\ next[i] # Absent /\ next[i].source = "directory"
             /\ config.owns => next[i].email = told[i]
  <2>1. CASE i \in DOMAIN r.set
    BY <1>1, <1>3, <1>4, <1>5, <2>1
  <2>2. CASE i \notin DOMAIN r.set
    <3>1. next[i] = users[i]
      BY <1>1, <1>4, <1>5, <2>2
    <3> QED BY <1>4, <1>5, <3>1
  <2> QED BY <2>1, <2>2
<1> DEFINE Good(i) ==
      said[i] # "unheard" =>
        /\ i \in RowsOf(next) /\ next[i].source = "directory"
        /\ config.owns => next[i].email = said[i]
<1>6. CASE r.gave = "unheard"
  <2>1. said = told
    BY <1>6
  <2>2. ASSUME NEW i \in Ids, told[i] # "unheard"
        PROVE  i \in DOMAIN r.set => (config.owns => "email" \notin DOMAIN r.set[i])
    BY <1>4, <1>6, <2>2 DEF ReadNow
  <2>3. \A i \in Ids : Good(i)
    BY <1>5, <2>1, <2>2 DEF RowsOf
  <2> QED BY <2>3 DEF Asserted, next
<1>7. CASE r.gave # "unheard" /\ r.new # Absent
  <2>1. /\ r.new.email = r.gave /\ r.new.source = "directory"
        /\ \A i \in DOMAIN r.set : "email" \notin DOMAIN r.set[i]
    BY <1>7 DEF ReadNow
  <2>2. said = [told EXCEPT ![NextId] = r.gave] /\ NextId \in Ids
    BY <1>7 DEF SignedIn
  <2>3. said[NextId] = r.gave /\ \A i \in Ids \ {NextId} : said[i] = told[i]
    BY <1>2, <2>2
  <2>4. \A i \in Ids \ {NextId} : Good(i)
    BY <1>5, <2>1, <2>3 DEF RowsOf
  <2>5. Good(NextId)
    BY <1>1, <1>7, <2>1, <2>2, <2>3 DEF RowsOf
  <2>6. \A i \in Ids : Good(i)
    BY <2>4, <2>5
  <2> QED BY <2>6 DEF Asserted, next
<1>8. CASE r.gave # "unheard" /\ r.new = Absent
  <2>1. PICK i \in Ids :
          LET c == r.set[i] IN
          /\ DOMAIN r.set = {i} /\ DOMAIN c # {"name"}
          /\ IF "email" \in DOMAIN c THEN c["email"] = r.gave ELSE users[i].email = r.gave
          /\ "source" \in DOMAIN c \/ users[i].source = "directory"
    BY <1>8 DEF ReadNow
  <2>2. SignedIn(r) = i
    BY <1>8, <2>1 DEF SignedIn
  <2>3. said[i] = r.gave /\ \A j \in Ids \ {i} : said[j] = told[j]
    BY <1>2, <1>8, <2>1, <2>2
  <2>4. \A j \in Ids \ {i} : Good(j)
    BY <1>5, <2>1, <2>3 DEF RowsOf
  <2>5. next[i] # Absent /\ next[i].source = "directory" /\ next[i].email = r.gave
    BY <1>1, <1>3, <2>1
  <2>6. Good(i)
    BY <2>3, <2>5 DEF RowsOf
  <2>7. \A j \in Ids : Good(j)
    BY <2>4, <2>6
  <2> QED BY <2>7 DEF Asserted, next
<1> QED BY <1>6, <1>7, <1>8

LEMMA InitInv == ASSUME MembershipAssumption PROVE Init => IInv
<1> SUFFICES ASSUME Init PROVE IInv
  OBVIOUS
<1>1. /\ users \in [Ids -> User \cup {Absent}] /\ RowsOf(users) = {}
      /\ told = [i \in Ids |-> "unheard"] /\ config \in Configs
      /\ grouped = config.group /\ req = [p \in Procs |-> Idle]
  BY DEF Init, RowsOf
<1>2. TypeInv
  BY <1>1 DEF TypeInv, Roll
<1>3. RequestsInv
  BY <1>1, IdleIsFine DEF RequestsInv
<1>4. AdminInv
  BY <1>1 DEF AdminInv
<1>5. AssertedInv
  BY <1>1, Initially DEF AssertedInv, Asserted
<1> QED BY <1>2, <1>3, <1>4, <1>5 DEF IInv

(* A request begins with what it read, alone where they take turns. *)
LEMMA BeginInv ==
  ASSUME IInv, NEW p \in Procs, NEW r, Begin(p, r), Free(p),
         RequestFine(r, users, config.group), ReadNow(r, users, config.owns)
  PROVE  IInv'
<1>1. /\ req' = [req EXCEPT ![p] = r] /\ DOMAIN req = Procs
      /\ UNCHANGED <<users, config, told, grouped, overlap>>
  BY DEF Begin, IInv, TypeInv
<1>2. req'[p] = r /\ \A q \in Procs \ {p} : req'[q] = req[q]
  BY <1>1
<1>3. TypeInv'
  BY <1>1 DEF IInv, TypeInv
<1>4. RequestsInv'
  BY <1>1, <1>2 DEF IInv, RequestsInv
<1>5. AdminInv'
  BY <1>1 DEF IInv, AdminInv
<1>6. AssertedInv'
  <2> SUFFICES ASSUME ~ overlap'
               PROVE  /\ \A q, s \in Procs : q # s => ~ req'[q].busy \/ ~ req'[s].busy
                      /\ \A q \in Procs : req'[q].busy => ReadNow(req'[q], users', config'.owns)
                      /\ Asserted(users', told', config'.owns)
    BY DEF AssertedInv
  <2>1. ~ overlap /\ \A q \in Procs : ~ req[q].busy
    BY <1>1 DEF Free
  <2>2. Asserted(users', told', config'.owns)
    BY <1>1, <2>1 DEF IInv, AssertedInv
  <2> QED BY <1>1, <1>2, <2>1, <2>2
<1> QED BY <1>3, <1>4, <1>5, <1>6 DEF IInv

LEMMA CommitInv ==
  ASSUME MembershipAssumption, IInv, NEW p \in Procs, Commit(p) PROVE IInv'
<1> DEFINE r == req[p]
<1>1. /\ r.busy /\ req' = [req EXCEPT ![p] = Idle] /\ DOMAIN req = Procs
      /\ r.new # Absent => NextId \in Ids
      /\ UNCHANGED <<config, grouped, overlap>>
  BY DEF Commit, IInv, TypeInv
<1>2. req'[p] = Idle /\ \A q \in Procs \ {p} : req'[q] = req[q]
  BY <1>1
<1>3. TypeInv /\ AdminInv /\ RequestFine(r, users, config.group)
  BY DEF IInv, RequestsInv
<1>4. /\ Roll(users') /\ Present \subseteq RowsOf(users')
      /\ \A i \in Present : users'[i].test = users[i].test
      /\ ~ grouped /\ RowsOf(users') # {} => \E i \in RowsOf(users') : users'[i].admin
  <2>1. CASE Accepted(Written(r))
    <3>1. users' = Written(r)
      BY <2>1 DEF Commit
    <3> HIDE DEF r
    <3> QED BY <1>1, <1>3, <2>1, <3>1, CommitRows
  <2>2. CASE ~ Accepted(Written(r))
    <3>1. users' = users
      BY <2>2 DEF Commit
    <3> QED BY <1>3, <3>1, RowsArePresent DEF TypeInv, AdminInv
  <2> QED BY <2>1, <2>2
<1>5. told' \in [Ids -> Emails \cup {"unheard"}]
  BY <1>3 DEF Commit, TypeInv, RequestFine
<1>6. TypeInv'
  BY <1>1, <1>3, <1>4, <1>5 DEF TypeInv
<1>7. RequestsInv'
  <2>1. ASSUME NEW q \in Procs PROVE RequestFine(req'[q], users', config'.group)
    <3>1. CASE q = p
      BY <1>2, <3>1, IdleIsFine
    <3>2. CASE q # p
      <4>1. RequestFine(req[q], users, config.group)
        BY DEF IInv, RequestsInv
      <4>2. RequestFine(req[q], users', config.group)
        BY <1>4, <4>1, FineWhileRowsGrow, RowsArePresent
      <4> QED BY <1>1, <1>2, <3>2, <4>2
    <3> QED BY <3>1, <3>2
  <2> QED BY <2>1 DEF RequestsInv
<1>8. AdminInv'
  BY <1>1, <1>3, <1>4 DEF AdminInv
<1>9. AssertedInv'
  <2> SUFFICES ASSUME ~ overlap'
               PROVE  /\ \A q, s \in Procs : q # s => ~ req'[q].busy \/ ~ req'[s].busy
                      /\ \A q \in Procs : req'[q].busy => ReadNow(req'[q], users', config'.owns)
                      /\ Asserted(users', told', config'.owns)
    BY DEF AssertedInv
  <2>1. /\ \A q \in Procs \ {p} : ~ req[q].busy
        /\ ReadNow(r, users, config.owns) /\ Asserted(users, told, config.owns)
    BY <1>1 DEF IInv, AssertedInv
  <2>2. \A q \in Procs : ~ req'[q].busy
    BY <1>2, <2>1, Initially
  <2>3. Asserted(users', told', config.owns)
    <3>1. CASE Accepted(Written(r))
      <4>1. /\ users' = Written(r)
            /\ told' = IF r.gave = "unheard" THEN told ELSE [told EXCEPT ![SignedIn(r)] = r.gave]
        BY <3>1 DEF Commit
      <4> HIDE DEF r
      <4> QED BY <1>1, <1>3, <2>1, <4>1, CommitAsserts
    <3>2. CASE ~ Accepted(Written(r))
      BY <2>1, <3>2 DEF Commit
    <3> QED BY <3>1, <3>2
  <2> QED BY <1>1, <2>2, <2>3
<1> QED BY <1>6, <1>7, <1>8, <1>9 DEF IInv

LEMMA RestartInv ==
  ASSUME IInv, NEW c \in Configs, Restart(c) PROVE IInv'
<1>1. /\ config' = c /\ grouped' = (grouped \/ c.group) /\ UNCHANGED <<users, overlap>>
      /\ req' = [p \in Procs |-> Idle] /\ told' = [i \in Ids |-> "unheard"]
  BY DEF Restart
<1>2. TypeInv'
  BY <1>1 DEF IInv, TypeInv, Emails
<1>3. RequestsInv'
  BY <1>1, IdleIsFine DEF RequestsInv
<1>4. AdminInv'
  BY <1>1 DEF IInv, AdminInv
<1>5. AssertedInv'
  BY <1>1, Initially DEF AssertedInv, Asserted
<1> QED BY <1>2, <1>3, <1>4, <1>5 DEF IInv

LEMMA NextInv == ASSUME MembershipAssumption PROVE IInv /\ [Next]_vars => IInv'
<1> SUFFICES ASSUME IInv, [Next]_vars PROVE IInv'
  OBVIOUS
<1>0. TypeInv
  BY DEF IInv
<1>1. CASE UNCHANGED vars
  BY <1>1 DEF vars, IInv, TypeInv, RequestsInv, AdminInv, AssertedInv
<1>2. ASSUME NEW p \in Procs,
             \E r : /\ req' = [req EXCEPT ![p] = r] /\ Free(p)
                    /\ RequestFine(r, users, config.group) /\ ReadNow(r, users, config.owns),
             UNCHANGED <<users, config, told, grouped, restarts, overlap>>
      PROVE  IInv'
  BY <1>2, BeginInv DEF Begin
<1>3. ASSUME NEW p \in Procs, NEW n \in Names, NEW e \in {"none", "typed"},
             ReadRegister(p, n, e) \/ ReadTestAccount(p, n)
      PROVE  IInv'
  BY <1>0, <1>2, <1>3, RegisterReads DEF ReadRegister, ReadTestAccount, Begin
<1>4. ASSUME NEW p \in Procs, NEW n \in Names, NEW g \in BOOLEAN,
             NEW e \in {"none", "directory"}, ReadSignIn(p, n, g, e)
      PROVE  IInv'
  <2>1. UNCHANGED <<users, config, told, grouped, restarts, overlap>>
    BY <1>4 DEF ReadSignIn, Begin
  <2>2. \E r : /\ req' = [req EXCEPT ![p] = r] /\ Free(p)
               /\ RequestFine(r, users, config.group) /\ ReadNow(r, users, config.owns)
    BY <1>0, <1>4, SignInReads
  <2> QED BY <1>2, <2>1, <2>2
<1>5. ASSUME NEW p \in Procs, NEW i \in Ids, NEW e \in {"none", "typed"}, ReadSetEmail(p, i, e)
      PROVE  IInv'
  BY <1>0, <1>2, <1>5, SetEmailReads DEF ReadSetEmail, Begin
<1>6. CASE Next
  BY <1>3, <1>4, <1>5, <1>6, CommitInv, RestartInv DEF Next
<1> QED BY <1>1, <1>6

(* The inductive invariant, of any number of threads and accounts. *)
THEOREM Inductive == ASSUME MembershipAssumption PROVE Spec => []IInv
BY InitInv, NextInv, PTL DEF Spec

(* Rows are accounts and no two have one name, however requests that       *)
(* register, sign in and rename overlap (users.username, _free_username).  *)
THEOREM TypesHold == ASSUME MembershipAssumption PROVE Spec => []TypeOK
<1>1. IInv => TypeOK
  BY RowsArePresent DEF IInv, TypeInv, Roll, TypeOK, Present
<1> QED BY <1>1, Inductive, PTL

(* A test account stays one an admin may switch to: it gets no rights and  *)
(* no directory's row takes it over (is_switch_target,                     *)
(* upsert_directory_user).                                                 *)
THEOREM TestAccountsAreTargetsAlways ==
  ASSUME MembershipAssumption PROVE Spec => []TestAccountsAreTargets
<1>1. IInv => TestAccountsAreTargets
  BY RowsArePresent DEF IInv, TypeInv, Roll, AsTarget, TestAccountsAreTargets
<1> QED BY <1>1, Inductive, PTL

(* A library that never had an admin group and has accounts has an admin   *)
(* among them, through restarts into any mode (upsert_directory_user,      *)
(* register).                                                              *)
THEOREM SomebodyAlwaysAdministers ==
  ASSUME MembershipAssumption PROVE Spec => []SomebodyAdministers
<1>1. IInv => SomebodyAdministers
  BY RowsArePresent DEF IInv, AdminInv, SomebodyAdministers
<1> QED BY <1>1, Inductive, PTL

(* Where the directory owns addresses and requests take turns, a member's  *)
(* address is the one it last gave (directory_owns_email).                 *)
THEOREM OwnedIsAssertedAlways ==
  ASSUME MembershipAssumption PROVE Spec => []OwnedIsAsserted
<1>1. IInv => OwnedIsAsserted
  BY RowsArePresent DEF IInv, AssertedInv, Asserted, OwnedIsAsserted, Present
<1> QED BY <1>1, Inductive, PTL
=============================================================================
