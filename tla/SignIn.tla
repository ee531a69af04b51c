------------------------------ MODULE SignIn ------------------------------
(***************************************************************************)
(* Who a browser is served as.  Under AUTH_MODE=ldap a sign-in asks a      *)
(* directory: it searches for the name that was typed, as the library's    *)
(* own service account, and binds as the entry it found with the password  *)
(* that was typed.  Under AUTH_MODE=proxy the portal in front of the       *)
(* library names the reader on every request, and the one session the      *)
(* library makes itself is an admin's switch into a test account.          *)
(* One browser, a directory whose entries change between the steps, and a  *)
(* library that is started again in another mode.                          *)
(*                                                                         *)
(* Left out: what signing in writes besides (module Membership), password  *)
(* resets and confirmed addresses (module Accounts).                       *)
(***************************************************************************)
EXTENDS Naturals, FiniteSets

CONSTANTS
  Entries,      \* the entries of the directory, by DN
  Turns,        \* what an entry may turn into: a set of Entry
  MaxMoves,     \* bound on the changes of the directory
  MaxRestarts   \* bound on the restarts

VARIABLES
  dir,      \* [Entries -> Entry, or Gone]
  users,    \* [Names -> Account, or Absent]
  config,   \* AUTH_MODE, how the directory is reached, its admin group
  login,    \* the sign-in in flight
  token,    \* the account of the browser's access token, or Nobody
  cookie,   \* the account of its cover cookie, or Nobody
  header,   \* what the portal says of the browser: Asserted, or Silent
  served,   \* the last answer: as whom, and from where
  seen,     \* [Entries -> what each was during the sign-in in flight]
  spoken,   \* the links passwords were said over, since the last sign-in began
  moves, restarts

vars == <<dir, users, config, login, token, cookie, header, served, seen, spoken,
          moves, restarts>>

Nobody == "nobody"

(* "Ann" is "ann" to the directory; "*" is a name only where it is escaped; *)
(* users.username cannot hold "toolong", and _PROXY_USERNAME refuses it.    *)
Typed == {"ann", "Ann", "*", "test"}
Folded(t) == IF t = "Ann" THEN "ann" ELSE t
DirNames == {"ann", "bob", "toolong"}
Names == DirNames \cup {"local", "test"}
Passwords == {"pa", "pb", "blank", "pt"}

Entry == [name : DirNames, password : {"pa", "pb"}, admin : BOOLEAN, mail : {"good", "bad"}]
Gone == [name |-> "gone"]

TurnsAreEntries == Turns \subseteq Entry

Account == [admin : BOOLEAN, source : {"local", "ldap", "proxy"}, test : BOOLEAN,
            mail : {"none", "good"}, password : Passwords \cup {"none"}]
Absent == [source |-> "none"]
Silent == [name |-> "silent", admin |-> FALSE, mail |-> "bad"]
Present == {n \in Names : users[n] # Absent}

NoLogin == [step |-> "none", typed |-> "none", password |-> "none", dn |-> "none",
            found |-> Gone]

----------------------------------------------------------------------------
(* A configuration the library starts with *)

(* validate_auth_config, _validate_ldap_transport *)
Starts(c) == c.mode = "ldap" /\ c.link = "plain" => c.clear

Configs == {c \in [mode : {"local", "ldap", "proxy"}, link : {"ldaps", "starttls", "plain"},
                   clear : BOOLEAN] : Starts(c) /\ (c.mode # "ldap" => c.link = "ldaps" /\ c.clear)}

----------------------------------------------------------------------------
(* Connections to the directory *)

(* has_password: the directory takes a bind without one as anonymous.     *)
HasPassword(password) == password # "blank"

(* _connect and _VerifyingTls: what there is to bind over, with this peer  *)
(* at the other end.  An upgrade that was asked for and did not happen, or *)
(* a certificate that is not the directory's, is no connection.            *)
Link(peer, upgraded) ==
  IF config.link = "plain" THEN "plain"
  ELSE IF peer = "directory" /\ (config.link = "starttls" => upgraded) THEN "verified"
  ELSE "refused"

Said(link) == spoken' = spoken \cup {[link |-> link, clear |-> config.clear]}

Unseen == [d \in Entries |-> {}]

(* A sign-in that fails says so, and nothing else of it stays. *)
Refused ==
  /\ login' = NoLogin /\ seen' = Unseen
  /\ UNCHANGED <<users, token, cookie>>

----------------------------------------------------------------------------
(* authenticate_ldap.  The form is shown to a browser with no session.    *)

BeginLogin(t, password) ==
  /\ config.mode = "ldap" /\ login = NoLogin /\ token = Nobody
  /\ HasPassword(password)
  /\ login' = [NoLogin EXCEPT !.step = "service", !.typed = t, !.password = password]
  /\ seen' = [d \in Entries |-> {dir[d]}] /\ spoken' = {}
  /\ UNCHANGED <<dir, users, config, token, cookie, header, served, moves, restarts>>

BindService(peer, upgraded) ==
  LET link == Link(peer, upgraded) IN
  /\ login.step = "service"
  /\ IF link = "refused" THEN Refused /\ UNCHANGED spoken
     ELSE /\ Said(link)
          /\ IF peer = "directory"
             THEN login' = [login EXCEPT !.step = "search"] /\ UNCHANGED <<users, token, cookie, seen>>
             ELSE Refused
  /\ UNCHANGED <<dir, config, header, served, moves, restarts>>

Matched(t) == {d \in Entries : dir[d] # Gone /\ dir[d].name = Folded(t)}

(* A search that another server should answer is not followed there, which *)
(* would say the service account's password to it (auto_referrals).        *)
Search(referred) ==
  /\ login.step = "search"
  /\ IF ~ referred /\ Cardinality(Matched(login.typed)) = 1
     THEN /\ \E d \in Matched(login.typed) :
               login' = [login EXCEPT !.step = "bind", !.dn = d, !.found = dir[d]]
          /\ UNCHANGED <<users, token, cookie, seen>>
     ELSE Refused
  /\ UNCHANGED <<dir, config, header, served, spoken, moves, restarts>>

(* The directory's answer to a simple bind. *)
Binds(d, password) == password = "blank" \/ (dir[d] # Gone /\ dir[d].password = password)

BindUser(peer, upgraded) ==
  LET link == Link(peer, upgraded) IN
  /\ login.step = "bind"
  /\ IF link = "refused" THEN Refused /\ UNCHANGED spoken
     ELSE /\ Said(link)
          /\ IF peer = "directory" /\ Binds(login.dn, login.password)
             THEN login' = [login EXCEPT !.step = "file"] /\ UNCHANGED <<users, token, cookie, seen>>
             ELSE Refused
  /\ UNCHANGED <<dir, config, header, served, moves, restarts>>

----------------------------------------------------------------------------
(* _directory_email: an address the mailer would refuse is no address.    *)
Usable(mail) == IF mail = "good" THEN mail ELSE "none"

(* upsert_directory_user, for a name the column can hold, where an admin   *)
(* group is set and the directory owns addresses.  The first account of a  *)
(* library is an admin.                                                    *)
Storable(n) == n # "toolong"

Upserted(said, source) ==
  [users EXCEPT ![said.name] =
     [admin |-> said.admin \/ Present = {}, source |-> source, test |-> FALSE,
      mail |-> Usable(said.mail), password |-> "none"]]

(* As FileLogin, of the entry as it is after the bind. *)
FileLogin_ReadsAgain ==
  LET said == dir[login.dn] IN
  /\ login.step = "file" /\ said # Gone
  /\ IF Storable(said.name)
     THEN /\ users' = Upserted(said, "ldap")
          /\ token' = said.name /\ cookie' = said.name
          /\ login' = NoLogin /\ seen' = Unseen
     ELSE Refused
  /\ UNCHANGED <<dir, config, header, served, spoken, moves, restarts>>

(* The directory's spelling of the name, and the groups and the address    *)
(* the search brought.                                                     *)
FileLogin ==
  LET said == login.found IN
  /\ login.step = "file"
  /\ IF Storable(said.name)
     THEN /\ users' = Upserted(said, "ldap")
          /\ token' = said.name /\ cookie' = said.name
          /\ login' = NoLogin /\ seen' = Unseen
     ELSE Refused
  /\ UNCHANGED <<dir, config, header, served, spoken, moves, restarts>>

(* authenticate_local *)
LoginLocally(n, password) ==
  /\ config.mode = "local" /\ token = Nobody
  /\ n \in Present /\ users[n].password = password
  /\ token' = n /\ cookie' = n
  /\ UNCHANGED <<dir, users, config, login, header, served, seen, spoken, moves, restarts>>

----------------------------------------------------------------------------
(* Whom a request is served as *)

(* is_switch_target *)
IsSwitchTarget(n) ==
  n \in Present /\ users[n].test /\ ~ users[n].admin /\ users[n].source = "local"
    /\ users[n].password # "none"

(* _switch_session *)
SwitchSession(n) == IF IsSwitchTarget(n) THEN n ELSE Nobody

(* user_from_proxy_headers *)
Vouched == IF header # Silent /\ Storable(header.name) THEN header.name ELSE Nobody

(* A request to the proxied library, with these sessions to look at first. *)
BehindPortal(sessions) ==
  LET switched == {SwitchSession(n) : n \in sessions} \ {Nobody} IN
  IF switched # {}
  THEN /\ served' \in [as : switched, from : {"session"}]
       /\ UNCHANGED users
  ELSE /\ served' = [as |-> Vouched, from |-> "header"]
       /\ users' = IF Vouched = Nobody THEN users ELSE Upserted(header, "proxy")

(* get_current_user *)
ReadPage ==
  /\ IF config.mode = "proxy" THEN BehindPortal({token})
     ELSE served' = [as |-> token, from |-> "session"] /\ UNCHANGED users
  /\ UNCHANGED <<dir, config, login, token, cookie, header, seen, spoken, moves, restarts>>

(* get_current_user_for_cover: an <img> sends the cookie and no token.    *)
ReadCover ==
  /\ IF config.mode = "proxy" THEN BehindPortal({cookie})
     ELSE served' = [as |-> cookie, from |-> "session"] /\ UNCHANGED users
  /\ UNCHANGED <<dir, config, login, token, cookie, header, seen, spoken, moves, restarts>>

(* The admin a page is served to, who may switch. *)
ServedAdmin ==
  LET who == IF config.mode # "proxy" THEN token
             ELSE IF SwitchSession(token) # Nobody THEN token ELSE Vouched
  IN  who \in Present /\ users[who].admin

(* switch_account *)
Switch(n, password) ==
  /\ ServedAdmin /\ IsSwitchTarget(n) /\ users[n].password = password
  /\ token' = n /\ cookie' = n
  /\ UNCHANGED <<dir, users, config, login, header, served, seen, spoken, moves, restarts>>

(* logout: the browser forgets its token whether or not the request that   *)
(* takes the cookie away arrives.                                          *)
Logout(arrives) ==
  /\ token # Nobody
  /\ token' = Nobody /\ cookie' = IF arrives THEN Nobody ELSE cookie
  /\ UNCHANGED <<dir, users, config, login, header, served, seen, spoken, moves, restarts>>

(* COVER_COOKIE_MAX_AGE_SECONDS, and the week of a token. *)
Lapse ==
  /\ cookie # Nobody \/ token # Nobody
  /\ cookie' = Nobody /\ token' \in {token, Nobody}
  /\ UNCHANGED <<dir, users, config, login, header, served, seen, spoken, moves, restarts>>

----------------------------------------------------------------------------
(* The directory, the portal and the operator *)

Move(d, e) ==
  /\ moves < MaxMoves /\ dir[d] # e
  /\ dir' = [dir EXCEPT ![d] = e] /\ moves' = moves + 1
  /\ seen' = IF login = NoLogin THEN seen ELSE [seen EXCEPT ![d] = @ \cup {e}]
  /\ UNCHANGED <<users, config, login, token, cookie, header, served, spoken, restarts>>

Vouch(said) ==
  /\ config.mode = "proxy" /\ header # said /\ header' = said
  /\ UNCHANGED <<dir, users, config, login, token, cookie, served, seen, spoken, moves, restarts>>

Restart(c) ==
  /\ restarts < MaxRestarts /\ restarts' = restarts + 1
  /\ config' = c /\ login' = NoLogin /\ seen' = Unseen /\ header' = Silent
  /\ served' = [as |-> Nobody, from |-> "session"] /\ spoken' = {}
  /\ UNCHANGED <<dir, users, token, cookie, moves>>

Headers == [name : {"ann", "toolong"}, admin : BOOLEAN, mail : {"bad"}] \cup {Silent}

Admin == [admin |-> TRUE, source |-> "local", test |-> FALSE, mail |-> "none", password |-> "pa"]
Test == [admin |-> FALSE, source |-> "local", test |-> TRUE, mail |-> "none", password |-> "pt"]
Household == [n \in Names |-> IF n = "local" THEN Admin ELSE IF n = "test" THEN Test ELSE Absent]

Init ==
  /\ dir \in [Entries -> {Gone} \cup [name : {"ann"}, password : {"pa"}, admin : {TRUE}, mail : {"good"}]]
  /\ users \in {Household, [n \in Names |-> Absent]}
  /\ config \in Configs /\ login = NoLogin
  /\ token = Nobody /\ cookie = Nobody /\ header = Silent
  /\ served = [as |-> Nobody, from |-> "session"]
  /\ seen = Unseen /\ spoken = {} /\ moves = 0 /\ restarts = 0

Next ==
  \/ \E t \in Typed, p \in Passwords : BeginLogin(t, p)
  \/ \E peer \in {"directory", "stranger"}, u \in BOOLEAN :
       BindService(peer, u) \/ BindUser(peer, u)
  \/ \E referred \in BOOLEAN : Search(referred)
  \/ FileLogin \/ ReadPage \/ ReadCover \/ Lapse
  \/ \E n \in Names, p \in Passwords : LoginLocally(n, p) \/ Switch(n, p)
  \/ \E arrives \in BOOLEAN : Logout(arrives)
  \/ \E d \in Entries, e \in Turns \cup {Gone} : Move(d, e)
  \/ \E said \in Headers : Vouch(said)
  \/ \E c \in Configs : Restart(c)

Spec == Init /\ [][Next]_vars

----------------------------------------------------------------------------
(* Properties *)

(* Accounts hold what their columns can, and no address the mailer would   *)
(* refuse, whatever a directory said.                                      *)
TypeOK ==
  /\ dir \in [Entries -> Entry \cup {Gone}]
  /\ \A n \in Present : users[n] \in Account /\ Storable(n)
  /\ config \in Configs /\ header \in Headers
  /\ {token, cookie, served.as} \subseteq Names \cup {Nobody}
  /\ login.step \in {"none", "service", "search", "bind", "file"}

(* A sign-in is handed an account whose entry, while it was asked for, had *)
(* the name that was typed, in the directory's spelling, and the password  *)
(* that was typed; an empty one is nobody's.                               *)
HandedToItsOwn ==
  login.step # "none" /\ token' # token =>
    \E d \in Entries :
      /\ \E e \in seen[d] : e # Gone /\ e.name = token' /\ e.name = Folded(login.typed)
      /\ \E e \in seen[d] : e # Gone /\ e.password = login.password

(* No password is said to anybody but the directory, nor where others can  *)
(* read it, unless the operator allowed cleartext.                         *)
NothingInTheClear ==
  \A s \in spoken : s.link = "verified" \/ (s.link = "plain" /\ s.clear)

(* Behind a portal a page or a cover is served as the member the portal    *)
(* names, or as a test account; a session from before the portal names     *)
(* nobody.                                                                 *)
ServedAsVouched ==
  config.mode = "proxy" /\ served.as # Nobody =>
    \/ served.from = "header"
    \/ users[served.as] # Absent /\ users[served.as].test
=============================================================================
