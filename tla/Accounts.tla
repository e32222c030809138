---- MODULE Accounts ----
(***************************************************************************)
(* Accounts and sessions: auth.service.ts, token.service.ts, auth.guard.ts *)
(* and auth-cookie.service.ts.  An e-mail address is typed in several ways *)
(* (case, spaces) and a password stands for its hash.                      *)
(***************************************************************************)
EXTENDS Common, Naturals

CONSTANTS
    UserIds,
    Typed,              \* e-mail addresses as they are typed
    NormalizeEmail,     \* trimmed, in lower case
    Passwords,
    Registrations,      \* concurrent POST register
    Browsers,
    ExpiresIn,          \* JWT_EXPIRES_IN_SECONDS
    PerSecond,          \* instants in a second: Date.now() counts 1000
    Starts,             \* bound on the starts of the process
    Instants            \* bound on the clock

VARIABLES
    users,          \* users[u]: the row of users, or None
    registration,   \* the registrations under way
    answer,         \* answer[b]: the session on its way to the browser, or None
    browser,        \* browser[b]: its cookie, or None
    jwtSecret,      \* is JWT_SECRET configured? it is always the same
    start,          \* how often the process was started
    instant         \* the clock: Date.now()

accountVars == <<users, registration, answer, browser, jwtSecret, start, instant>>

Emails == {NormalizeEmail[e] : e \in Typed}
User == [email : Emails, password : Passwords]
Token == [sub : UserIds, exp : Nat, secret : 0..Starts]
\* start and signed are history: the process and the instant that signed the token.
Session == [token : Token, start : 1..Starts, signed : Nat]
Cookie == [session : Session, until : Nat]

ASSUME AccountAssumption ==
    /\ ExpiresIn \in Nat \ {0} /\ PerSecond \in Nat \ {0}
    /\ Starts \in Nat \ {0} /\ Instants \in Nat
    /\ NormalizeEmail \in [Typed -> Typed]
    /\ \A e \in Typed : NormalizeEmail[NormalizeEmail[e]] = NormalizeEmail[e]
    /\ None \notin User \cup Session \cup Cookie

AccountsTypeOK ==
    /\ users \in [UserIds -> User \cup {None}]
    /\ registration \in [Registrations -> User \cup {None}]
    /\ answer \in [Browsers -> Session \cup {None}]
    /\ browser \in [Browsers -> Cookie \cup {None}]
    /\ jwtSecret \in BOOLEAN
    /\ start \in 1..Starts
    /\ instant \in 0..Instants

AccountsInit ==
    /\ users = [u \in UserIds |-> None]
    /\ registration = [r \in Registrations |-> None]
    /\ answer = [b \in Browsers |-> None]
    /\ browser = [b \in Browsers |-> None]
    /\ jwtSecret \in BOOLEAN
    /\ start = 1
    /\ instant = 0

-----------------------------------------------------------------------------
(* Tokens: token.service.ts and the cookie they travel in.                  *)

\* Without JWT_SECRET a process draws one of its own: developmentSecret.
Secret == IF jwtSecret THEN 0 ELSE start
second == instant \div PerSecond      \* Math.floor(Date.now() / 1000)
Sign(u) == [sub |-> u, exp |-> second + ExpiresIn, secret |-> Secret]
VerifyBefore(token) == token.secret = Secret /\ second < token.exp      \* wrong: exp is refused
Verify(token) == token.secret = Secret /\ ~(token.exp < second)

\* createSession: the token is signed, and then the answer is on its way.  One
\* answer at a time is on its way to a browser.
SendSession(b, u) ==
    /\ answer[b] = None
    /\ answer' = [answer EXCEPT ![b] = [token |-> Sign(u), start |-> start, signed |-> instant]]

\* The answer sets the cookie, whose Max-Age counts from its arrival; or it is lost.
Receive(b) ==
    /\ answer[b] # None
    /\ answer' = [answer EXCEPT ![b] = None]
    /\ \/ browser' = [browser EXCEPT ![b] =
                        [session |-> answer[b], until |-> instant + ExpiresIn * PerSecond]]
       \/ UNCHANGED browser
    /\ UNCHANGED <<users, registration, jwtSecret, start, instant>>
CookieSent(b) == browser[b] # None /\ instant < browser[b].until

-----------------------------------------------------------------------------
(* auth.service.ts.                                                         *)

Found(email) == {u \in UserIds : users[u] # None /\ users[u].email = email}

NoPassword(e, password) ==      \* wrong: the hash is not stored
    [email |-> NormalizeEmail[e], password |-> None]
NewUser(e, password) == [email |-> NormalizeEmail[e], password |-> password]

Register(r, e, password) ==
    /\ registration[r] = None
    /\ Found(NormalizeEmail[e]) = {}
    /\ registration' = [registration EXCEPT ![r] = NewUser(e, password)]
    /\ UNCHANGED <<users, answer, browser, jwtSecret, start, instant>>

\* The unique index on the address refuses the later of two registrations.
InsertedAnyway(r, u) == users' = [users EXCEPT ![u] = registration[r]]    \* wrong: no index
InsertedOnce(r, u) ==
    /\ Found(registration[r].email) = {}
    /\ users' = [users EXCEPT ![u] = registration[r]]

RegisterSave(r, b) ==
    /\ registration[r] # None
    /\ \/ \E u \in UserIds :
            /\ users[u] = None
            /\ InsertedOnce(r, u)
            /\ SendSession(b, u)
       \/ Found(registration[r].email) # {} /\ UNCHANGED <<users, answer>>
    /\ registration' = [registration EXCEPT ![r] = None]
    /\ UNCHANGED <<browser, jwtSecret, start, instant>>

LoggedIn(e, password) == {u \in Found(NormalizeEmail[e]) : users[u].password = password}
Login(b, e, password) ==
    /\ \E u \in LoggedIn(e, password) : SendSession(b, u)
    /\ UNCHANGED <<users, registration, browser, jwtSecret, start, instant>>

\* The expired cookie replaces the one the browser has.
Logout(b) ==
    /\ browser' = [browser EXCEPT ![b] = None]
    /\ UNCHANGED <<users, registration, answer, jwtSecret, start, instant>>

\* AuthGuard: the token of the cookie is verified and its user looked up.
Admitted(b) ==
    /\ CookieSent(b)
    /\ Verify(browser[b].session.token)
    /\ users[browser[b].session.token.sub] # None

-----------------------------------------------------------------------------

AccountsTick ==
    /\ instant < Instants /\ instant' = instant + 1
    /\ UNCHANGED <<users, registration, answer, browser, jwtSecret, start>>

AccountsRestart ==
    /\ start < Starts /\ start' = start + 1
    /\ registration' = [r \in Registrations |-> None]
    /\ UNCHANGED <<users, answer, browser, jwtSecret, instant>>

AccountsNext ==
    \/ \E e \in Typed, p \in Passwords :
         \/ \E r \in Registrations : Register(r, e, p)
         \/ \E b \in Browsers : Login(b, e, p)
    \/ \E b \in Browsers :
         Logout(b) \/ Receive(b) \/ \E r \in Registrations : RegisterSave(r, b)
    \/ AccountsTick \/ AccountsRestart

AccountsSpec == AccountsInit /\ [][AccountsNext]_accountVars

-----------------------------------------------------------------------------
(* Properties.                                                             *)

\* Whoever has an account gets into it, however the address is typed: the
\* address finds that account and no other, though two registrations of one
\* address may both have found it free.
AddressFindsAccount ==
    \A u \in UserIds, e \in Typed :
        users[u] # None /\ NormalizeEmail[e] = NormalizeEmail[users[u].email]
            => Found(NormalizeEmail[e]) = {u}

\* A session lasts JWT_EXPIRES_IN_SECONDS from the time it was signed, however late
\* its answer arrives: until then the browser sends the cookie and the guard lets it
\* in, after a restart too, but for one without JWT_SECRET, which ends every session.
\* The cookie may outlive the token, as its time counts from the arrival and exp
\* from the whole second before: less than a second later the guard lets it in no more.
SessionsLast ==
    \A b \in Browsers : browser[b] # None =>
        LET session == browser[b].session
        IN /\ instant < session.signed + ExpiresIn * PerSecond =>
                (Admitted(b) <=> jwtSecret \/ session.start = start)
           /\ Admitted(b) => instant < session.signed + (ExpiresIn + 1) * PerSecond
====
