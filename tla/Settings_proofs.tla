---- MODULE Settings_proofs ----
(***************************************************************************)
(* Proofs about Accounts and AiSettings, which share no state, for every   *)
(* value of their constants.                                               *)
(***************************************************************************)
EXTENDS Accounts, AiSettings, TLAPS

-----------------------------------------------------------------------------
(* The types of Accounts.                                                    *)

LEMMA EmailsNormalised == ASSUME NEW e \in Emails PROVE e \in Typed /\ NormalizeEmail[e] = e
  BY AccountAssumption DEF Emails

LEMMA NewUserType ==
    ASSUME NEW e \in Typed, NEW p \in Passwords PROVE NewUser(e, p) \in User /\ NewUser(e, p) # None
  BY AccountAssumption DEF NewUser, User, Emails

LEMMA SecretType == ASSUME AccountsTypeOK PROVE Secret \in 0..Starts
  BY AccountAssumption DEF AccountsTypeOK, Secret

\* The whole seconds of an instant, and of one a whole number of seconds later.
LEMMA WholeSeconds ==
    ASSUME NEW i \in Nat
    PROVE  /\ i \div PerSecond \in Nat
           /\ (i \div PerSecond) * PerSecond <= i
           /\ i < ((i \div PerSecond) + 1) * PerSecond
  <1>1. PerSecond \in Nat /\ PerSecond > 0
    BY AccountAssumption
  <1> QED
    BY <1>1

LEMMA SecondsOrdered ==
    ASSUME NEW m \in Nat, NEW n \in Nat, m * PerSecond < n * PerSecond PROVE m < n
  <1>1. PerSecond \in Nat /\ PerSecond > 0
    BY AccountAssumption
  <1> QED
    BY <1>1

LEMMA InstantType == ASSUME AccountsTypeOK PROVE instant \in Nat /\ second \in Nat
  <1>1. instant \in Nat
    BY AccountAssumption DEF AccountsTypeOK
  <1> QED
    BY <1>1, WholeSeconds DEF second

LEMMA SentType ==
    ASSUME AccountsTypeOK, NEW b \in Browsers, NEW u \in UserIds, SendSession(b, u)
    PROVE  answer' \in [Browsers -> Session \cup {None}]
  <1>1. Sign(u) \in Token
    BY AccountAssumption, SecretType, InstantType DEF Sign, Token
  <1>2. [token |-> Sign(u), start |-> start, signed |-> instant] \in Session
    BY <1>1, InstantType DEF Session, AccountsTypeOK
  <1> QED
    BY <1>2 DEF SendSession, AccountsTypeOK

LEMMA ReceivedType ==
    ASSUME AccountsTypeOK, NEW b \in Browsers, Receive(b)
    PROVE  /\ answer[b] \in Session
           /\ [session |-> answer[b], until |-> instant + ExpiresIn * PerSecond] \in Cookie
  <1>1. answer[b] \in Session
    BY DEF AccountsTypeOK, Receive
  <1>2. instant + ExpiresIn * PerSecond \in Nat
    BY AccountAssumption, InstantType
  <1> QED
    BY <1>1, <1>2 DEF Cookie

LEMMA AccountsTypeInit == AccountsInit => AccountsTypeOK
  BY AccountAssumption DEF AccountsInit, AccountsTypeOK

LEMMA AccountsTypeStep == AccountsTypeOK /\ [AccountsNext]_accountVars => AccountsTypeOK'
  <1> SUFFICES ASSUME AccountsTypeOK, [AccountsNext]_accountVars PROVE AccountsTypeOK'
    OBVIOUS
  <1>1. ASSUME NEW r \in Registrations, NEW e \in Typed, NEW p \in Passwords, Register(r, e, p)
        PROVE  AccountsTypeOK'
    BY <1>1, NewUserType DEF Register, AccountsTypeOK
  <1>2. ASSUME NEW r \in Registrations, NEW b \in Browsers, RegisterSave(r, b)
        PROVE  AccountsTypeOK'
    <2>1. registration[r] \in User
      BY <1>2 DEF RegisterSave, AccountsTypeOK
    <2>2. users' \in [UserIds -> User \cup {None}] /\ answer' \in [Browsers -> Session \cup {None}]
      BY <1>2, <2>1, SentType DEF RegisterSave, InsertedOnce, AccountsTypeOK
    <2> QED
      BY <1>2, <2>2 DEF RegisterSave, AccountsTypeOK
  <1>3. ASSUME NEW b \in Browsers, NEW e \in Typed, NEW p \in Passwords, Login(b, e, p)
        PROVE  AccountsTypeOK'
    <2>1. PICK u \in LoggedIn(e, p) : SendSession(b, u)
      BY <1>3 DEF Login
    <2>2. u \in UserIds
      BY <2>1 DEF LoggedIn, Found
    <2> QED
      BY <1>3, <2>1, <2>2, SentType DEF Login, AccountsTypeOK
  <1>4. ASSUME NEW b \in Browsers, Logout(b) PROVE AccountsTypeOK'
    BY <1>4 DEF Logout, AccountsTypeOK
  <1>8. ASSUME NEW b \in Browsers, Receive(b) PROVE AccountsTypeOK'
    BY <1>8, ReceivedType DEF Receive, AccountsTypeOK
  <1>5. CASE AccountsTick
    BY <1>5, AccountAssumption DEF AccountsTick, AccountsTypeOK
  <1>6. CASE AccountsRestart
    BY <1>6, AccountAssumption DEF AccountsRestart, AccountsTypeOK
  <1>7. CASE UNCHANGED accountVars
    BY <1>7 DEF accountVars, AccountsTypeOK
  <1> QED
    BY <1>1, <1>2, <1>3, <1>4, <1>5, <1>6, <1>7, <1>8 DEF AccountsNext

\* Every variable of the accounts keeps its type.
THEOREM AccountsTypeCorrect == AccountsSpec => []AccountsTypeOK
  BY AccountsTypeInit, AccountsTypeStep, PTL DEF AccountsSpec

-----------------------------------------------------------------------------
(* One account per address.                                                  *)

AddressesDiffer ==
    \A u, v \in UserIds :
        users[u] # None /\ users[v] # None /\ users[u].email = users[v].email => u = v

LEMMA AddressesInit == AccountsInit => AddressesDiffer
  BY DEF AccountsInit, AddressesDiffer

LEMMA AddressesStep ==
    AccountsTypeOK /\ AddressesDiffer /\ [AccountsNext]_accountVars => AddressesDiffer'
  <1> SUFFICES ASSUME AccountsTypeOK, AddressesDiffer, [AccountsNext]_accountVars
               PROVE  AddressesDiffer'
    OBVIOUS
  <1>1. ASSUME NEW r \in Registrations, NEW b \in Browsers, RegisterSave(r, b)
        PROVE  AddressesDiffer'
    <2>1. CASE UNCHANGED users
      BY <2>1 DEF AddressesDiffer
    <2>2. ASSUME NEW u \in UserIds, InsertedOnce(r, u) PROVE AddressesDiffer'
      <3>1. \A v \in UserIds : users[v] # None => users[v].email # registration[r].email
        BY <2>2 DEF InsertedOnce, Found
      <3>2. /\ users'[u] = registration[r]
            /\ \A v \in UserIds : v # u => users'[v] = users[v]
        BY <2>2 DEF InsertedOnce, AccountsTypeOK
      <3> QED
        BY <3>1, <3>2 DEF AddressesDiffer
    <2> QED
      BY <1>1, <2>1, <2>2 DEF RegisterSave
  <1>2. CASE UNCHANGED users
    BY <1>2 DEF AddressesDiffer
  <1> QED
    BY <1>1, <1>2 
    DEF AccountsNext, Register, Login, Logout, Receive, AccountsTick, AccountsRestart, accountVars

\* An address finds the account made with it, and no other, however it is typed.
THEOREM AccountsAreFound == AccountsSpec => []AddressFindsAccount
  <1>1. AccountsTypeOK /\ AddressesDiffer => AddressFindsAccount
    <2> SUFFICES ASSUME AccountsTypeOK, AddressesDiffer, NEW u \in UserIds, NEW e \in Typed,
                        users[u] # None, NormalizeEmail[e] = NormalizeEmail[users[u].email]
                 PROVE  Found(NormalizeEmail[e]) = {u}
      BY DEF AddressFindsAccount
    <2>1. users[u].email \in Emails
      BY DEF AccountsTypeOK, User
    <2>2. users[u].email = NormalizeEmail[e]
      BY <2>1, EmailsNormalised
    <2> QED
      BY <2>2 DEF Found, AddressesDiffer
  <1> QED
    BY <1>1, AddressesInit, AddressesStep, AccountsTypeCorrect, PTL DEF AccountsSpec

-----------------------------------------------------------------------------
(* Sessions.                                                                 *)

\* What an answer and a cookie are made of.
SessionSound(session) ==
    /\ session.token.exp = (session.signed \div PerSecond) + ExpiresIn
    /\ session.token.secret = IF jwtSecret THEN 0 ELSE session.start
    /\ session.token.sub \in UserIds /\ users[session.token.sub] # None
    /\ session.signed <= instant
AnswerSound(b) == answer[b] # None => SessionSound(answer[b])
CookieSound(b) ==
    browser[b] # None =>
        /\ SessionSound(browser[b].session)
        /\ browser[b].session.signed + ExpiresIn * PerSecond <= browser[b].until
SessionsSound == \A b \in Browsers : AnswerSound(b) /\ CookieSound(b)

LEMMA SessionsInit == AccountsInit => SessionsSound
  BY DEF AccountsInit, SessionsSound, AnswerSound, CookieSound

\* A session stays sound while accounts are added and time passes.
LEMMA SessionStaysSound ==
    ASSUME AccountsTypeOK, NEW session \in Session, SessionSound(session),
           \A v \in UserIds : users[v] # None => users'[v] # None,
           UNCHANGED jwtSecret, instant' \in Nat, instant <= instant'
    PROVE  SessionSound(session)'
  BY InstantType DEF SessionSound, Session

LEMMA SoundStep ==
    ASSUME AccountsTypeOK, SessionsSound,
           \A v \in UserIds : users[v] # None => users'[v] # None,
           UNCHANGED <<answer, browser, jwtSecret>>, instant' \in Nat, instant <= instant'
    PROVE  SessionsSound'
  <1> SUFFICES ASSUME NEW b \in Browsers PROVE AnswerSound(b)' /\ CookieSound(b)'
    BY DEF SessionsSound
  <1>1. answer[b] # None => answer[b] \in Session /\ SessionSound(answer[b])
    BY DEF AccountsTypeOK, SessionsSound, AnswerSound
  <1>2. browser[b] # None =>
          /\ browser[b].session \in Session /\ SessionSound(browser[b].session)
          /\ browser[b].session.signed + ExpiresIn * PerSecond <= browser[b].until
    BY DEF AccountsTypeOK, SessionsSound, CookieSound, Cookie
  <1> QED
    BY <1>1, <1>2, SessionStaysSound DEF AnswerSound, CookieSound

\* A session signed for an account is sound.
LEMMA SentSound ==
    ASSUME AccountsTypeOK, SessionsSound, NEW b \in Browsers, NEW u \in UserIds,
           SendSession(b, u), users'[u] # None,
           \A v \in UserIds : users[v] # None => users'[v] # None,
           UNCHANGED <<browser, jwtSecret, start, instant>>
    PROVE  SessionsSound'
  <1> DEFINE new == [token |-> Sign(u), start |-> start, signed |-> instant]
  <1> SUFFICES ASSUME NEW o \in Browsers PROVE AnswerSound(o)' /\ CookieSound(o)'
    BY DEF SessionsSound
  <1>1. instant \in Nat
    BY InstantType
  <1>3. answer'[o] = IF o = b THEN new ELSE answer[o]
    BY DEF SendSession, AccountsTypeOK
  <1>5. AnswerSound(o)'
    <2>1. CASE o = b
      BY <1>1, <1>3, <2>1 DEF AnswerSound, SessionSound, Sign, Secret, second
    <2>2. CASE o # b
      BY <1>3, <2>2 DEF SessionsSound, AnswerSound, SessionSound
    <2> QED
      BY <2>1, <2>2
  <1>6. CookieSound(o)'
    BY <1>1, SessionStaysSound DEF SessionsSound, CookieSound, AccountsTypeOK, Cookie
  <1> QED
    BY <1>5, <1>6

\* The answer that arrives makes a sound cookie.
LEMMA ReceivedSound ==
    ASSUME AccountsTypeOK, SessionsSound, NEW b \in Browsers, Receive(b)
    PROVE  SessionsSound'
  <1> DEFINE new == [session |-> answer[b], until |-> instant + ExpiresIn * PerSecond]
  <1> SUFFICES ASSUME NEW o \in Browsers PROVE AnswerSound(o)' /\ CookieSound(o)'
    BY DEF SessionsSound
  <1>1. answer'[o] = None \/ answer'[o] = answer[o]
    BY DEF Receive, AccountsTypeOK
  <1>2. browser'[o] = browser[o] \/ (o = b /\ browser'[o] = new)
    BY DEF Receive, AccountsTypeOK
  <1>3. AnswerSound(o)'
    BY <1>1 DEF SessionsSound, AnswerSound, SessionSound, Receive
  <1>4. CASE browser'[o] = browser[o]
    BY <1>3, <1>4 DEF SessionsSound, CookieSound, SessionSound, Receive
  <1>5. CASE o = b /\ browser'[o] = new
    <2>1. answer[b] \in Session /\ SessionSound(answer[b])
      BY ReceivedType DEF SessionsSound, AnswerSound, Receive
    <2>2. answer[b].signed <= instant /\ answer[b].signed \in Nat /\ instant \in Nat
      BY <2>1, InstantType DEF SessionSound, Session
    <2>3. ExpiresIn * PerSecond \in Nat
      BY AccountAssumption
    <2>4. answer[b].signed + ExpiresIn * PerSecond <= instant + ExpiresIn * PerSecond
      BY <2>2, <2>3
    <2>5. CookieSound(o)'
      BY <1>5, <2>1, <2>4 DEF CookieSound, SessionSound, Receive
    <2> QED
      BY <1>3, <2>5
  <1> QED
    BY <1>2, <1>3, <1>4, <1>5

LEMMA SessionsStep ==
    AccountsTypeOK /\ SessionsSound /\ [AccountsNext]_accountVars => SessionsSound'
  <1> SUFFICES ASSUME AccountsTypeOK, SessionsSound, [AccountsNext]_accountVars
               PROVE  SessionsSound'
    OBVIOUS
  <1> USE InstantType
  <1>1. ASSUME NEW r \in Registrations, NEW b \in Browsers, RegisterSave(r, b)
        PROVE  SessionsSound'
    <2>1. CASE UNCHANGED <<users, answer>>
      BY <1>1, <2>1, SoundStep DEF RegisterSave
    <2>2. ASSUME NEW u \in UserIds, users[u] = None, InsertedOnce(r, u), SendSession(b, u)
          PROVE  SessionsSound'
      <3>1. users'[u] # None /\ \A v \in UserIds : users[v] # None => users'[v] # None
        BY <1>1, <2>2 DEF RegisterSave, InsertedOnce, AccountsTypeOK
      <3> QED
        BY <1>1, <2>2, <3>1, SentSound DEF RegisterSave
    <2> QED
      BY <1>1, <2>1, <2>2 DEF RegisterSave
  <1>2. ASSUME NEW b \in Browsers, NEW e \in Typed, NEW p \in Passwords, Login(b, e, p)
        PROVE  SessionsSound'
    <2>1. PICK u \in LoggedIn(e, p) : SendSession(b, u)
      BY <1>2 DEF Login
    <2>2. u \in UserIds /\ users[u] # None
      BY <2>1 DEF LoggedIn, Found
    <2> QED
      BY <1>2, <2>1, <2>2, SentSound DEF Login
  <1>3. ASSUME NEW b \in Browsers, Logout(b) PROVE SessionsSound'
    BY <1>3 DEF Logout, SessionsSound, AnswerSound, CookieSound, SessionSound, AccountsTypeOK
  <1>4. CASE AccountsTick
    <2>1. instant' \in Nat /\ instant <= instant'
      BY <1>4 DEF AccountsTick
    <2> QED
      BY <1>4, <2>1, SoundStep DEF AccountsTick
  <1>5. CASE UNCHANGED <<users, answer, browser, jwtSecret, instant>>
    BY <1>5, SoundStep
  <1> QED
    BY <1>1, <1>2, <1>3, <1>4, <1>5, ReceivedSound
    DEF AccountsNext, Register, AccountsRestart, accountVars

\* When exp is not yet passed: in the whole time of the session, and less than a
\* second longer.
LEMMA TokenTime ==
    ASSUME AccountsTypeOK, NEW signed \in Nat
    PROVE  LET exp == (signed \div PerSecond) + ExpiresIn
           IN /\ instant < signed + ExpiresIn * PerSecond => ~(exp < second)
              /\ ~(exp < second) => instant < signed + (ExpiresIn + 1) * PerSecond
  <1> DEFINE s == signed \div PerSecond
  <1>1. /\ s \in Nat /\ s * PerSecond <= signed /\ signed < (s + 1) * PerSecond
    BY WholeSeconds
  <1>2. /\ instant \in Nat /\ second \in Nat
        /\ second * PerSecond <= instant /\ instant < (second + 1) * PerSecond
    BY InstantType, WholeSeconds DEF second
  <1>3. ExpiresIn \in Nat /\ PerSecond \in Nat
    BY AccountAssumption
  <1> HIDE DEF s
  <1>4. ASSUME instant < signed + ExpiresIn * PerSecond PROVE ~(s + ExpiresIn < second)
    <2>1. second * PerSecond < (s + 1) * PerSecond + ExpiresIn * PerSecond
      BY <1>1, <1>2, <1>3, <1>4
    <2>2. second * PerSecond < (s + 1 + ExpiresIn) * PerSecond
      BY <1>1, <1>2, <1>3, <2>1
    <2>3. second < s + 1 + ExpiresIn
      BY <1>1, <1>2, <1>3, <2>2, SecondsOrdered
    <2> QED
      BY <1>1, <1>2, <1>3, <2>3
  <1>5. ASSUME ~(s + ExpiresIn < second) PROVE instant < signed + (ExpiresIn + 1) * PerSecond
    <2>1. second + 1 <= s + (ExpiresIn + 1)
      BY <1>1, <1>2, <1>3, <1>5
    <2>2. (second + 1) * PerSecond <= (s + (ExpiresIn + 1)) * PerSecond
      BY <1>1, <1>2, <1>3, <2>1
    <2>3. (s + (ExpiresIn + 1)) * PerSecond = s * PerSecond + (ExpiresIn + 1) * PerSecond
      BY <1>1, <1>3
    <2> QED
      BY <1>1, <1>2, <1>3, <2>2, <2>3
  <1> QED
    BY <1>4, <1>5 DEF s

\* A session is let in for its time from its signing, until a restart without
\* JWT_SECRET, and less than a second longer.
THEOREM SessionsLastTheirTime == AccountsSpec => []SessionsLast
  <1>1. AccountsTypeOK /\ SessionsSound => SessionsLast
    <2> SUFFICES ASSUME AccountsTypeOK, SessionsSound, NEW b \in Browsers, browser[b] # None
                 PROVE  LET session == browser[b].session
                        IN /\ instant < session.signed + ExpiresIn * PerSecond =>
                                (Admitted(b) <=> jwtSecret \/ session.start = start)
                           /\ Admitted(b) =>
                                instant < session.signed + (ExpiresIn + 1) * PerSecond
      BY DEF SessionsLast
    <2> DEFINE session == browser[b].session
               exp == (session.signed \div PerSecond) + ExpiresIn
    <2>1. browser[b] \in Cookie /\ session.signed \in Nat /\ browser[b].until \in Nat
      BY DEF AccountsTypeOK, Cookie, Session
    <2>2. /\ SessionSound(session)
          /\ session.signed + ExpiresIn * PerSecond <= browser[b].until
      BY DEF SessionsSound, CookieSound
    <2>3. /\ session.token.exp = exp
          /\ session.token.secret = IF jwtSecret THEN 0 ELSE session.start
          /\ users[session.token.sub] # None
      BY <2>2 DEF SessionSound
    <2>4. /\ instant < session.signed + ExpiresIn * PerSecond => ~(exp < second)
          /\ ~(exp < second) => instant < session.signed + (ExpiresIn + 1) * PerSecond
      BY <2>1, TokenTime
    <2>5. instant < session.signed + ExpiresIn * PerSecond => CookieSent(b)
      <3>1. ExpiresIn * PerSecond \in Nat
        BY AccountAssumption
      <3> QED
        BY <2>1, <2>2, <3>1, InstantType DEF CookieSent
    <2>6. jwtSecret \in BOOLEAN /\ start \in Nat \ {0} /\ session.start \in Nat \ {0}
      BY <2>1, AccountAssumption DEF AccountsTypeOK, Cookie, Session
    <2>7. Verify(session.token) <=> (jwtSecret \/ session.start = start) /\ ~(exp < second)
      BY <2>3, <2>6 DEF Verify, Secret
    <2>8. Admitted(b) <=> CookieSent(b) /\ Verify(session.token)
      BY <2>3 DEF Admitted
    <2> HIDE DEF exp, session
    <2>9. /\ instant < session.signed + ExpiresIn * PerSecond =>
               (Admitted(b) <=> jwtSecret \/ session.start = start)
          /\ Admitted(b) => instant < session.signed + (ExpiresIn + 1) * PerSecond
      BY <2>4, <2>5, <2>7, <2>8
    <2> QED
      BY <2>9 DEF session
  <1> QED
    BY <1>1, SessionsInit, SessionsStep, AccountsTypeCorrect, PTL DEF AccountsSpec

-----------------------------------------------------------------------------
(* The types of AiSettings.                                                  *)

LEMMA ConfigType ==
    ASSUME NEW c \in Environments
    PROVE  /\ c \in Config /\ c.production \in BOOLEAN /\ c.provider \in Configurable
           /\ c.envKey \in BOOLEAN /\ c.secret \in Secrets \cup {None}
  BY AiAssumption DEF Config

LEMMA ProviderType ==
    ASSUME AiTypeOK
    PROVE  /\ \A p \in Configurable : AvailableProvider(p) \in Configurable
           /\ DefaultProvider \in Configurable /\ CurrentProvider \in Configurable
           /\ aiSettings # None => aiSettings \in AiRow /\ aiSettings.provider \in Configurable
  BY DEF AiTypeOK, AvailableProvider, DefaultProvider, CurrentProvider, Configurable, Providers,
         AiRow, Config

LEMMA HeldRowType == ASSUME AiTypeOK PROVE HeldRow \in AiRow
  BY ProviderType DEF HeldRow, NewRow, AiRow

LEMMA PatchedType ==
    ASSUME AiTypeOK, NEW row \in AiRow, NEW provider \in Providers \cup {None},
           NEW model \in GivenModels, NEW key \in GivenKeys
    PROVE  Patched(row, provider, model, key) \in AiRow
  <1>1. EncryptionSecret \in Secrets \cup {DevSecret}
    BY DEF AiTypeOK, Config, EncryptionSecret
  <1>2. [secret |-> EncryptionSecret, blank |-> key = "blank"] \in Key
    BY <1>1 DEF Key
  <1>3. row.provider \in Configurable /\ row.model \in Models \cup {None} /\ row.key \in Key \cup {None}
    BY DEF AiRow
  <1> QED
    BY <1>2, <1>3 DEF Patched, AiRow, GivenModels, GivenKeys, Configurable

LEMMA AiTypeInit == AiInit => AiTypeOK
  BY AiAssumption DEF AiInit, AiTypeOK

LEMMA AiTypeStep == AiTypeOK /\ [AiNext]_aiVars => AiTypeOK'
  <1> SUFFICES ASSUME AiTypeOK, [AiNext]_aiVars PROVE AiTypeOK'
    OBVIOUS
  <1>1. ASSUME NEW p \in AiPatches, NEW provider \in Providers \cup {None},
               NEW model \in GivenModels, NEW key \in GivenKeys,
               PatchSettings(p, provider, model, key)
        PROVE  AiTypeOK'
    <2>1. Patched(HeldRow, provider, model, key) \in AiRow
      BY HeldRowType, PatchedType
    <2>2. (aiSettings = None) \in BOOLEAN /\ Fits(provider, model) \in BOOLEAN
      BY DEF Fits
    <2>3. [row |-> Patched(HeldRow, provider, model, key), insert |-> aiSettings = None,
           fits |-> Fits(provider, model)] \in AiPatch
      BY <2>1, <2>2 DEF AiPatch
    <2> QED
      BY <1>1, <2>3 DEF PatchSettings, AiTypeOK
  <1>2. ASSUME NEW p \in AiPatches, PatchSettingsSave(p) PROVE AiTypeOK'
    BY <1>2 DEF PatchSettingsSave, AiTypeOK, AiPatch
  <1>3. CASE AiRestart
    BY <1>3, AiAssumption DEF AiRestart, AiTypeOK
  <1>4. CASE UNCHANGED aiVars
    BY <1>4 DEF aiVars, AiTypeOK
  <1> QED
    BY <1>1, <1>2, <1>3, <1>4 DEF AiNext

\* Every variable of the AI settings keeps its type.
THEOREM AiTypeCorrect == AiSpec => []AiTypeOK
  BY AiTypeInit, AiTypeStep, PTL DEF AiSpec

-----------------------------------------------------------------------------
(* The settings page and the calls.                                          *)

LEMMA DemoIsAvailable ==
    ASSUME AiTypeOK, CurrentProvider = "demo" PROVE DemoAvailable
  BY DEF CurrentProvider, DefaultProvider, AvailableProvider

\* What is shown as ready is accepted by a call but for a key of another secret, a
\* blank key and an unknown provider, and what a call accepts is shown as ready,
\* across restarts in another environment.
THEOREM ShownSettingsAreAccepted == AiSpec => []ShownIsAccepted
  <1>1. AiTypeOK => ShownIsAccepted
    <2> SUFFICES ASSUME AiTypeOK PROVE ShownIsAccepted
      OBVIOUS
    <2> DEFINE s == RuntimeSettings
    <2>1. s.provider = CurrentProvider /\ (s.key <=> HasKey /\ ~BlankKey)
      BY DEF RuntimeSettings, HasKey, BlankKey
    <2>2. Ready <=> CurrentProvider = "demo" \/ HasKey \/ config.envKey
      BY DEF Ready, PublicSettings
    <2>3. CurrentProvider = "demo" => DemoAvailable
      BY DemoIsAvailable
    <2>4. CallGoesOut(s) <=>
            \/ CurrentProvider = "demo"
            \/ CurrentProvider = "gemini" /\ (s.key \/ config.envKey)
      BY <2>1, <2>3 DEF CallGoesOut, IsConfigured, Providers
    <2>5. ModelsListed(s) <=>
            \/ CurrentProvider = "demo"
            \/ CurrentProvider = "gemini" /\ (s.key \/ config.envKey)
      BY <2>1, <2>3 DEF ModelsListed
    <2>6. Accepted <=> Decryptable /\ CallGoesOut(s)
      BY DEF Accepted
    <2>7. Accepted <=> Decryptable /\ ModelsListed(s)
      BY <2>4, <2>5, <2>6
    <2>8. Accepted => Ready
      BY <2>1, <2>2, <2>4, <2>6
    <2>9. Ready /\ Decryptable /\ CurrentProvider \in Providers /\ ~Accepted
            => BlankKey /\ ~config.envKey
      BY <2>1, <2>2, <2>4, <2>6 DEF Providers
    <2> QED
      BY <2>7, <2>8, <2>9 DEF ShownIsAccepted
  <1> QED
    BY <1>1, AiTypeCorrect, PTL

-----------------------------------------------------------------------------
(* Models of the provider.                                                   *)

\* A row whose model is stored holds one of its provider.
RowFits(row) ==
    row.model # None => row.provider \in Providers /\ row.model \in ModelsOf[row.provider]
RowsFit ==
    /\ aiSettings # None => RowFits(aiSettings)
    /\ \A p \in AiPatches : aiPatch[p] # None => RowFits(aiPatch[p].row)

LEMMA RowsFitInit == AiInit => RowsFit
  BY DEF AiInit, RowsFit

\* A request that fits makes a row that fits.
LEMMA FittingRow ==
    ASSUME AiTypeOK, NEW row \in AiRow, RowFits(row), NEW provider \in Providers \cup {None},
           NEW model \in GivenModels, NEW key \in GivenKeys,
           Fits(provider, model)
    PROVE  RowFits(Patched(row, provider, model, key))
  <1>1. CASE provider = None /\ model = None
    BY <1>1 DEF Patched, RowFits
  <1>2. CASE provider # None /\ model \in ModelsOf[provider]
    <2>1. model # None
      BY <1>2, AiAssumption
    <2> QED
      BY <1>2, <2>1 DEF Patched, RowFits
  <1>3. CASE model = "blank"
    BY <1>3, AiAssumption DEF Patched, RowFits
  <1> QED
    BY <1>1, <1>2, <1>3 DEF Fits

LEMMA RowsFitStep ==
    AiTypeOK /\ RowsFit /\ RequestsFit' /\ [AiNext]_aiVars => RowsFit'
  <1> SUFFICES ASSUME AiTypeOK, RowsFit, RequestsFit', [AiNext]_aiVars PROVE RowsFit'
    OBVIOUS
  <1>1. ASSUME NEW p \in AiPatches, NEW provider \in Providers \cup {None},
               NEW model \in GivenModels, NEW key \in GivenKeys,
               PatchSettings(p, provider, model, key)
        PROVE  RowsFit'
    <2> DEFINE new == [row |-> Patched(HeldRow, provider, model, key),
                       insert |-> aiSettings = None, fits |-> Fits(provider, model)]
    <2>1. aiPatch'[p] = new /\ \A q \in AiPatches : q # p => aiPatch'[q] = aiPatch[q]
      BY <1>1 DEF PatchSettings, AiTypeOK
    <2>2. Patched(HeldRow, provider, model, key) \in AiRow
      BY HeldRowType, PatchedType
    <2>3. new \in AiPatch
      BY <2>2 DEF AiPatch, Fits
    <2>4. Fits(provider, model)
      BY <2>1, <2>3, AiAssumption DEF RequestsFit
    <2>5. RowFits(HeldRow)
      BY DEF HeldRow, NewRow, RowFits, RowsFit
    <2>6. RowFits(new.row)
      BY <2>4, <2>5, HeldRowType, FittingRow
    <2> QED
      BY <1>1, <2>1, <2>6 DEF PatchSettings, RowsFit
  <1>2. ASSUME NEW p \in AiPatches, PatchSettingsSave(p) PROVE RowsFit'
    BY <1>2 DEF PatchSettingsSave, RowsFit, AiTypeOK
  <1>3. CASE AiRestart
    BY <1>3 DEF AiRestart, RowsFit
  <1>4. CASE UNCHANGED aiVars
    BY <1>4 DEF aiVars, RowsFit
  <1> QED
    BY <1>1, <1>2, <1>3, <1>4 DEF AiNext

\* As long as the requests give a provider with a model it serves, the provider
\* is called with a model it serves, in production too.
THEOREM FittingRequestsKeepModel == AiSpec => FittingRequestsFit
  <1>1. AiTypeOK /\ RowsFit => ModelFits
    <2> SUFFICES ASSUME AiTypeOK, RowsFit,
                        CurrentProvider \in Providers
                 PROVE  CurrentModel(CurrentProvider) \in ModelsOf[CurrentProvider]
      BY DEF ModelFits, RuntimeSettings
    <2>1. DefaultModel(CurrentProvider) \in ModelsOf[CurrentProvider]
      BY AiAssumption DEF DefaultModel, Providers
    <2> QED
      BY <2>1 DEF CurrentModel, RowsFit, RowFits
  <1> QED
    BY <1>1, RowsFitInit, RowsFitStep, AiTypeCorrect, PTL DEF AiSpec, FittingRequestsFit
====
