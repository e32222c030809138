---- MODULE MCAgencyServices ----
(***************************************************************************)
(* The services beside the core, for TLC.  They share no state, so that a  *)
(* behaviour exercises one of them, chosen at the start, while the others  *)
(* stand still: the states are the sum of theirs and not the product.      *)
(***************************************************************************)
EXTENDS NotionConnection, FeedIngestion, AiSettings, Accounts,
        IdeaSchedule, IdeaCalendar, DuplicateScore, NotionMapping

CONSTANTS l1, gm, dm, i1, A1, a1, c1    \* a link, two models, an account, three addresses

VARIABLE
    part            \* the service this behaviour exercises

servicesVars ==
    <<part, connectionVars, feedVars, aiVars, accountVars, scheduleVars, call>>

\* The others start in one of their initial states.
ServicesInit ==
    /\ part \in {"connection", "feeds", "ingestions", "ai", "accounts",
                 "sessions", "schedule", "calls"}
    /\ ConnectionInit /\ (part # "connection" => owners = {})
    /\ FeedInit
    /\ part \notin {"feeds", "ingestions"} => \A f \in FeedIds : web[f] = <<>>
    /\ AiInit /\ (part # "ai" => config.production /\ config.envKey)
    /\ AccountsInit /\ (part # "sessions" => jwtSecret)
    /\ ScheduleInit /\ call = None

\* Of the feeds, either PATCH requests run beside one ingestion or two ingestions
\* beside each other.
\* Of the accounts, either registrations race each other or time passes over the
\* sessions of one account.
\* PATCH requests of the AI settings that overlap are about to save the same key.
OneKey == Cardinality({aiPatch[p].row.key : p \in {p \in AiPatches : aiPatch[p] # None}}) <= 1
OneService ==
    \/ /\ part = "connection" /\ ConnectionNext
       /\ UNCHANGED <<feedVars, aiVars, accountVars, scheduleVars, call>>
    \/ /\ FeedNext
       /\ \/ part = "feeds" /\ \A i \in Hourly : ingestion'[i] = None
          \/ part = "ingestions" /\ UNCHANGED feedEdit
       /\ UNCHANGED <<connectionVars, aiVars, accountVars, scheduleVars, call>>
    \/ /\ part = "ai" /\ AiNext /\ OneKey'
       /\ UNCHANGED <<connectionVars, feedVars, accountVars, scheduleVars, call>>
    \/ /\ AccountsNext
       /\ \/ part = "accounts" /\ instant' = 0 /\ start' = 1
          \/ part = "sessions" /\ \A u \in UserIds \ {i1} : users'[u] = None
       /\ UNCHANGED <<connectionVars, feedVars, aiVars, scheduleVars, call>>
    \/ /\ part = "calls" /\ (AskCalendar \/ AskScore \/ AskMapping \/ Return)
       /\ UNCHANGED <<connectionVars, feedVars, aiVars, accountVars, scheduleVars>>
    \/ /\ part = "schedule" /\ ScheduleNext
       /\ UNCHANGED <<connectionVars, feedVars, aiVars, accountVars, call>>
ServicesNext == OneService /\ UNCHANGED part

ServicesSpec == ServicesInit /\ [][ServicesNext]_servicesVars

-----------------------------------------------------------------------------
(* The instance.                                                           *)

SomeListings == {<<>>, <<l1, l1>>}

SomeModelsOf == [p \in Providers |-> IF p = "demo" THEN {dm} ELSE {gm}]
SomeConfiguredModel == [p \in Providers |-> IF p = "demo" THEN dm ELSE gm]
Environment(production, provider, envKey, secret) ==
    [production |-> production, provider |-> provider, envKey |-> envKey, secret |-> secret]
SomeEnvironments ==
    {Environment(FALSE, "demo", FALSE, None), Environment(FALSE, "gemini", TRUE, "s"),
     Environment(TRUE, "demo", FALSE, "s"), Environment(TRUE, "other", TRUE, "s")}

\* A1 is a1 typed another way.
SomeNormalizeEmail == [e \in {A1, a1, c1} |-> IF e = A1 THEN a1 ELSE e]

\* Paris in spring, New York in autumn, Sydney in spring, and clocks that
\* change long before or long after.
SomeZones ==
    [before : {1}, after : {2}, change : {73, 97, 900}]
        \cup [before : {-4}, after : {-5}, change : {78, -900}]
        \cup [before : {10}, after : {11}, change : {64}]
TenDays == 0..240

\* Scores 0, 18 (17.6), 20, 35, 46 and 67, against an idea of ten words.
SomeItems ==
    {[shared |-> s[1], words |-> s[2]] :
        s \in {<<0, 0>>, <<3, 10>>, <<4, 14>>, <<7, 17>>, <<6, 9>>, <<8, 10>>}}
SomeCorpora == {<<>>} \cup [1..2 -> SomeItems] \cup [1..4 -> SomeItems]

SomeTexts == {<<>>, <<"a">>, <<"a", "b">>}
SomeTopics == {<<>>, <<"t">>, <<"t", "u">>}
SomeLabels == {"A lire", "a lire", "Validee", "validee", "Archivee", "archivee", "autre"}
SomeStatusLabel == [TO_REVIEW |-> "A lire", REVIEWED |-> "Validee", SHARED |-> "Archivee"]
SomeLowerCase ==
    [l \in SomeLabels |->
        CASE l = "A lire" -> "a lire" [] l = "Validee" -> "validee"
          [] l = "Archivee" -> "archivee" [] OTHER -> l]
====
