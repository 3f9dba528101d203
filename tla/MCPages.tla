------------------------------ MODULE MCPages -------------------------------
(* Small instances of the components of the web client, with what they use *)
(* of the server.  As in MCServices, a behaviour runs one of them.         *)
EXTENDS BrowserAuth, MemberCache, AdminForms, CronForm, Homepage, SearchBar, AccountPages, MembersPage,
        TLC

VARIABLE part   \* the component that runs

vars == <<part, browserVars, cacheVars, formVars, cronVars, homeVars, searchVars, accountVars, membersVars>>

Parts == {"browser", "cache", "forms", "cron", "home", "search", "account", "members"}

Init ==
  /\ part \in Parts
  /\ BrowserInit /\ CacheInit /\ FormsInit /\ CronInit /\ HomeInit /\ SearchInit /\ AccountInit /\ MembersInit
  /\ part # "cache" => watched = Me /\ ~paid
  /\ part # "forms" => subject = "theater"
  /\ part # "home" => audience = "house" /\ news = {} /\ shows = {}
  /\ part # "account" => account = NoAccount
  /\ part # "members" => roll = [m \in Ids |-> "none"]

Rest ==
  /\ UNCHANGED part
  /\ part # "browser" => UNCHANGED browserVars
  /\ part # "cache" => UNCHANGED cacheVars
  /\ part # "forms" => UNCHANGED formVars
  /\ part # "cron" => UNCHANGED cronVars
  /\ part # "home" => UNCHANGED homeVars
  /\ part # "search" => UNCHANGED searchVars
  /\ part # "account" => UNCHANGED accountVars
  /\ part # "members" => UNCHANGED membersVars

Next ==
  \/ part = "browser" /\ BrowserNext /\ Rest
  \/ part = "cache" /\ CacheNext /\ Rest
  \/ part = "forms" /\ FormsNext /\ Rest
  \/ part = "cron" /\ CronNext /\ Rest
  \/ part = "home" /\ HomeNext /\ Rest
  \/ part = "search" /\ SearchNext /\ Rest
  \/ part = "account" /\ AccountNext /\ Rest
  \/ part = "members" /\ MembersNext /\ Rest

Spec == Init /\ [][Next]_vars

\* The configuration gives sets of different components the same elements, so
\* that one group of permutations serves them all.
Symmetry == Permutations(Tabs)

\* What every component's steps preserve, between any two actions.
PagesInv ==
  /\ part = "browser" => BrowserInv
  /\ part = "cache" => CacheInv
  /\ part = "forms" => FormsInv
  /\ part = "cron" => CronInv
  /\ part = "home" => HomeInv
  /\ part = "search" => SearchInv
  /\ part = "account" => AccountInv
  /\ part = "members" => MembersInv
=============================================================================
