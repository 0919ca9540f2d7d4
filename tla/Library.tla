------------------------------- MODULE Library -------------------------------
(***************************************************************************)
(* One household's recipes that come from pages on the web: ingesting a    *)
(* URL, re-parsing, editing, deleting (routers/recipes.py,                 *)
(* services/catalog.py), under the caps and the monthly ingest quota of    *)
(* Limits.                                                                 *)
(*                                                                         *)
(* The household row, with its tier and its ingest counter, is loaded when *)
(* the caller is authenticated and not read again; a recipe's row is       *)
(* loaded when its handler starts.  Between that and the commit lies the   *)
(* fetch of the page.  A recipe's lines are known by who wrote them: the   *)
(* version of the page, or the member who edited it.                       *)
(***************************************************************************)
EXTENDS Limits, FiniteSets

CONSTANTS
    Urls, Requests,
    StartTier,   \* DEFAULT_HOUSEHOLD_TIER
    MaxRequests, MaxMonth, MaxVersion, MaxChanges  \* bounds

Counter == "counter"
Rows == "rows"

ASSUME LibraryAssumption ==
    /\ {MaxRequests, MaxMonth, MaxVersion, MaxChanges} \subseteq Nat
    /\ StartTier \in Tiers
    /\ {Counter, Rows} \cap Urls = {}

Things == Urls \cup {Counter, Rows}   \* what requests can step on each other at

VARIABLES
    tier,      \* effective_tier of the household
    month,
    counter,   \* ingest_period_started_at and ingests_used
    recipes,   \* recipes with a source_url: the lines and the edited flag
    page,      \* external: the version of each page
    requests,
    served, changes,   \* counted for the bounds
    fetches,   \* history: pages fetched on this month's account
    torn       \* history: what a request wrote after another had written it
               \* since the request read it

vars == <<tier, month, counter, recipes, page, requests, served, changes, fetches, torn>>

Idle == [phase |-> "idle", op |-> "none"]
Stored(u) == recipes[u].stored
Absent == [stored |-> FALSE, edited |-> FALSE, lines |-> {}]
FromPage(v) == [by |-> "page", number |-> v]
ByHand(n) == [by |-> "member", number |-> n]
Recipes == Cardinality({u \in Urls : Stored(u)})

Init ==
    /\ tier = StartTier
    /\ month = 1
    /\ counter = [month |-> 0, used |-> 0]
    /\ recipes = [u \in Urls |-> Absent]
    /\ page = [u \in Urls |-> 1]
    /\ requests = [r \in Requests |-> Idle]
    /\ served = 0 /\ changes = 0
    /\ fetches = 0
    /\ torn = {}

-----------------------------------------------------------------------------

(* The caller and the household are loaded, then the recipe: a URL that is  *)
(* stored already is answered from the library, and a recipe edited here is *)
(* re-parsed by force only.                                                 *)
Arrive(r) ==
    /\ requests[r] = Idle
    /\ served < MaxRequests
    /\ \E op \in {"ingest", "create", "reparse", "update", "delete"}, u \in Urls, force \in BOOLEAN :
        /\ (op \in {"ingest", "create"}) # Stored(u)
        /\ force => op = "reparse"
        /\ (op = "reparse" /\ recipes[u].edited) => force
        /\ requests' = [requests EXCEPT ![r] =
              [phase |-> "loaded", op |-> op, url |-> u, force |-> force, number |-> served + 1,
               tier |-> tier, counter |-> counter, edited |-> recipes[u].edited,
               charged |-> 0, version |-> 0, old |-> {}, behind |-> {}]]
    /\ served' = served + 1
    /\ UNCHANGED <<tier, month, counter, recipes, page, changes, fetches, torn>>

End(r) ==
    /\ requests[r] # Idle
    /\ requests' = [requests EXCEPT ![r] = Idle]
    /\ UNCHANGED <<tier, month, counter, recipes, page, served, changes, fetches, torn>>

(* Request r has committed to the given things and goes on as next. *)
Writes(r, things, next) ==
    /\ requests' = [s \in Requests |->
          CASE s = r -> next
            [] s # r /\ requests[s] # Idle -> [requests[s] EXCEPT !.behind = @ \cup things]
            [] OTHER -> Idle]
    /\ torn' = torn \cup (things \cap requests[r].behind)

(* A counter of an earlier month reads as zero. *)
UsedThisMonth(c) == IF c.month < month THEN 0 ELSE c.used

(* Mutant: the charge is taken after the page has been read. *)
ReserveIngest_Free(r) ==
    LET q == requests[r] IN
    /\ q.phase = "loaded"
    /\ q.op \in {"ingest", "reparse"}
    /\ q.op = "ingest" => ~Refused(q.tier, "recipes", Recipes, 1)
    /\ ~Refused(q.tier, "ingests_per_month", UsedThisMonth(q.counter), 1)
    /\ requests' = [requests EXCEPT ![r].phase = "reserved", ![r].charged = month]
    /\ UNCHANGED <<tier, month, counter, recipes, page, served, changes, fetches, torn>>

(* The recipe allowance first, then the ingest, charged and committed before *)
(* the fetch.  A household without an ingest limit is not counted.           *)
ReserveIngest(r) ==
    LET q == requests[r]  limited == HasLimit(q.tier, "ingests_per_month") IN
    /\ q.phase = "loaded"
    /\ q.op \in {"ingest", "reparse"}
    /\ q.op = "ingest" => ~Refused(q.tier, "recipes", Recipes, 1)
    /\ ~Refused(q.tier, "ingests_per_month", UsedThisMonth(q.counter), 1)
    /\ counter' = IF limited
                  THEN [month |-> month, used |-> UsedThisMonth(q.counter) + 1]
                  ELSE counter
    /\ Writes(r, IF limited THEN {Counter} ELSE {},
              [q EXCEPT !.phase = "reserved", !.charged = month, !.behind = @ \ {Counter}])
    /\ UNCHANGED <<tier, month, recipes, page, served, changes, fetches>>

(* fetch_page and extract_recipe.  A page that cannot be read is End. *)
FetchPage(r) ==
    LET q == requests[r] IN
    /\ q.phase = "reserved"
    /\ fetches' = IF q.charged = month THEN fetches + 1 ELSE fetches
    /\ requests' = [requests EXCEPT ![r].phase = "fetched", ![r].version = page[q.url]]
    /\ UNCHANGED <<tier, month, counter, recipes, page, served, changes, torn>>

(* Mutant: the second look at the allowance is left out. *)
CreateRecipe_Unchecked(r) ==
    LET q == requests[r] IN
    /\ <<q.phase, q.op>> \in {<<"fetched", "ingest">>, <<"loaded", "create">>}
    /\ requests' = [requests EXCEPT ![r].phase = "staged", ![r].version = IF q.op = "create" THEN page[q.url] ELSE @,
                                    ![r].behind = @ \ {Rows}]
    /\ UNCHANGED <<tier, month, counter, recipes, page, served, changes, fetches, torn>>

(* create_recipe_from_payload counts again; the row waits for the commit.   *)
(* POST /recipes, with what an AI read on the page, begins here.            *)
CreateRecipe(r) ==
    LET q == requests[r] IN
    /\ <<q.phase, q.op>> \in {<<"fetched", "ingest">>, <<"loaded", "create">>}
    /\ ~Refused(q.tier, "recipes", Recipes, 1)
    /\ requests' = [requests EXCEPT ![r].phase = "staged", ![r].version = IF q.op = "create" THEN page[q.url] ELSE @,
                                    ![r].behind = @ \ {Rows}]
    /\ UNCHANGED <<tier, month, counter, recipes, page, served, changes, fetches, torn>>

(* set_recipe_ingredients: the lines that are there now will be replaced. *)
SetIngredients(r) ==
    LET q == requests[r] IN
    /\ \/ q.phase = "fetched" /\ q.op = "reparse"
       \/ q.phase = "loaded" /\ q.op = "update"
    /\ Stored(q.url)
    /\ requests' = [requests EXCEPT ![r].phase = "staged", ![r].old = recipes[q.url].lines]
    /\ UNCHANGED <<tier, month, counter, recipes, page, served, changes, fetches, torn>>

-----------------------------------------------------------------------------
(* The household has no such URL: the unique constraint decides. *)
CommitIngest(r) ==
    LET q == requests[r] IN
    /\ q.phase = "staged" /\ q.op \in {"ingest", "create"}
    /\ ~Stored(q.url)
    /\ recipes' = [recipes EXCEPT ![q.url] =
                     [stored |-> TRUE, edited |-> FALSE, lines |-> {FromPage(q.version)}]]
    /\ Writes(r, {q.url, Rows}, Idle)
    /\ UNCHANGED <<tier, month, counter, page, served, changes, fetches>>

(* An UPDATE writes what differs from what was loaded. *)
Flag(q, edited) == IF edited = q.edited THEN recipes[q.url].edited ELSE edited

(* Mutant: the lines that were there stay. *)
Replaced_Added(q, line) == recipes[q.url].lines \cup {line}

Replaced(q, line) == (recipes[q.url].lines \ q.old) \cup {line}

CommitReparse(r) ==
    LET q == requests[r] IN
    /\ q.phase = "staged" /\ q.op = "reparse"
    /\ Stored(q.url)
    /\ recipes' = [recipes EXCEPT ![q.url].edited = Flag(q, FALSE),
                                  ![q.url].lines = Replaced(q, FromPage(q.version))]
    /\ Writes(r, {q.url}, Idle)
    /\ UNCHANGED <<tier, month, counter, page, served, changes, fetches>>

CommitUpdate(r) ==
    LET q == requests[r] IN
    /\ q.phase = "staged" /\ q.op = "update"
    /\ Stored(q.url)
    /\ recipes' = [recipes EXCEPT ![q.url].edited = Flag(q, TRUE),
                                  ![q.url].lines = Replaced(q, ByHand(q.number))]
    /\ Writes(r, {q.url}, Idle)
    /\ UNCHANGED <<tier, month, counter, page, served, changes, fetches>>

DeleteRecipe(r) ==
    LET q == requests[r] IN
    /\ q.phase = "loaded" /\ q.op = "delete"
    /\ Stored(q.url)
    /\ recipes' = [recipes EXCEPT ![q.url] = Absent]
    /\ Writes(r, {q.url, Rows}, Idle)
    /\ UNCHANGED <<tier, month, counter, page, served, changes, fetches>>

-----------------------------------------------------------------------------
NextMonth ==
    /\ month < MaxMonth
    /\ month' = month + 1
    /\ fetches' = 0
    /\ UNCHANGED <<tier, counter, recipes, page, requests, served, changes, torn>>

(* The page is rewritten; the household is granted another tier, or lapses. *)
PageChanges(u) ==
    /\ page[u] < MaxVersion
    /\ page' = [page EXCEPT ![u] = @ + 1]
    /\ UNCHANGED <<tier, month, counter, recipes, requests, served, changes, fetches, torn>>

TierChanges ==
    /\ changes < MaxChanges
    /\ changes' = changes + 1
    /\ tier' \in Tiers \ {tier}
    /\ UNCHANGED <<month, counter, recipes, page, requests, served, fetches, torn>>

Next ==
    \/ \E r \in Requests :
        \/ Arrive(r) \/ ReserveIngest(r) \/ FetchPage(r) \/ CreateRecipe(r) \/ SetIngredients(r)
        \/ CommitIngest(r) \/ CommitReparse(r) \/ CommitUpdate(r) \/ DeleteRecipe(r)
        \/ End(r)
    \/ \E u \in Urls : PageChanges(u)
    \/ NextMonth
    \/ TierChanges

Spec == Init /\ [][Next]_vars

-----------------------------------------------------------------------------
TypeOK ==
    /\ tier \in Tiers
    /\ month \in 1..MaxMonth
    /\ counter \in [month : 0..month, used : 0..MaxRequests]
    /\ \A u \in Urls : Stored(u) \/ recipes[u] = Absent
    /\ \A u \in Urls : \A line \in recipes[u].lines :
          line.number \in IF line.by = "page" THEN 1..page[u] ELSE 1..served
    /\ torn \subseteq Things

(* A recipe's lines are of one hand: the page's of one version when it is   *)
(* not marked as edited, a member's when it is, unless requests overlapped  *)
(* on it.                                                                   *)
LinesAreOfOneHand ==
    \A u \in Urls \ torn :
        Stored(u) => \E line \in recipes[u].lines :
                        /\ recipes[u].lines = {line}
                        /\ (line.by = "member") = recipes[u].edited

(* Every page fetched this month was charged for, however many recipes have *)
(* been deleted since, unless two requests charged at once; on a server     *)
(* whose ceiling limits every tier.                                         *)
FetchesAreCharged ==
    (Counter \notin torn /\ Ceilings["ingests_per_month"] # NoLimit) => fetches <= UsedThisMonth(counter)

(* What GET /limits would publish now is what the next write would meet. *)
LimitsKeepTheirWord ==
    /\ PublishedIsEnforced(tier, "recipes", Recipes)
    /\ PublishedIsEnforced(tier, "ingests_per_month", UsedThisMonth(counter))

(* No write takes the library past the allowance of the tier its request    *)
(* saw, unless two requests added at once.                                  *)
RecipesStayWithinCap ==
    [][(Recipes' > Recipes /\ Rows \notin torn') =>
          \E r \in Requests : requests[r].phase = "staged" /\ requests'[r] = Idle
                              /\ ~Exceeds(Recipes', Effective(requests[r].tier, "recipes").limit)]_vars
=============================================================================
