# A verification project for the meals backend

`src/` is a household meal planner: a FastAPI backend over SQLAlchemy
(`src/backend/app`), an iOS client with an offline queue (`src/ios`), a web client
(`src/web`), an MCP server (`src/mcp`) and scripts around them. This directory holds
TLA+ models of the parts that keep state and have to agree with each other, the
TLC runs that check them, and TLAPS proofs about them.

## Inventory

One request is one handler on one database session. Unless noted, a handler is one
transaction (it commits once, at its end), Postgres runs at READ COMMITTED, there are
no row locks, and only the unique constraints named below exist. An UPDATE names only the
columns that changed. Authenticating a request commits before its handler starts, and the
user and household it loaded are not read again.

| component | state | operations | what makes it correct | module |
|---|---|---|---|---|
| Shopping list (`services/shopping.py`, `routers/shopping.py`) | lists (one live), lines, source rows | read, add, patch, delete, archive; contributions of plan meals | every line has a reason and every reason a line; hand-added needs are never lost; ticks survive edits that change nothing | `ShoppingList`, `ResyncLoop`, `LiveList` |
| Recipe library (`routers/recipes.py`, `services/catalog.py`) | recipes, their lines | create, ingest, edit, re-parse, delete | an edit reaches the list of every meal using it; a page never overwrites a member's lines | `ShoppingList`, `Library` |
| Meals, plans (`routers/meals.py`, `routers/plans.py`) | links with a scale, loose ingredients; plan meals | create, copy, edit, add, remove, archive | the list follows the composition; archived plans need nothing | `ShoppingList` |
| Cooking history (`services/cooking.py`) | cooked events, counters | record, undo | counters equal the events; one event per cooked plan meal | `CookedHistory` |
| Ingredients (`services/ingredient_names.py`, `services/ingredient_merge.py`, `routers/ingredients.py`) | rows (name unique, key not) | get or create, merge, delete | one row per food; a merge loses nothing | `IngredientNames`, `Catalogue` |
| Units, aisles, recipe lines (`services/units.py`, `services/aisles.py`, `services/recipe_parser.py`) | none | parse, normalise, accept | what is stored is acceptable again and means the same | `WordForms`, `Units`, `RecipeLines`, `Pantry` |
| Freezer (`services/freezer.py`) | batches and portions | add, correct, take, remove | what people were told is left is left | `Freezer` |
| Supermarkets (`services/supermarkets.py`) | stores, one active | create, rename, activate, delete | the active one is the one last chosen | `Supermarkets` |
| iOS offline queue (`ShoppingListStore.swift`) | pending operations, id remap, cached list | enqueue, sync, replay | nothing typed is lost; a retry does nothing twice | `OfflineQueue` |
| Accounts (`routers/auth.py`, `services/accounts.py`) | users, households, leads, invites | register, join, leave, hand over, delete | a household has a lead who is in it; no invite is used twice; nobody's data goes without consent | `Household` |
| Sessions, codes, rate limiter (`deps.py`, `routers/auth.py`) | tokens, reset codes, windows | log in, change, reset, revoke, limit | sessions end with the password; guesses are bounded | `AuthTokens`, `RateLimiter` |
| Tier limits (`limits.py`) | the monthly ingest counter | enforce, reserve, publish | what is published is enforced; what was fetched is charged | `Limits`, `Library` |
| Billing (`services/billing.py`, `services/entitlements.py`) | entitlement, event ledger | checkout, webhook, grant, extend, revoke | an event acts once; credit follows payment | `Billing`, `Webhook`, `Entitlements`, `EventLedger` |
| Dunning (`services/dunning.py`) | two marks on the household | daily run | each mail goes out, once | `Dunning` |
| Client gate, export and serializers, metrics, mail transport, configuration, migrations, web client, MCP server, scripts | none of their own, or read-only | | | not modelled, see the end |

The hard behaviours are sequences of planning steps and edits that reach the same list
through different handlers, retries of a client that did not hear the answer, handlers that
read before another commits, and work done outside the database (a webhook, a mail, a
fetched page) that cannot be rolled back.

## Overlapping requests

No handler locks what it reads, so two requests about one row can each decide on what the
other is about to change. The code accepts this, and almost nothing one would like to say
of a household survives it. The modules with requests in flight therefore have all their
steps, and a history variable for what requests stepped on each other at: `torn` (in
`Session`, `Library`, `Household`), `raced` and `crossed` (`AuthTokens`), `overlapped`
(`CookedInTurn`), `undisturbed` (`Dunning`) and `inOrder` (`Billing`). A property speaks
of everything outside it. This is weaker than "one request at a time": requests overlap all
the time in these runs, a household is written to by two of them while a third person's is
not, and something is torn only once a request commits to it after another has committed to
it since the first read it. What happens to what is torn is said with each module below.

## Plan

Modelled and checked: all modules named above. Proved, for every value of the constants: the
safety properties of the runs, but for what is worked out of an ingredient's name
(`FoldKeepsTheFood`), and that `Billing` implements `EventLedger` (see Proofs).

## Modules

### ShoppingList

The content of the database between two transactions. Recipes have lines, meals link
recipes with a scale and have loose lines, plans hold meals (`planned` is the set of
plan meals), and the list tables hold `lines` (`list_items`) and source rows
(`list_item_sources`): `needs` those with a plan meal, `adhoc` those without one. Lists
are numbered; `active` is the live one, 0 before the first request created it, and
smaller numbers are archived.

| code | action |
|---|---|
| `POST /recipes`, an ingest | `CreateRecipe` |
| `PATCH /recipes/{id}` with ingredients, `reparse` | `UpdateRecipe` |
| `DELETE /recipes/{id}` | `DeleteRecipe` |
| `POST`, `PATCH`, `DELETE /meals` | `CreateMeal`, `UpdateMeal`, `DeleteMeal` |
| `POST /plans`, with `copy_from_plan_id` | `CreatePlan`, `CopyPlan` |
| `POST`, `DELETE /plans/{id}/meals` | `AddMeal`, `RemoveMeal` |
| `POST /plans/{id}/archive` | `ArchivePlan` |
| `GET /shopping-list` | `GetShoppingList` (creates the list) |
| `POST`, `PATCH`, `DELETE /shopping-list/items` | `AddItem`, `UpdateItem`, `DeleteItem` |
| `POST /shopping-list/archive` | `ArchiveList` |
| `POST /ingredients/{id}/merge` | `MergeIngredients` |

A line is identified by (ingredient, unit); quantities are natural numbers with 0 for
"no amount stated" (a stated amount is positive); names and wording are left out. Row
ids are left out too: a plan meal is the pair (plan, meal), which the database keeps
unique, and removing one removes its rows. Two hand-added rows without a client id on
one line are one row of the model: no property counts them.

`Resync` gives the effect of `resync_meal_contributions` in one formula. The code is a
loop: for each plan meal, remove its rows (deleting lines left without any), add them
again, give back the flags of the lines whose total it did not change. In the middle a
line may be deleted and created anew, so the formula depends on the order in which the
plan meals come (`rank`), which no query orders.

### ResyncLoop

The loop itself, as a recursive function of how many plan meals have had their turn; a turn is
`TurnRemove`, `TurnAdd` and `TurnRestore`, the two calls and the restoring loop of the code.
`LoopAgrees` says that in every reachable state, for every edit and every order, it ends where
`Resync` says. It is checked for the plan meals of the run and proved for any finite number.

### CookedHistory

What is behind "cooked": the tick on a plan meal (`cooked_at`), the durable events, and the
counters on meals and recipes that `_refresh` recounts from them. Here requests overlap, so
marking and undoing are split where the code touches the database:

| code | action |
|---|---|
| `POST .../cooked`, up to its first write: `get_plan`, the test of `cooked_at` | `MarkCooked` |
| `DELETE .../cooked`, likewise | `UndoMarkCooked` |
| the UPDATE of the plan meal with the events of `record_cooked` | `RecordCooked` |
| the same with the events of `undo_cooked` | `UndoCooked` |
| the count of one meal or recipe in `_refresh` | `Refresh` |
| the commit; a rollback | `Commit`, `Abort` |
| other handlers that reach a plan meal, meal, recipe or event | `AddMeal`, `RemoveMeal`, `UpdateMeal`, `DeleteMeal`, `DeleteRecipe` |

The UPDATE of the plan meal takes its row lock: a second request on the same plan meal
waits there (`Locked`) until the first has ended, but what it decided from its own read
stands. Counts see what has been committed and the request's own events. `Commit` writes
only the counters that differ from what the request had loaded (`seen`), as the ORM does.
Events outlive what they refer to: removing a plan meal, meal or recipe sets the reference
null (`NoPlanMeal`, `Gone`). The other handlers are single steps, and a request whose plan
meal is removed between its read and its write fails (`FailReaders`). `CookedInTurn` adds the
history variable `overlapped`, which the counters' invariant is about.

### OfflineQueue

The phone (`pending`, `cache`, `sync`, `tasks`), the server's list (`lines`, `sources`,
`needed`, `live`) and other people. The store is bound to the main actor, so whatever it
does between two awaits is one step; a request has a step on the server and a step that
receives the answer, and between them the user, others, a lost connection or a restart.

| code | action |
|---|---|
| `addAdhoc`, `toggleChecked` and its four siblings, `deleteAdhoc` | `addAdhoc`, `toggle`, `deleteAdhoc` |
| the `Task` of `enqueue` reaching `sync` | `RunTask` |
| `sync` from a view (`.task`, `.refreshable`) | `Refresh` |
| the request of `replay`, handled by the server | `DeliverAdd`, `DeliverSet`, `DeliverDelete`, `DeliverError` |
| the loop of `sync` taking an answer | `Receive` |
| the refetch, handled; and taken | `DeliverFetch`, `ReceiveList` |
| transport failure or 401 | `Lose` |
| the app killed, `load` | `Restart` |
| other clients, `finishShop` | `OthersAdd`, `OthersSet`, `OthersDelete`, `AddMeal`, `RemoveMeal`, `Archive` |

`projectedItems` is the display: the cached list with the queue applied, which is `shown[n]`
for the first `n` operations and all of them in the end; the cache is a set of items, as the
screens sort them. Ids are numbers: an
add of the phone has its operation's number, which it offers the server both as the line's
id and as the client key. A name stands for ingredient and unit; quantities, aisle order
and filters are left out. `taken` counts how often each add took effect and is there for
the properties. A request the client has given up on is either handled before that or
never; one that reaches the server later still is not in the model.

### Session

The unit of work of the modules below it: a request opens with what it read (`about`), goes
on (`GoesOn`) where the handler flushes or reads again, and commits. A commit to something
that another request committed to since this one opened adds it to `torn`. A request may end
without committing in any phase (`End`): an error, a cancelled client, a restart.

### Freezer, Supermarkets, LiveList, Kitchen

| code | action |
|---|---|
| `POST /freezer`: the count for the limit; the insert | `CountBatches`, `AddBatch` |
| `PATCH`, `POST .../take`, `DELETE`: the row is loaded; the commit | `GetItem`; `Recount`, `TakePortions`, `RemoveFromFreezer` |
| `POST /supermarkets`, `PATCH`, `DELETE`: the reads | `AskCreate`, `GetMarket` |
| `_deactivate_all`, which locks the rows it finds active | `DeactivateAll` |
| the commits | `CreateSupermarket`, `UpdateSupermarket`, `DeleteSupermarket` |
| `get_active_list`; reading; adding; deleting a line; archiving | `GetActiveList`; `GetShoppingList`; `FindItem`, `AddItem`; `DeleteItem`; `ArchiveAndReplace` |

`said` and `chosen` are what the household was told and what it asked for, in the order of
the answers. Two takes from one batch that overlap lose one of them; two activations leave
two stores active, of which the list is sorted for one; two first requests make two live
lists, of which the older one is used from then on; two adds of a need make two lines. What a
line says and what meals contribute is `ShoppingList`'s and is left out here. The three share
no row, so `Kitchen` composes them as alternatives: a behaviour is about one, chosen at the
start.

### Billing, Webhook, Entitlements, EventLedger

| code | action or operator |
|---|---|
| `verify`, `parse` | `Webhook!Verify`, `Webhook!Parse` |
| `POST /billing/webhook`, `handle` up to its first write | `Receive` (`Handle`, `Decide`) |
| `entitlements.grant` or `revoke`, which commit | `Act`; `FailUpdate` when the household is gone |
| `_record`, which commits; the answer | `Record`, `Answer` |
| `POST /billing/checkout` | `Checkout` |
| `python -m app.entitlements`: the row is loaded; changed | `Command`; `Run` |
| `delete_user` taking the household along | `DeleteHousehold` |
| a crash, a lost answer | `Crash`, the second disjunct of `Answer` |
| external: the processor | `Charge`, `End`, `Chatter`, `Deliver` |

`Entitlements` has the household's row and what is computed from it: `Emit` is the UPDATE of
the columns that changed, which is what makes two grants that overlap mix. `EventLedger` is
what the ledger promises whatever is delivered twice, late or in parallel, and `LedgerSpec`
says that `Billing` implements it, with `acted` for the events that took effect. An event may
take effect more than once (a crash between the grant and the record), which is why the
abstract `Act` allows it and only rules out that it first does so after it was recorded.

What the ledger does not order: a payment's event handled after the end of the same
subscription credits it again, and one handled between another's read and write mixes with
it; `inOrder` is false then, and no property speaks of credit. An ignored event that names a
deleted household is never recorded: its ledger row refers to the household, the insert is
refused, the answer is a 500 and the processor sends it again until it tires
(`PaymentsAreAnswered` is about payments and ends, which are recorded as orphans).

### Dunning

| code | action |
|---|---|
| `python -m app.dunning`: the households with an expiry are read, `due` | `Start` |
| one mail, sent or refused by the relay | `Send`, `FailToSend` |
| the commit of the marks of all that were sent | `Finish` |
| the job dies before it | `JobDies` |
| a grant, extension or revocation: the row is loaded; the commit | `Load`; `Change` |

`sent` counts mails by household, kind and expiry. A third mail about one expiry is possible: a
job that dies after sending sends again, and a change that gives a household an expiry it had
already been written to about clears the marks: a payment event for the period already on the
row, or a revocation followed by a grant up to the same day. `repeats` counts these changes and
`AgainOnlyForACause` allows for exactly these. A change that overlaps a run can have its cleared
mark overwritten by the run's, so that the lapse of the renewed period is never announced; such
a household leaves `undisturbed`. The names differ from those of `Billing`, so that one module
can speak of both.

### Household

| code | action |
|---|---|
| `get_current_user`, which commits | `Arrive` (`Authenticate`) |
| `POST /auth/register`, alone or with an invite | `Register` |
| `PATCH /auth/household` (the lead), `DELETE .../members/{id}` | `UpdateHousehold`, `RemoveMember` |
| `POST`, `DELETE /auth/invites`, `POST /auth/invites/redeem` | `CreateInvite`, `RevokeInvite`, `RedeemInvite` |
| `DELETE /auth/me` | `DeleteAccount` |
| the commit of what the handler staged; an error or rollback | `Commit`, `End` |
| recipes and the like; an invite's time running out | `AddContent`, `Expire` |

A member carries the time of joining and the time the account was made, which is what the choice
of a lead orders by. A commit does what was staged in the order of the code, if the database
lets it (`Lands`: foreign keys, the unique e-mail address, UPDATEs that must find their row).
Households and the people in them are what requests step on each other at.

Two joint requests can redeem one invite, leave a household without a lead, or delete a
library nobody agreed to lose. One of these contradicts the code's own words and is a finding:
a deletion of an account that is sent twice (`household_deleted`). The next lead is the one
with the oldest account, though `next_lead` is documented as the longest-standing member: with
people who joined later under older accounts the two differ. No property depends on it.

### AuthTokens, RateLimiter

| code | action |
|---|---|
| `auth_rate_limit`: the look at the window; the charge (a plain function, run in a thread) | `Arrive`; `ChargeIt` |
| the test of the password, code or token, `forgive_auth_attempt` | `Verify` |
| the commits of log in, change of password, code request, confirmation | `Login`, `ChangePassword`, `RequestPasswordReset`, `ConfirmPasswordReset` |
| the mail with a code, after its commit | `SendCode` |
| `DELETE /auth/tokens/{id}`; tokens running out; a restart, which empties the windows | `RevokeApiToken`; `Expire`; `Restart` |

A password is a number in the order of choosing. `attempts` are the charged tries of the last
minute with what became of them, `codes` the reset codes ever committed. A log in that proved
the old password before a change of it commits leaves a session of a password no longer in
force; two requests for a code leave two; forgiving takes the latest charge of the client,
which may by then be another attempt's. All three need two requests in flight about the same
user or client, and are what `raced` and `crossed` exclude.

### Limits, Library

`Limits` has no state: the table of limits (`Table`, the profile with the settings' overrides
applied), what `enforce` refuses (`Verdict`, `Refused`) and, written separately in the code,
what `GET /limits` publishes (`Effective`, `Remaining`). `Library` is one household's recipes
from pages:

| code | action |
|---|---|
| the caller and household are loaded, a recipe's row with them | `Arrive` |
| `reserve_ingest`, which commits the counter | `ReserveIngest` |
| `await fetch_page`, `parse` | `FetchPage` |
| `POST /recipes/ingest`: a new row; an existing one; the commit | `CreateRecipe`, `SetIngredients`, `CommitIngest` |
| `POST /recipes/{id}/reparse`, `PATCH`, `DELETE` | `CommitReparse`, `CommitUpdate`, `DeleteRecipe` |
| the calendar, the page, the tier | `NextMonth`, `PageChanges`, `TierChanges` |

A re-parse tests that the recipe was not edited, awaits the network and then overwrites it, so
an edit made meanwhile is lost and the recipe is marked as edited with the page's lines;
`LinesAreOfOneHand` leaves this to `torn`. `LimitsKeepTheirWord` is about a household that is
under its allowance or has just reached it. Above it (after a downgrade) the published row may
offer an upgrade where a write is refused with 403, because the ceiling is exceeded as well.

### WordForms, IngredientNames, Units, RecipeLines, Catalogue, Pantry

What is written about food: names, lines and ingredient rows. Words are pairs of a stem and an
ending (`<<"tomat", "oes">>`), because endings are what the code looks at; names are sequences
of words; amounts are in ten-thousandths, so that rounding to three places shows. The code's
tables of units are all there; its long lists of food words are constants.

| code | operator or action |
|---|---|
| `wordforms._singular`, `singularize_food` | `Singular`, `SingularizeFood` |
| `canonical_ingredient_name`, `guess_aisle` | `CanonicalIngredientName`, `GuessAisle` |
| `normalize_unit`, `normalize_quantity`, the validators of `IngredientLineIn` | `NormalizeUnit`, `NormalizeQuantity`, `Accepted` (the set of what is stored, empty when refused) |
| `parse_ingredient_line`, `parsed_recipe_to_payload` | `ParseIngredientLine`, `IngestedLine` |
| `get_or_create_ingredient`: the look-up; found; not found | `LookUp`; `UseFound`; `AddIngredient` |
| `POST /ingredients/{id}/merge`: the reads; the repointing | `AskMerge`; `MergeIngredients` |
| `DELETE /ingredients/{id}`; a line that goes | `DeleteIngredient`; `DropLine` |
| a name as it is written; a page's line ingested, a client's sent, a stored one sent back | `SpellOn`; `Ingest`, `Send`, `WriteBack` |

`Catalogue` starts with rows from before names were folded to keys: those the migration gave a
key, and one an older build wrote without. A row's spelling is unique, its key is not.
`Pantry` composes the three as alternatives (its `PantrySpec` has a name of its own, so that one
proof module can speak of it and of `Kitchen`). Abstractions: a keyword of several words matches
as a run of words, where the code looks for a substring; "of" stands for "of" and "de"; what
counts as a number in the text and lines that state one amount in two measures are left out.

What does not hold and is excluded by name: units are looked up as sent and made singular
afterwards, so a plural the tables do not list ("kgs", "tsps") is stored as its singular,
counted as a word, and means a thousand times as much when it is written back; "xes" is stored
as "x", which becomes "item", and of "s" nothing is left that is accepted (`UnlistedPlural`).
Folding a name to its key keeps the longest product among its words whole and drops modifiers
elsewhere; when that makes a second product, first in the name, the key's own key keeps that one
and drops a modifier of the first: "bay fresh leaf chopped tomatoes" has the key "bay leaf
chopped tomato", and that the key "bay leaf tomato" (`Reunited`). Nothing else in the run folds
further. `singularize` (wordforms.py:63) takes "es" off after a hiss without asking whether the
"e" is the word's own: "quiches" and "brioches" fold to "quich" and "brioch", so one and many are
two ingredients, and the suggested aisle, which the written plural has, is lost with the fold
(`MistakenPlural`). That is contrary to the docstring of `TestAisleStillFound`
(tests/unit/test_ingredient_names.py:151, "every folded name must still find the aisle its written
form would have"), whose examples hold no such word. The run spells "quiche" and "quiches", and
`FoldKeepsTheFood` fails on them without the exclusion.
"2 sticks butter" on a page loses its amount, since "stick" is a unit the
parser knows and the API refuses; the line that is stored without it can be written back.

### The proof modules

`ShoppingList_proofs`, `CookedHistory_proofs`, `OfflineQueue_proofs`, `Billing_proofs` (with
`Dunning`), `AuthTokens_proofs`, `Kitchen_proofs` (with `Pantry`), `Library_proofs` and
`Household_proofs` extend what they are about. See Proofs.

## Runs

Every run ends within about two minutes with two workers. Bounds are constants of the
modules and are named there; the bound on requests (`MaxRequests`, `MaxMarks`, `MaxOps`) is a
guard of the step that starts one, so everything that has been started can finish. Where
nothing is claimed about progress, the system may stop at any time and deadlock is not
checked. A type invariant is a run's invariant where it says more than the shape of a record
(`adhoc`); the others are conjuncts of the inductive invariants in the proof modules.

| run | module | states | checks |
|---|---|---|---|
| `adhoc` | `MCShoppingList` | 20,544 | `TypeOK`, `LineIdentity`, `EveryLineHasAReason`, `AdhocNeverLost` |
| `resync` | `MCShoppingList` | 19,949 | `ProvenanceLive`, `InSync`, `LoopAgrees`, `UnchangedNeedKeepsState` |
| `cooked` | `MCCookedHistory` | 464,656 | `CountersMatchInTurn`, `TickedIffRecorded`, `HistoryKept` |
| `offline_replay` | `MCOfflineQueue` | 868,698 | `CountedOnce`, `FollowUpsLandUninterrupted`, `AddsReachTheServer`, `QueueDrains` |
| `billing` | `MCBilling` | 523,041 | `CreditFollowsPayment`, `LedgerSpec`, `FoundingPriceForLife`, `PaymentsAreAnswered` |
| `dunning` | `MCDunning` | 187,003 | `AgainOnlyForACause`, `StateAgreesWithLimits`, `LapseIsTold` |
| `household` | `MCHousehold` | 617,183 | `LeadIsAMember`, `AdmissionsAreOnRecord`, `OnlyOwnersEndAccounts`, `LibraryGoesByConsent` |
| `household_deleted` | `MCHousehold` | violation | `OnlyThisAccountIsDeleted` |
| `tokens` | `MCAuthTokens` | 2,849,180 | `SessionsFollowThePassword`, `OneCodeAtATime`, `BruteForceIsBounded` |
| `library` | `MCLibrary` | 902,216 | `LinesAreOfOneHand`, `FetchesAreCharged`, `LimitsKeepTheirWord`, `RecipesStayWithinCap` |
| `kitchen` | `MCKitchen` | 1,058,696 | `LeftIsAsSaid`, `ActiveIsAsChosen`, `OneLiveList`, `OneLinePerNeed` |
| `pantry` | `MCPantry` | 386,882 | `FoldKeepsTheFood`, `OneRowPerFood`, `LinesCanBeWrittenBack` |

### The shopping list

One recipe, two ingredients, one unit, amounts 0 and 1, two bodies for a recipe, three
compositions for a meal (the recipe, the recipe doubled, a loose line). `adhoc` has one meal,
one plan, one client id and two lists: everything by hand and the end of a shop. `resync` has
two meals on one recipe, two plans and two flags, on a list that is never archived: plan meals
that share what they need, where the order of the loop shows. Two ingredients suffice for every
collision of a merge, two lists for everything that distinguishes live from archived. The
number of actions is unbounded; `MaxLists` is the only bound on behaviours.

In the model, and promised by nobody: a retried add whose list has been archived comes back
on the new one, since the client key is looked up on the live list only; and removing a meal
from its plan after the shop takes its rows off the archived list (the line stays, the reason
goes), because the rows' foreign key to the plan meal cascades.

### Cooking history

One meal in two plans and two recipes, so that an edit can move the meal from one recipe to
the other between a mark and its undo. `MaxMarks` bounds the markings and with them the clock:
four while requests come in turn, two (`MaxOverlapping`) once two have been in flight together.
`TickedIffRecorded` and `HistoryKept` hold whatever overlaps. The counters do not: two
overlapping marks of one plan meal both record a cooking (the test of `cooked_at` is before the
lock), and two that share a recipe count without each other, so the stored counter stays behind
until something recounts. `CountersMatchInTurn` is what is left.

### The offline queue

One name (so that every add merges with what is there) and one flag. `MaxOps` = 3 operations
of the user, `MaxOthers` = 2 of other people, `MaxFaults` = 2 lost requests, error answers and
restarts together. Three operations are the least for an add, a follow-up and one more behind
it; two faults let a retry be interrupted again.

Fairness: the app runs the tasks it started and takes answers that arrived, and the server
answers what it was asked, each weakly fair; losing, failing, restarting, the user and other
people are not fair. The user comes back to the list while no sync is running (`Refresh`),
which the views turn into a sync; nothing in the app watches the connection, so after a lost
request only that, or another operation, starts the queue again. Without it `QueueDrains`
fails even online: an operation made while the refetch is awaited stays queued. Faults are
finitely many, so the queue empties however the server refuses.

Three more things the model does that no property denies: when a sync is interrupted between
an add that merged into somebody else's line and its follow-up, the id map is lost and the
follow-up goes to an id the server does not know (hence `Uninterrupted`); an acknowledged add
is in neither the queue nor the cached list until the refetch; an operation sent after the
list was archived goes to the archived list's line.

### Billing and dunning

`billing` has one subscription and the two processors whose signatures and payloads differ
most, two events, two sessions, three days of which one is a paid period and one the grace, and
one crash, lost answer or operator's command. Two sessions are what it takes to deliver an
event twice at once or two events across each other; two events what it takes to be out of
order; a fault is what separates the two commits. Fairness: a session in flight takes its next
step (weak), and the processor keeps delivering each event that was not answered 200 (strong,
because the model's two sessions may be busy when the server's are not). Crashes and the
operator are not fair. `PaymentsAreAnswered` is then that no payment or end is delivered for
ever, of which the household's deletion is the hard case.

`dunning` has two households through warning, expiry and grace (five days), one change and one
death of the job. One change makes the expiry stay where it is, be renewed, or go; it takes two
to take an expiry away and bring it back, which the theorem about any number covers. Fairness:
cron starts the job again (weak), a job in progress tries the mails it has to send and ends
(weak), and the relay does not refuse one household's mail for ever (strong: a refused mail is
tried by the next run, which is what the code counts on). Two households show that the one
commit at the end serves both and that a refusal of one keeps nothing from the other.

### Households, sessions, library, kitchen, pantry

These have two requests in flight, the least for an overlap, and bound the number ever made:
three for `household`, `tokens` and `library` (two that overlap and one that finds what they
left, or one and two), five for `kitchen`, four for `pantry`. The code treats households, users
and clients independently of each other, and a request overlaps with at most what touches its
row, so a third request at once would add orders and no kind of step.

`household` starts with a couple and a neighbour alone in a second household, with one person
still to register; three seats let a full household refuse. `household_deleted` needs two
requests. `tokens` has one user and one client with a limit of two tries, so that the third
is refused, a minute that passes and a restart. `library` has caps of one and two recipes and
two or three ingests, where the paid tier's cap ties with the ceiling, a change of tier, a
change of month and a change of one page. `kitchen` has room for one batch of two portions
(`FreezerLimit`), two stores out of three spelled in ways that clash, and three lists. `pantry`
spells every name of up to three words of twenty-three, which hold each ending the code strips
("es" after a hiss, rightly in "radishes" and wrongly in "quiches", and "ies" in "berries"), words
that are only plural, modifiers, form nouns, products and a keyword of either number, and
names of up to five whose end is one of two runs of words, so that two products meet; thirteen lines of pages, one for each pattern the parser has; five amounts around the rounding
and twenty-two units; and three spellings of one food against rows of two older ones.

### The finding

`household_deleted`: "Someone else remains -- only this account is deleted"
(`delete_account`). A deletion that is sent twice counts the remaining members in its second
request, when the account is already gone: the one it finds is taken for the caller, and with
the household goes that member's account and everything the household had. The run ends at
exactly this. `OnlyOwnersEndAccounts` (`household`) is what holds: it does not happen unless
requests about the household overlap.

## Proofs

Each theorem is about its module's specification for every value of the constants, from the
assumptions the module names: any number of people, requests, recipes, lists, events and so
on, and any value of the bounds that keep a run finite. The assumptions are few: the bounds
are naturals, a client's key is not the one that stands for no key, `People` is finite and its
three founders differ, the things requests can step on each other at have names of their own,
the key of a name from before the fold is its own key (`test_folding_is_idempotent`; TLC
evaluates it for the names of the run, and `Reunited` names the exception, for which a row
without a key would be found under another key than it was written for), amounts are whole
numbers of ten-thousandths, and "tin" and "item" are words. The tables of units are the
code's own and nothing is assumed of them.
That a set of people is finite is what lets a household be counted.

| theorems | state |
|---|---|
| `TypeCorrect`, `LineIdentityHolds`, `LinesHaveReasons`, `ProvenanceHolds`, `ListFollowsMeals`, `EditsKeepState`, `AddedByHandStays`, `LoopComesToResync` (`ShoppingList_proofs`) | `TypeOK`, `LineIdentity`, `EveryLineHasAReason`, `ProvenanceLive`, `InSync`, `UnchangedNeedKeepsState`, `AdhocNeverLost`, `LoopAgrees` |
| `TickMatchesRecord`, `RecordIsKept`, `CountersMatch` (`CookedHistory_proofs`) | `TickedIffRecorded`, `HistoryKept`, `CountersMatchInTurn` |
| `NothingTypedIsLost`, `RetriesCountOnce`, `FollowUpsFindTheirLine` (`OfflineQueue_proofs`) | `AddsReachTheServer`, `CountedOnce`, `FollowUpsLandUninterrupted` |
| `LedgerImplemented`, `FoundingPriceStays`, `CreditIsRight`, `MailsRepeatForACause`, `StateMatchesLimits` (`Billing_proofs`) | `LedgerSpec`, `FoundingPriceForLife`, `CreditFollowsPayment`, `AgainOnlyForACause`, `StateAgreesWithLimits` |
| `BruteForceBounded`, `OneCodePerUser`, `SessionsEndWithThePassword` (`AuthTokens_proofs`) | `BruteForceIsBounded`, `OneCodeAtATime`, `SessionsFollowThePassword` |
| `FreezerIsAsSaid`, `StoreIsAsChosen`, `LiveListIsOne`, `LineIsOnePerNeed`, `OneRowEach`, `StoredLinesStay` (`Kitchen_proofs`) | `LeftIsAsSaid`, `ActiveIsAsChosen`, `OneLiveList`, `OneLinePerNeed`, `OneRowPerFood`, `LinesCanBeWrittenBack` |
| `PublishedLimitsHold`, `NoPageForFree`, `LinesAreWholes`, `LibraryStaysWithinItsCap` (`Library_proofs`) | `LimitsKeepTheirWord`, `FetchesAreCharged`, `LinesAreOfOneHand`, `RecipesStayWithinCap` |
| `EveryHouseholdIsLed`, `AdmissionsStayOnRecord`, `AccountsEndWithTheirOwners`, `LibrariesGoByConsent` (`Household_proofs`) | `LeadIsAMember`, `AdmissionsAreOnRecord`, `OnlyOwnersEndAccounts`, `LibraryGoesByConsent` |

Every proof has the same frame: an inductive invariant (`IInv`, or the name given below), a
lemma that the initial states have it, one lemma for each action that it is kept, and the
property from it; an action property follows from the invariant and a lemma about one step.

**Shopping list.** `IInv == TypeOK /\ OnAnOpenedList /\ LineIdentity /\ EveryLineHasAReason /\
ProvenanceLive`. `EveryLineHasAReason` is not inductive: a meal removed from an archived plan
takes its rows everywhere but no line from the live list, which is right only because
`ProvenanceLive` says there is nothing of it there. Both need `OnAnOpenedList`: no row is on a
list that is not open yet, or archiving would open a list with lines. The argument rests on
three lemmas: rows that join the live list get a line (`SurfaceCoherent`), plan meals that leave
take exactly the lines nobody else needs (`EmptiedCoherent`), and contributing again does both
at once, in any order (`ResyncCoherent`). `InSync` needs `Closed` besides, that what is planned
and linked exists; then a step either changes nothing a meal needs, or contributes again.

**The loop of a resync.** `Resync` says at once what the loop does turn by turn, so the proof says
what the tables are after any number of turns (`Halfway`) and that each turn leads from there to
there with one plan meal more (`TurnOfHalfway`). A turn works on each ingredient and unit by
itself, so this is said of one key (`HereIs`): its line is a new one if some turn so far found
itself to be the last that needed it (`Killed`), is surfaced if some turn changed its amount,
is gone if it was killed and nothing came after, and else is as it was. That a turn never gives
the old flags to a new line, and gives them back where amounts agree, are `TurnAt` and `StepAt`.
In the end a line is killed exactly if `ResyncedLines` replaces or drops it: a line that nobody
needs any longer loses its last row at the turn of the last that had one (`LastKills`). The turns
are counted, so plan meals must be finite in number, which the first of them and every step
keep so (`PlannedFinite`). The induction is over a set of numbers, by its least element.

**Cooking history.** What a request between its write and its commit holds: its plan meal is
still planned, no other request is writing to it, and what it will add and drop are exactly that
plan meal's events. That is the row lock's doing, and the reason why the tick cannot part from
the record while the counters can. For the counters (`TurnInv`), one request at a time: what it
has read is still so, what it has counted is what the record will hold when it commits
(`Counting`), and the steps of others while it waits only rename what events refer to, which
leaves their number and dates (`SameCount`).

**The offline queue.** The store takes off the front of the queue whatever answer it gets, so the
invariant says what an answer in hand is worth: it is for the operation in front, and for an add
either an error or its key has taken effect (`AnswersTheFront`); a row found again under a client
key is one that took effect before (`RowsWereTaken`), which covers the retry of an add whose
answer was lost. For follow-ups (`FollowInv`): an id the phone knows is that of a line that is or
was there, or an add with it is ahead in the queue, or it is in the running sync's map, which
leads to the line of that add; an add nobody has answered is known to nobody but the phone
(`UnknownIsFresh`). That the display shows only such ids is by least counterexample over the
operations of the queue (`shown`).

**Billing.** A session about to record has acted or has a reason not to (`Deserved`); when another
session has recorded the event meanwhile, the event is `Settled`: it took effect, or it never will,
because the household is gone or the period it pays for is over. So no second outcome is written
and none is written for an effect to come, which is `EventLedger`, implemented step by step. For
credit (`CInv`): the last word the processor said about a subscription is still to be delivered or
is on the ledger; on the ledger it is settled; and once it took effect, nothing older may act
without spoiling `inOrder`, so the row is as the last word says.

**Dunning** (`DunningInv`). A mail that went out more often than runs died and expiries came back
has its mark on the row, or is among what the present run is about to mark (`StillDue`). What a run
has still to send was due when the run started, and nobody else sends (`AskedFor`). The state and
the limits agree by arithmetic on dates, for any grace period: the free tier's limits apply only to
a household that is shown as lapsed, with no exception, and to every lapsed one but for one instant
(`GraceEndsNow`). There `state` (entitlements.py:109) already says lapsed and `has_lapsed`
(limits.py:635) does not yet, though a comment (entitlements.py:59) says the two never disagree.

**Sessions, codes, limits on guesses.** The limiter's window accounts for the attempts of a client:
there is an injection from attempts into the window's places, each at its own instant, the last
place being that of the request in flight (`Accounts`). Pruning shifts it and forgiving takes off
the last place. For credentials, a request that is not stale has checked the password that is in
force and deletes all there is to delete (`Current`).

**Freezer, supermarkets, live list, library, household.** What a request has read is so until
another commits to the same thing, and that commit puts the thing in its `behind`, or marks it
stale. A request that is not behind therefore writes what its checks allowed; one that is behind
may write anything that lands, but tears what it writes, which the properties except. The charge
for pages counts requests that have reserved and not fetched (`PaidUp`). A household's invariant
says what each operation stages (`Staged`), so that a commit is a small number of cases, and the
next lead exists because the oldest account does (`NextLeadIsAnother`).

**Catalogue** (`PantryInv`). A request that found no row for a key is right about it until another
commits one, and then it is behind on that key and tears it. What `Find` does not find is not
there (`NotFound`): a row with no key is called by its key, because that is how the build before
the migration wrote it. A merge only takes rows away. How a key is made of a name plays no part.

**Stored lines** (`WritingInv`). Normalizing an amount settles its unit (`NormalizedSettles`): it
is canonical, the name the synonyms lead to, or a word that is its own singular and that no table
lists; normalizing that again multiplies by one and changes nothing, and rounding what is rounded
neither. That a singular is its own singular is true of units, word by word of the tables and
ending by ending (`SingularOnce`), with no assumption on the words clients make up; a plural
whose singular is a listed word is `UnlistedPlural`. What is read off a page is in the singular
already, so `Accepted` refuses it or stores what stays as it is.

### Only model-checked

* Liveness: `QueueDrains`, `PaymentsAreAnswered`, `LapseIsTold`. Fairness and ENABLED are out of
  the prover's reach. No liveness is claimed for a request handler: it runs when a client calls.
* `FoldKeepsTheFood`: a key is computed by sorting and selecting words, which the library defines
  by recursion over sequences, and of any length that is induction over data. It is also about
  the code's long lists of food words, which are constants here and of which a run knows a few.
* The finding is a counterexample and has no proof.

## Not modelled

* The client gate, export, serializers and pages, metrics and spans: stateless or read-only.
* The text of what is rendered: quantities and scaled portions, value tiers, mails, names.
* Of the recipe parser, fetching a page, finding the recipe in its JSON-LD or microdata, and
  what counts as a number; of the catalogue, the curation of a row (aisle, staple, value tier)
  and the report of duplicates; of meals, ratings and the link to the freezer; of limits, the
  resources nobody counts in a model and the report of what exceeds a lapsed tier.
* Configuration, provisioning and seeding; migrations, which run once per release (what the
  migration of ingredient keys leaves is `Catalogue`'s initial state, but rows an older build
  writes during a rolling deployment, after the start, are not in it).
* The iOS planning screens and views, the web client and the MCP server: stateless callers of
  the same API, of which the server sees requests, which the models have from anybody at any
  time. Backup and Node-RED scripts.
* Hashes and signatures are comparisons of values; the mail relay, the payment processor and
  the pages on the web are external and do what the code's handling of them allows for.
