---------------------------- MODULE Durability ----------------------------
(***************************************************************************)
(* What survives a crash: privilege keys (tokens), the groups they grant,  *)
(* bans, complaints, offline messages and query accounts with their client *)
(* records, between the memory of the runtime, runtime-state.json and the  *)
(* SQLite database.                                                        *)
(*                                                                         *)
(* A command changes the memory, writes some rows to SQLite on the way,    *)
(* and execute_request ends with a rewrite of the whole JSON file; the     *)
(* reply leaves after that.  fs::write truncates the file first, so a      *)
(* crash inside it leaves a torn file, which the next start refuses to     *)
(* load.  A start takes the tokens from SQLite and then, when there is a   *)
(* JSON file, replaces them by the ones in it; complaints and messages are *)
(* in the file only; bans are in SQLite only, and no command writes them   *)
(* there.  Accounts are in the file and client records in SQLite.          *)
(*                                                                         *)
(* The groups a key grants are named after the key: granted[c] are the     *)
(* keys whose actions have been applied to client c.  Refused commands, an *)
(* expired key among them, change nothing and are stuttering steps.  The   *)
(* keys, bans, complaints and messages are those of one virtual server.    *)
(* The kinds of commands meet in the save, the crash and the start alone,  *)
(* so that a behaviour need not mix them all.                              *)
(***************************************************************************)
EXTENDS Integers, FiniteSets

CONSTANTS
    Accounts,       \* query accounts, whose groups are in query_accounts
    Members,        \* web and desktop identities, in custom_client_properties
    MaxTokenId,     \* bound on token ids
    MaxBanId,       \* bound on ban ids
    MaxUses,        \* bound on the uses of a token
    MaxUsesValues,  \* values of token_max_uses that requests ask for
    Identities,     \* clients of the database that complain
    Accused,        \* the ones among them that are complained of
    AutobanCount,   \* virtualserver_complain_autoban_count
    MaxMailId,      \* bound on the ids of offline messages
    Logins,         \* names of query accounts
    MaxDbId,        \* bound on client database ids; 1 is the code's 100
    Mixes           \* bound: the sets of kinds of commands that a behaviour mixes

ASSUME MembersAssumption == Accounts \cap Members = {}
ASSUME BoundsAssumption ==
    /\ MaxTokenId \in Nat \ {0} /\ MaxBanId \in Nat
    /\ MaxUses \in Nat \ {0} /\ MaxUsesValues \subseteq 0..MaxUses
    /\ Accused \subseteq Identities /\ AutobanCount \in Nat /\ MaxMailId \in Nat
    /\ MaxDbId \in Nat
    /\ Mixes \subseteq SUBSET {"keys", "bans", "mail", "accounts"}

ASSUME FiniteAssumption == IsFiniteSet(Accounts) /\ IsFiniteSet(Members)

Clients  == Accounts \union Members
TokenIds == 1..MaxTokenId
BanIds   == 1..MaxBanId
MailIds  == 1..MaxMailId
DbIds    == 1..MaxDbId

VARIABLES
    tokens,     \* store.tokens: id -> [max, uses, admin]
    granted,    \* client -> tokens that have been applied to it
    nextToken,  \* store.next_token_id
    bans,       \* ids in store.active_bans
    nextBan,    \* store.next_ban_id
    complaints, \* store.complaints: <<target, from>>
    mail,       \* store.offline_messages: id -> read
    nextMail,   \* store.next_offline_message_id
    accounts,   \* store.query_accounts: login -> [id, born], born the login it was created under
    clients,    \* store.clients: client database id -> unique identifier
    botIds,     \* the client database ids of store.music_bots
    nextDbId,   \* store.next_client_database_id
    json,       \* runtime-state.json
    sqlite,     \* the rows of the table tokens
    rows,       \* the rows of the table clients
    step,       \* where the holder of the runtime mutex is
    promises,   \* what replies have promised, and nobody has revoked since
    maxima,     \* every max_uses a token ever had
    cut,        \* <<token, member>>: a crash cut this redemption in two
    asked,      \* the database ids that a querycreate ever named
    foreign,    \* <<id, login>>: accounts whose client record is not their own
    kinds       \* the kinds of commands that were given

keys    == <<tokens, granted, nextToken>>
desk    == <<bans, nextBan, complaints, mail, nextMail>>
people  == <<accounts, clients, botIds, nextDbId, rows, asked, foreign>>
memory  == <<keys, desk, people>>
history == <<promises, maxima, cut>>
vars    == <<memory, json, sqlite, step, history, kinds>>

Absent == [file |-> "absent"]
Torn   == [file |-> "torn"]
Idle   == [at |-> "idle"]
Down   == [at |-> "down"]
\* The handler is done; the JSON file is next, then the reply with its promises.
\* The redemptions in half have their groups in the file already, not their use.
SavingHalf(p, half) == [at |-> "save", promises |-> p, half |-> half]
Saving(p) == SavingHalf(p, {})

NoTokens == [t \in {} |-> [max |-> 0, uses |-> 0, admin |-> FALSE]]
NoGrants == [c \in Clients |-> {}]
NoMail   == [i \in {} |-> FALSE]
NoRecords  == [i \in {} |-> ""]
NoAccounts == [l \in {} |-> [id |-> 0, born |-> l]]

\* persist_state: active_bans and next_ban_id are not part of it.
Image == [file |-> "whole", tokens |-> tokens, next |-> nextToken, granted |-> granted,
          complaints |-> complaints, mail |-> mail, nextMail |-> nextMail,
          accounts |-> accounts, bots |-> botIds, nextDbId |-> nextDbId]

\* next_token_id_seed, and the same for offline messages.
Seed(tk) == IF DOMAIN tk = {} THEN 1
            ELSE 1 + CHOOSE t \in DOMAIN tk : \A u \in DOMAIN tk : u <= t

\* next_client_database_seed.
DatabaseSeed(acs) == Seed([i \in {acs[l].id : l \in DOMAIN acs} |-> i])

Larger(m, n) == IF m >= n THEN m ELSE n

WithToken(tk, t, max, admin) ==
    [u \in DOMAIN tk \union {t} |->
        IF u = t THEN [max |-> max, uses |-> 0, admin |-> admin] ELSE tk[u]]

WithoutToken(tk, t) == [u \in DOMAIN tk \ {t} |-> tk[u]]

Revoke(P) == promises' = promises \ P

\* The runtime takes a command.
Command(kind) ==
    /\ step = Idle
    /\ kinds' = kinds \union {kind}
    /\ \E mix \in Mixes : kinds' \subseteq mix

-----------------------------------------------------------------------------
(* Start and stop.                                                         *)

\* Mutant: the counter is recomputed from the tokens that are left.
LoadedWithoutCounter ==
    IF json = Absent
    THEN [tokens |-> sqlite, granted |-> NoGrants, next |-> Seed(sqlite),
          complaints |-> {}, mail |-> NoMail, nextMail |-> 1,
          accounts |-> NoAccounts, bots |-> {}, nextDbId |-> Seed(rows)]
    ELSE [tokens |-> json.tokens, granted |-> json.granted, next |-> Seed(json.tokens),
          complaints |-> json.complaints, mail |-> json.mail, nextMail |-> Seed(json.mail),
          accounts |-> json.accounts, bots |-> json.bots,
          nextDbId |-> DatabaseSeed(json.accounts)]

\* What create_baseline_runtime and load_persisted_state put together.  The next
\* database id is the file's, whatever rows SQLite has.
Loaded ==
    IF json = Absent
    THEN [tokens |-> sqlite, granted |-> NoGrants, next |-> Seed(sqlite),
          complaints |-> {}, mail |-> NoMail, nextMail |-> 1,
          accounts |-> NoAccounts, bots |-> {}, nextDbId |-> Seed(rows)]
    ELSE [tokens |-> json.tokens, granted |-> json.granted,
          next |-> Larger(json.next, Seed(json.tokens)),
          complaints |-> json.complaints, mail |-> json.mail,
          nextMail |-> Larger(json.nextMail, Seed(json.mail)),
          accounts |-> json.accounts, bots |-> json.bots,
          nextDbId |-> Larger(json.nextDbId, DatabaseSeed(json.accounts))]

\* The tables that have no other copy than the file.
LoadDesk ==
    /\ complaints' = Loaded.complaints /\ mail' = Loaded.mail /\ nextMail' = Loaded.nextMail
    /\ UNCHANGED <<bans, nextBan>>

\* The accounts and bots of the file, with the client records of SQLite.
LoadPeople ==
    /\ accounts' = Loaded.accounts /\ botIds' = Loaded.bots /\ nextDbId' = Loaded.nextDbId
    /\ clients' = rows
    /\ UNCHANGED <<rows, asked, foreign>>

\* A key that still gives somebody the rights of an administrator.
UsableAdminToken(tk) ==
    \E t \in DOMAIN tk : tk[t].admin /\ (tk[t].max = 0 \/ tk[t].uses < tk[t].max)

\* The start, with ensure_initial_admin_token: the keys are as loaded.
StartWithAdminToken ==
    /\ step = Down /\ json # Torn
    /\ UsableAdminToken(Loaded.tokens)
    /\ tokens' = Loaded.tokens
    /\ granted' = Loaded.granted
    /\ nextToken' = Loaded.next
    /\ LoadDesk /\ LoadPeople
    /\ step' = Idle
    /\ UNCHANGED <<json, sqlite, history, kinds>>

\* The start that finds no usable administrator key and makes one.
StartAndMakeAdminToken ==
    LET t == Larger(Loaded.next, Seed(Loaded.tokens))
    IN  /\ step = Down /\ json # Torn
        /\ ~ UsableAdminToken(Loaded.tokens)
        /\ t \in TokenIds
        /\ tokens' = WithToken(Loaded.tokens, t, 1, TRUE)
        /\ sqlite' = WithToken(sqlite, t, 1, TRUE)
        /\ granted' = Loaded.granted
        /\ nextToken' = t + 1
        /\ step' = Saving({})
        /\ maxima' = [maxima EXCEPT ![t] = {1}]
        /\ LoadDesk /\ LoadPeople
        /\ UNCHANGED <<json, promises, cut, kinds>>

\* The redemptions whose groups are in the file while their use is not.
HalfDone ==
    CASE step.at = "count" -> {<<step.token, step.member>>}
      [] step.at = "save"  -> step.half
      [] OTHER             -> {}

\* The process dies; a file that was being written may be torn.
Crash ==
    /\ step # Down
    /\ json' \in {json} \union (IF step.at \in {"save", "grant"} THEN {Torn} ELSE {})
    /\ cut' = cut \union HalfDone
    /\ step' = Down
    /\ tokens' = NoTokens /\ granted' = NoGrants /\ nextToken' = 1
    /\ bans' = {} /\ nextBan' = 1 /\ complaints' = {} /\ mail' = NoMail /\ nextMail' = 1
    /\ accounts' = NoAccounts /\ clients' = NoRecords /\ botIds' = {} /\ nextDbId' = 1
    /\ UNCHANGED <<sqlite, rows, promises, maxima, asked, foreign, kinds>>

\* The main loop writes the file every ten seconds, whatever has changed.
Housekeep ==
    /\ step = Idle
    /\ step' = Saving({})
    /\ UNCHANGED <<memory, json, sqlite, history, kinds>>

\* The end of execute_request.
Save ==
    /\ step.at = "save"
    /\ json' = Image
    /\ promises' = promises \union step.promises
    /\ step' = Idle
    /\ UNCHANGED <<memory, sqlite, maxima, cut, kinds>>

-----------------------------------------------------------------------------
(* Tokens.                                                                 *)

TokenAdd(max, admin) ==
    LET t == Larger(nextToken, Seed(tokens))
    IN  /\ Command("keys")
        /\ t \in TokenIds
        /\ tokens' = WithToken(tokens, t, max, admin)
        /\ nextToken' = t + 1
        /\ maxima' = [maxima EXCEPT ![t] = {max}]
        /\ step' = Saving({<<"key", t>>})
        /\ UNCHANGED <<granted, desk, people, json, sqlite, promises, cut>>

\* tokendelete leaves the row of SQLite where it is.
TokenDelete(t) ==
    /\ Command("keys")
    /\ t \in DOMAIN tokens
    /\ tokens' = WithoutToken(tokens, t)
    /\ Revoke({<<"key", t>>})
    /\ step' = Saving({<<"gone", t>>})
    /\ UNCHANGED <<granted, nextToken, desk, people, json, sqlite, maxima, cut>>

\* tokenedit, which may change the actions too; also an edit that fails half way,
\* on an unknown action, after it has changed max_uses.
TokenEdit(t, max, admin) ==
    /\ Command("keys")
    /\ t \in DOMAIN tokens
    /\ tokens' = [tokens EXCEPT ![t].max = max, ![t].admin = admin]
    /\ maxima' = [maxima EXCEPT ![t] = @ \union {max}]
    /\ step' = Saving({})
    /\ UNCHANGED <<granted, nextToken, desk, people, json, sqlite, promises, cut>>

Redeemable(t) == tokens[t].max = 0 \/ tokens[t].uses < tokens[t].max

\* Mutant: the use is not counted.
UsedUncounted(t) == tokens[t]

Used(t) == [tokens[t] EXCEPT !.uses = @ + 1]

Exhausted(t) == Used(t).max # 0 /\ Used(t).uses >= Used(t).max

\* The use is counted in both stores; an exhausted key leaves the memory.
CountUse(t) ==
    /\ tokens' = IF Exhausted(t) THEN WithoutToken(tokens, t)
                 ELSE [tokens EXCEPT ![t] = Used(t)]
    /\ sqlite' = [u \in DOMAIN sqlite \union {t} |-> IF u = t THEN Used(t) ELSE sqlite[u]]
    /\ IF Exhausted(t) THEN Revoke({<<"key", t>>}) ELSE UNCHANGED promises

UsePromises(c, t) ==
    {<<"grant", c, t>>} \union (IF Exhausted(t) THEN {<<"gone", t>>} ELSE {})

\* tokenuse by a session that is logged in to an account.
TokenUseByAccount(a, t) ==
    /\ Command("keys")
    /\ t \in DOMAIN tokens /\ Redeemable(t) /\ tokens[t].uses < MaxUses
    /\ granted' = [granted EXCEPT ![a] = @ \union {t}]
    /\ CountUse(t)
    /\ step' = Saving(UsePromises(a, t))
    /\ UNCHANGED <<nextToken, desk, people, json, maxima, cut>>

\* tokenuse by a web or desktop client: persist_web_client_server_groups writes
\* the JSON file before the use has been counted.
TokenUseByMember(m, t) ==
    /\ Command("keys")
    /\ t \in DOMAIN tokens /\ Redeemable(t) /\ tokens[t].uses < MaxUses
    /\ granted' = [granted EXCEPT ![m] = @ \union {t}]
    /\ step' = [at |-> "grant", member |-> m, token |-> t]
    /\ UNCHANGED <<tokens, nextToken, desk, people, json, sqlite, history>>

SaveGrant ==
    /\ step.at = "grant"
    /\ json' = Image
    /\ step' = [step EXCEPT !.at = "count"]
    /\ UNCHANGED <<memory, sqlite, history, kinds>>

CountMemberUse ==
    /\ step.at = "count"
    /\ CountUse(step.token)
    /\ step' = SavingHalf(UsePromises(step.member, step.token),
                          {<<step.token, step.member>>})
    /\ UNCHANGED <<granted, nextToken, desk, people, json, maxima, cut, kinds>>

\* permreset: all groups go back to the defaults, and a new key is made.
PermReset ==
    LET t == Larger(nextToken, Seed(tokens))
    IN  /\ Command("keys")
        /\ t \in TokenIds
        /\ granted' = NoGrants
        /\ tokens' = WithToken(tokens, t, 1, TRUE)
        /\ sqlite' = WithToken(sqlite, t, 1, TRUE)
        /\ nextToken' = t + 1
        /\ maxima' = [maxima EXCEPT ![t] = {1}]
        /\ Revoke({<<"grant", c, u>> : c \in Clients, u \in TokenIds})
        /\ step' = Saving({<<"key", t>>})
        /\ UNCHANGED <<desk, people, json, cut>>

-----------------------------------------------------------------------------
(* Bans.                                                                   *)

\* create_manual_active_ban, and register_active_ban for banclient.
NewBan ==
    /\ nextBan \in BanIds
    /\ bans' = bans \union {nextBan}
    /\ nextBan' = nextBan + 1

\* banadd and banclient.
BanAdd ==
    /\ Command("bans")
    /\ NewBan
    /\ step' = Saving({<<"ban", nextBan>>})
    /\ UNCHANGED <<keys, people, complaints, mail, nextMail, json, sqlite, history>>

\* bandel.
BanDelete(b) ==
    /\ Command("bans")
    /\ b \in bans
    /\ bans' = bans \ {b}
    /\ Revoke({<<"ban", b>>})
    /\ step' = Saving({})
    /\ UNCHANGED <<keys, people, nextBan, complaints, mail, nextMail, json, sqlite, maxima, cut>>

\* bandelall.
BanDeleteAll ==
    /\ Command("bans")
    /\ bans' = {}
    /\ Revoke({<<"ban", b>> : b \in bans})
    /\ step' = Saving({})
    /\ UNCHANGED <<keys, people, nextBan, complaints, mail, nextMail, json, sqlite, maxima, cut>>

\* prune_expired_active_bans drops a ban whose time is over.
BanExpire(b) ==
    /\ step = Idle
    /\ b \in bans
    /\ bans' = bans \ {b}
    /\ Revoke({<<"ban", b>>})
    /\ UNCHANGED <<keys, people, nextBan, complaints, mail, nextMail, json, sqlite, step, maxima, cut, kinds>>

-----------------------------------------------------------------------------
(* Complaints and offline messages.                                        *)

About(x) == {c \in complaints : c[1] = x}

\* complainadd.  The complaint that fills the measure turns all of them into a ban.
ComplainAdd(f, x) ==
    /\ Command("bans")
    /\ f # x /\ <<x, f>> \notin complaints
    /\ IF AutobanCount > 0 /\ Cardinality(About(x)) + 1 >= AutobanCount
       THEN /\ complaints' = complaints \ About(x)
            /\ NewBan
            /\ Revoke({<<"complaint", c>> : c \in About(x)})
            /\ step' = Saving({<<"ban", nextBan>>} \union {<<"settled", c>> : c \in About(x)})
       ELSE /\ complaints' = complaints \union {<<x, f>>}
            /\ Revoke({<<"settled", <<x, f>> >>})
            /\ step' = Saving({<<"complaint", <<x, f>> >>})
            /\ UNCHANGED <<bans, nextBan>>
    /\ UNCHANGED <<keys, people, mail, nextMail, json, sqlite, maxima, cut>>

Settle(C) ==
    /\ Command("bans")
    /\ C # {}
    /\ complaints' = complaints \ C
    /\ Revoke({<<"complaint", c>> : c \in C})
    /\ step' = Saving({<<"settled", c>> : c \in C})
    /\ UNCHANGED <<keys, people, bans, nextBan, mail, nextMail, json, sqlite, maxima, cut>>

\* complaindel and complaindelall.
ComplainDelete(x, f) == Settle(complaints \cap {<<x, f>>})
ComplainDeleteAll(x) == Settle(About(x))

\* messageadd.
MessageAdd ==
    /\ Command("mail")
    /\ nextMail \in MailIds
    /\ mail' = [i \in DOMAIN mail \union {nextMail} |-> IF i = nextMail THEN FALSE ELSE mail[i]]
    /\ nextMail' = nextMail + 1
    /\ step' = Saving({<<"mail", nextMail>>})
    /\ UNCHANGED <<keys, people, bans, nextBan, complaints, json, sqlite, history>>

\* messageupdateflag.
MessageUpdateFlag(i, read) ==
    /\ Command("mail")
    /\ i \in DOMAIN mail
    /\ mail' = [mail EXCEPT ![i] = read]
    /\ Revoke({<<"read", i, ~ read>>})
    /\ step' = Saving({<<"read", i, read>>})
    /\ UNCHANGED <<keys, people, bans, nextBan, complaints, nextMail, json, sqlite, maxima, cut>>

\* messageget marks what it hands out.
MessageGet(i) == MessageUpdateFlag(i, TRUE)

\* messagedel.
MessageDelete(i) ==
    /\ Command("mail")
    /\ i \in DOMAIN mail
    /\ mail' = [j \in DOMAIN mail \ {i} |-> mail[j]]
    /\ Revoke({<<"mail", i>>, <<"read", i, TRUE>>, <<"read", i, FALSE>>})
    /\ step' = Saving({<<"lost", i>>})
    /\ UNCHANGED <<keys, people, bans, nextBan, complaints, nextMail, json, sqlite, maxima, cut>>

-----------------------------------------------------------------------------
(* Query accounts.                                                         *)

WithAccount(acs, l, id, born) ==
    [m \in DOMAIN acs \union {l} |-> IF m = l THEN [id |-> id, born |-> born] ELSE acs[m]]

WithoutAccount(acs, l) == [m \in DOMAIN acs \ {l} |-> acs[m]]

WithRecord(rec, id, l) ==
    [i \in DOMAIN rec \union {id} |-> IF i = id THEN l ELSE rec[i]]

\* Mutant: save_client replaces the row of the database id.
SavedOverId(id, l) == WithRecord(rows, id, l)

\* save_client: a login that has a row keeps it, under the id it has; an id that
\* has a row refuses the insertion, and nobody looks at the error.
SavedClient(id, l) ==
    IF id \in DOMAIN rows \/ \E i \in DOMAIN rows : rows[i] = l
    THEN rows
    ELSE WithRecord(rows, id, l)

\* Another record stands in the way of the one for login l under id.
Taken(id, l) ==
    \/ id \in DOMAIN rows /\ rows[id] # l
    \/ id \in DOMAIN clients /\ clients[id] # l
    \/ \E i \in DOMAIN rows \ {id} : rows[i] = l

\* querycreate once its database id is known.
CreateAccount(l, id) ==
    /\ Command("accounts")
    /\ id \in DbIds
    /\ l \notin DOMAIN accounts
    /\ accounts' = WithAccount(accounts, l, id, l)
    /\ rows' = SavedClient(id, l)
    /\ clients' = IF id \in DOMAIN clients THEN clients ELSE WithRecord(clients, id, l)
    /\ foreign' = IF Taken(id, l) THEN foreign \union {<<id, l>>} ELSE foreign \ {<<id, l>>}
    /\ Revoke({<<"no account", l>>})
    /\ step' = Saving({<<"account", l, id>>})
    /\ UNCHANGED <<keys, desk, botIds, json, sqlite, maxima, cut>>

\* querycreate without and with cldbid, which may be anybody's.
QueryCreate(l) ==
    /\ CreateAccount(l, nextDbId)
    /\ nextDbId' = nextDbId + 1
    /\ UNCHANGED asked

QueryCreateFor(l, id) ==
    /\ CreateAccount(l, id)
    /\ asked' = asked \union {id}
    /\ UNCHANGED nextDbId

\* A querycreate that is refused for lack of permission has taken an id by then.
QueryCreateRefused ==
    /\ Command("accounts")
    /\ nextDbId \in DbIds
    /\ nextDbId' = nextDbId + 1
    /\ step' = Saving({})
    /\ UNCHANGED <<keys, desk, accounts, clients, botIds, rows, asked, foreign, json, sqlite, history>>

\* queryrename; the client record keeps the name the account was created under.
QueryRename(l, m) ==
    /\ Command("accounts")
    /\ l \in DOMAIN accounts /\ m \notin DOMAIN accounts
    /\ accounts' = WithAccount(WithoutAccount(accounts, l), m, accounts[l].id, accounts[l].born)
    /\ Revoke({<<"account", l, accounts[l].id>>, <<"no account", m>>})
    /\ step' = Saving({<<"account", m, accounts[l].id>>, <<"no account", l>>})
    /\ UNCHANGED <<keys, desk, clients, botIds, nextDbId, rows, asked, foreign, json, sqlite, maxima, cut>>

\* querydelete; the client record stays.
QueryDelete(l) ==
    /\ Command("accounts")
    /\ l \in DOMAIN accounts
    /\ accounts' = WithoutAccount(accounts, l)
    /\ Revoke({<<"account", l, accounts[l].id>>})
    /\ step' = Saving({<<"no account", l>>})
    /\ UNCHANGED <<keys, desk, clients, botIds, nextDbId, rows, asked, foreign, json, sqlite, maxima, cut>>

\* clientdbdelete of a client that is not online; its row stays in SQLite.
ClientDbDelete(id) ==
    /\ Command("accounts")
    /\ id \in DOMAIN clients
    /\ clients' = [i \in DOMAIN clients \ {id} |-> clients[i]]
    /\ foreign' = foreign \union {<<id, l>> : l \in Logins}
    /\ step' = Saving({})
    /\ UNCHANGED <<keys, desk, accounts, botIds, nextDbId, rows, asked, json, sqlite, history>>

\* musicbotcreate takes a database id and makes no client record; musicbotdelete.
MusicBotCreate ==
    /\ Command("accounts")
    /\ nextDbId \in DbIds
    /\ botIds' = botIds \union {nextDbId}
    /\ nextDbId' = nextDbId + 1
    /\ step' = Saving({})
    /\ UNCHANGED <<keys, desk, accounts, clients, rows, asked, foreign, json, sqlite, history>>

MusicBotDelete(id) ==
    /\ Command("accounts")
    /\ id \in botIds
    /\ botIds' = botIds \ {id}
    /\ step' = Saving({})
    /\ UNCHANGED <<keys, desk, accounts, clients, nextDbId, rows, asked, foreign, json, sqlite, history>>

-----------------------------------------------------------------------------

Init ==
    /\ tokens = NoTokens /\ granted = NoGrants /\ nextToken = 1
    /\ bans = {} /\ nextBan = 1 /\ complaints = {} /\ mail = NoMail /\ nextMail = 1
    /\ accounts = NoAccounts /\ clients = NoRecords /\ botIds = {} /\ nextDbId = 1
    /\ json = Absent /\ sqlite = NoTokens /\ rows = NoRecords
    /\ step = Down
    /\ promises = {}
    /\ maxima = [t \in TokenIds |-> {}]
    /\ cut = {} /\ asked = {} /\ foreign = {} /\ kinds = {}

Next ==
    \/ StartWithAdminToken \/ StartAndMakeAdminToken \/ Crash \/ Housekeep \/ Save
    \/ \E max \in MaxUsesValues, admin \in BOOLEAN : TokenAdd(max, admin)
    \/ \E t \in TokenIds : TokenDelete(t)
    \/ \E t \in TokenIds, max \in MaxUsesValues, admin \in BOOLEAN : TokenEdit(t, max, admin)
    \/ \E a \in Accounts, t \in TokenIds : TokenUseByAccount(a, t)
    \/ \E m \in Members, t \in TokenIds : TokenUseByMember(m, t)
    \/ SaveGrant \/ CountMemberUse \/ PermReset
    \/ BanAdd \/ BanDeleteAll
    \/ \E b \in BanIds : BanDelete(b) \/ BanExpire(b)
    \/ \E f \in Identities, x \in Accused : ComplainAdd(f, x) \/ ComplainDelete(x, f)
    \/ \E x \in Accused : ComplainDeleteAll(x)
    \/ MessageAdd
    \/ \E i \in MailIds : MessageGet(i) \/ MessageDelete(i)
    \/ \E i \in MailIds, read \in BOOLEAN : MessageUpdateFlag(i, read)
    \/ QueryCreateRefused \/ MusicBotCreate
    \/ \E l \in Logins : QueryCreate(l) \/ QueryDelete(l)
    \/ \E l \in Logins, id \in DbIds : QueryCreateFor(l, id)
    \/ \E l, m \in Logins : QueryRename(l, m)
    \/ \E id \in DbIds : ClientDbDelete(id) \/ MusicBotDelete(id)

Spec == Init /\ [][Next]_vars

-----------------------------------------------------------------------------
(* Properties.                                                             *)

Token == [max : 0..MaxUses, uses : 0..MaxUses, admin : BOOLEAN]

TokenTable(tk) == DOMAIN tk \subseteq TokenIds /\ tk \in [DOMAIN tk -> Token]

KeyTypes(tk, g, nx) ==
    TokenTable(tk) /\ g \in [Clients -> SUBSET TokenIds] /\ nx \in 1..(MaxTokenId + 1)

DeskTypes(cs, ml, nx) ==
    /\ cs \subseteq Accused \X Identities
    /\ DOMAIN ml \subseteq MailIds /\ ml \in [DOMAIN ml -> BOOLEAN] /\ nx \in 1..(MaxMailId + 1)

PeopleTypes(acs, bots, nx) ==
    /\ DOMAIN acs \subseteq Logins /\ acs \in [DOMAIN acs -> [id : DbIds, born : Logins]]
    /\ bots \subseteq DbIds /\ nx \in 1..(MaxDbId + 1)

RecordTable(rec) == DOMAIN rec \subseteq DbIds /\ rec \in [DOMAIN rec -> Logins]

\* The tables hold what their types say, in the memory and in the file, and a
\* member's redemption that is under way is one of a key that is there.
TypeOK ==
    /\ KeyTypes(tokens, granted, nextToken) /\ TokenTable(sqlite)
    /\ DeskTypes(complaints, mail, nextMail)
    /\ bans \subseteq BanIds /\ nextBan \in 1..(MaxBanId + 1)
    /\ PeopleTypes(accounts, botIds, nextDbId) /\ RecordTable(clients) /\ RecordTable(rows)
    /\ \/ json \in {Absent, Torn}
       \/ /\ json.file = "whole"
          /\ KeyTypes(json.tokens, json.granted, json.next)
          /\ DeskTypes(json.complaints, json.mail, json.nextMail)
          /\ PeopleTypes(json.accounts, json.bots, json.nextDbId)
    /\ \/ step \in {Idle, Down} \/ step.at = "save"
       \/ /\ step \in [at : {"grant", "count"}, member : Members, token : DOMAIN tokens]
          /\ step.token \in granted[step.member]
          /\ Redeemable(step.token) /\ tokens[step.token].uses < MaxUses
    /\ maxima \in [TokenIds -> SUBSET (0..MaxUses)]

\* The holders of a key whose redemption was not cut.
Uncut(t) == {c \in Clients : t \in granted[c] /\ <<t, c>> \notin cut}

\* A key never reaches more clients than max_uses allowed at some time, whatever
\* crashes and restarts come between, except for members whose redemption a
\* crash cut between the two writes of handle_tokenuse: they keep the groups and
\* the key keeps the use.
OverusedOnlyByCrash ==
    \A t \in TokenIds :
        maxima[t] # {} /\ 0 \notin maxima[t] =>
            \E n \in maxima[t] : Cardinality(Uncut(t)) <= n

\* What a reply confirmed holds whenever the server serves again: a key that was
\* made is there until it is deleted or used up, although tokenadd never writes it
\* to SQLite; the groups of a redemption are there until a permreset; and a key
\* that was deleted or used up does not come back, neither from its row in SQLite,
\* which is never deleted, nor as a new key under the same id.  A complaint is
\* there until it is deleted or becomes a ban, and not after that; a message is
\* there, and marked as it was, until it is deleted, and its id is not given to
\* another one.  An account is there, with its database id, until it is renamed or
\* deleted, and not after that.
RepliesSurviveCrashes ==
    step = Idle =>
        /\ \A t \in TokenIds : <<"key", t>> \in promises => t \in DOMAIN tokens
        /\ \A c \in Clients, t \in TokenIds : <<"grant", c, t>> \in promises => t \in granted[c]
        /\ \A t \in TokenIds : <<"gone", t>> \in promises => t \notin DOMAIN tokens
        /\ \A c \in Accused \X Identities :
               /\ <<"complaint", c>> \in promises => c \in complaints
               /\ <<"settled", c>> \in promises => c \notin complaints
        /\ \A i \in MailIds :
               /\ <<"mail", i>> \in promises => i \in DOMAIN mail
               /\ <<"lost", i>> \in promises => i \notin DOMAIN mail
               /\ \A read \in BOOLEAN : <<"read", i, read>> \in promises => mail[i] = read
        /\ \A l \in Logins :
               /\ \A id \in DbIds : <<"account", l, id>> \in promises =>
                      l \in DOMAIN accounts /\ accounts[l].id = id
               /\ <<"no account", l>> \in promises => l \notin DOMAIN accounts

\* A database id stands for one account or bot, unless a querycreate named it; and
\* an account finds the client record it was created with under its id, after any
\* restarts, unless another record was in the way when it was created (the row of
\* an account that a crash undid before the file was written, or an earlier account
\* of the same name), or clientdbdelete took it away.
RecordsLostOnlyByCollision ==
    step = Idle =>
        /\ \A l, m \in DOMAIN accounts :
               l # m /\ accounts[l].id = accounts[m].id => accounts[l].id \in asked
        /\ \A l \in DOMAIN accounts :
               LET id == accounts[l].id
               IN  /\ id \in botIds => id \in asked
                   /\ <<id, accounts[l].born>> \notin foreign =>
                          id \in DOMAIN clients /\ clients[id] = accounts[l].born

\* The reference lists a table `bans' (docs/reference/database_schema.md:112) among
\* "All persistent configurations": a confirmed ban that was neither deleted nor
\* ran out is in force whenever the server serves.
BansSurviveRestart ==
    step = Idle => \A b \in BanIds : <<"ban", b>> \in promises => b \in bans
=============================================================================
