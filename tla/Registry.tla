---- MODULE Registry ----
(***************************************************************************)
(* The directory of the office: clients, people and projects with their    *)
(* trash, the connections, secrets, variables and expenses of a project,   *)
(* the operator's inbox, and the sessions of the desktop shell, each of    *)
(* which starts a sidecar with a token of its own.                         *)
(*                                                                         *)
(* A request commits without waiting for anything but the database, so it  *)
(* is one action.  Installing a connection from a preset is two requests   *)
(* of the wizard, and other requests, or the death of the sidecar, may     *)
(* come between them.                                                      *)
(***************************************************************************)
EXTENDS Integers, FiniteSets

CONSTANTS
    Clients, People, Projects,   \* rows
    Codes,                       \* projects.code
    Conns,                       \* project_mcps rows
    Names,                       \* of a connection and of its secret
    Values,                      \* of a secret
    Variables, Expenses, Notices,  \* rows
    MaxSessions                  \* bound on starts of the application

ASSUME RegistryBounds == MaxSessions \in Nat /\ "none" \notin Projects

VARIABLES
    clients, people, projects,
    conns, secrets,
    variables, expenses,
    notices, listed,     \* inbox rows; those some list of the panel showed
    session,             \* starts so far; also the token of the last one
    sidecar, web,        \* the process, and the window's connection to it
    wizard,              \* the preset wizard between its two requests
    (* observers *)
    exiled,              \* projects restored while their client was in the trash
    told,                \* what the operator was last told is stored, and when
    misled,              \* secrets for which the wizard told what is not stored
    swept                \* notices read by "mark all" without having been listed

directory == <<clients, people, projects, exiled>>
vault == <<conns, secrets, wizard, told, misled>>
ledger == <<variables, expenses>>
inbox == <<notices, listed, swept>>
shell == <<session, sidecar, web>>
registryVars == <<directory, vault, ledger, inbox, shell>>

NoProject == [code |-> "none", client |-> "none", live |-> FALSE]
NoConn == [project |-> "none", name |-> "none", live |-> FALSE, enabled |-> FALSE]
NoSecret == [key |-> 0, value |-> 0]
NoWizard == [project |-> "none", name |-> "none", value |-> 0]

RegistryInit ==
    /\ clients = [c \in Clients |-> "none"]
    /\ people = [p \in People |-> "none"]
    /\ projects = [p \in Projects |-> NoProject]
    /\ conns = [k \in Conns |-> NoConn]
    /\ secrets = [x \in Projects \X Names |-> NoSecret]
    /\ variables = [v \in Variables |-> "none"]
    /\ expenses = [e \in Expenses |-> "none"]
    /\ notices = [n \in Notices |-> "none"] /\ listed = {} /\ swept = {}
    /\ session = 0 /\ sidecar = "down" /\ web = "closed"
    /\ wizard = NoWizard
    /\ exiled = {} /\ misled = {}
    /\ told = [x \in Projects \X Names |-> NoSecret]
----------------------------------------------------------------------------
(* The shell and its sidecar.                                              *)

(* run, spawn_sidecar: a new token, and a port not known yet.              *)
Launch ==
    /\ web = "closed" /\ session < MaxSessions
    /\ session' = session + 1
    /\ sidecar' = "starting" /\ web' = "booting"
    /\ UNCHANGED <<directory, vault, ledger, inbox>>

Listen ==
    /\ sidecar = "starting"
    /\ sidecar' = "up"
    /\ UNCHANGED <<session, web, directory, vault, ledger, inbox>>

(* bootstrapApiClient asks the shell for the port every half second, and   *)
(* gives up after thirty times.                                            *)
WebBoots ==
    /\ web = "booting"
    /\ \/ sidecar \in {"up", "dead"} /\ web' = "on"
       \/ sidecar # "up" /\ web' = "gave_up"
    /\ UNCHANGED <<session, sidecar, directory, vault, ledger, inbox>>

(* An uncaught exception, or an environment it refuses to start in.  The   *)
(* shell does not start another; the wizard's request under way fails.     *)
SidecarDies ==
    /\ sidecar \in {"starting", "up"}
    /\ sidecar' = "dead"
    /\ wizard' = NoWizard
    /\ UNCHANGED <<session, web, directory, conns, secrets, told, misled, ledger, inbox>>

CloseWindow ==
    /\ web # "closed"
    /\ web' = "closed" /\ sidecar' = "down" /\ wizard' = NoWizard
    /\ UNCHANGED <<session, directory, conns, secrets, told, misled, ledger, inbox>>

Served == web = "on" /\ sidecar = "up"
----------------------------------------------------------------------------
(* Clients, people, projects and the trash.                                *)

FileRequest == Served /\ UNCHANGED <<vault, ledger, inbox, shell>>

(* Restoring asks only that the row exists.                                *)
SetClient(c, from, to) ==
    /\ FileRequest
    /\ clients[c] \in from
    /\ clients' = [clients EXCEPT ![c] = to]
    /\ UNCHANGED <<people, projects, exiled>>
CreateClient(c) == SetClient(c, {"none"}, "live")
RestoreClient(c) == SetClient(c, {"live", "trash"}, "live")

ProjectsOf(c) == {p \in Projects : projects[p].client = c /\ projects[p].live}

(* Mutant: only the client is looked at.                                   *)
DeleteClientAnyway(c) == SetClient(c, {"live"}, "trash")
DeleteClient(c) == ProjectsOf(c) = {} /\ SetClient(c, {"live"}, "trash")

SetPerson(p, from, to) ==
    /\ FileRequest
    /\ people[p] \in from
    /\ people' = [people EXCEPT ![p] = to]
    /\ UNCHANGED <<clients, projects, exiled>>
PersonRequest(p) == \/ SetPerson(p, {"none"}, "live")
                    \/ SetPerson(p, {"live"}, "trash")
                    \/ SetPerson(p, {"live", "trash"}, "live")

(* Mutant: a code is taken only while its project is live.                 *)
CreateProjectLiveCode(p, code, c) ==
    /\ FileRequest
    /\ projects[p] = NoProject /\ clients[c] = "live"
    /\ \A q \in Projects : projects[q].live => projects[q].code # code
    /\ projects' = [projects EXCEPT ![p] = [code |-> code, client |-> c, live |-> TRUE]]
    /\ UNCHANGED <<clients, people, exiled>>

(* createProject asks whether a live project has the code; projects.code   *)
(* is unique over the trashed ones too.                                    *)
CreateProject(p, code, c) ==
    /\ FileRequest
    /\ projects[p] = NoProject /\ clients[c] = "live"
    /\ \A q \in Projects : projects[q].code # code
    /\ projects' = [projects EXCEPT ![p] = [code |-> code, client |-> c, live |-> TRUE]]
    /\ UNCHANGED <<clients, people, exiled>>

DeleteProject(p) ==
    /\ FileRequest
    /\ projects[p].live
    /\ projects' = [projects EXCEPT ![p].live = FALSE]
    /\ exiled' = exiled \ {p}
    /\ UNCHANGED <<clients, people>>

RestoreProject(p) ==
    /\ FileRequest
    /\ projects[p] # NoProject
    /\ projects' = [projects EXCEPT ![p].live = TRUE]
    /\ exiled' = IF clients[projects[p].client] = "trash" THEN exiled \cup {p} ELSE exiled
    /\ UNCHANGED <<clients, people>>

FileNext ==
    \/ \E c \in Clients : CreateClient(c) \/ DeleteClient(c) \/ RestoreClient(c)
    \/ \E p \in People : PersonRequest(p)
    \/ \E p \in Projects : \/ \E code \in Codes, c \in Clients : CreateProject(p, code, c)
                           \/ DeleteProject(p) \/ RestoreProject(p)
----------------------------------------------------------------------------
(* Connections and secrets.  Both are created through the code of the      *)
(* project, which finds it while it is live, whatever became of its client.*)

Reachable(p) == projects[p].live

SecretRequest == Served /\ UNCHANGED <<directory, conns, ledger, inbox, shell>>

(* Seals value v with the key of this session.                             *)
Sealed(v) == [key |-> session, value |-> v]
Installing(p, n) == wizard.project = p /\ wizard.name = n
Store(p, n, row) ==
    /\ secrets' = [secrets EXCEPT ![<<p, n>>] = row]
    /\ told' = [told EXCEPT ![<<p, n>>] = row]
    /\ misled' = IF Installing(p, n) THEN misled \cup {<<p, n>>} ELSE misled \ {<<p, n>>}
    /\ UNCHANGED wizard

(* Mutant: a name that is taken is answered like one that is stored.       *)
CreateSecretTaken(p, n, v) ==
    /\ SecretRequest
    /\ Reachable(p)
    /\ secrets' = IF secrets[<<p, n>>] = NoSecret
                  THEN [secrets EXCEPT ![<<p, n>>] = Sealed(v)] ELSE secrets
    /\ told' = [told EXCEPT ![<<p, n>>] = Sealed(v)]
    /\ UNCHANGED <<wizard, misled>>

CreateSecret(p, n, v) ==
    /\ SecretRequest
    /\ Reachable(p) /\ secrets[<<p, n>>] = NoSecret
    /\ Store(p, n, Sealed(v))

(* By id: the project may be in the trash.                                 *)
PatchSecret(p, n, v) ==
    /\ SecretRequest
    /\ secrets[<<p, n>>] # NoSecret
    /\ Store(p, n, Sealed(v))

DeleteSecret(p, n) ==
    /\ SecretRequest
    /\ secrets[<<p, n>>] # NoSecret
    /\ Store(p, n, NoSecret)

Rows(p, n) == {k \in Conns : conns[k].project = p /\ conns[k].name = n}
LiveRows(p, n) == {k \in Rows(p, n) : conns[k].live}

(* Mutant: the row in the trash is not looked for.                         *)
CreateConnRow(k, p, n) ==
    /\ Reachable(p) /\ LiveRows(p, n) = {}
    /\ conns[k] = NoConn
    /\ conns' = [conns EXCEPT ![k] = [project |-> p, name |-> n, live |-> TRUE, enabled |-> TRUE]]

(* createProjectMcp: the row in the trash is revived and keeps its id.     *)
CreateConn(k, p, n) ==
    /\ Reachable(p) /\ LiveRows(p, n) = {}
    /\ IF Rows(p, n) # {} THEN k \in Rows(p, n) ELSE conns[k] = NoConn
    /\ conns' = [conns EXCEPT ![k] = [project |-> p, name |-> n, live |-> TRUE, enabled |-> TRUE]]

ConnRequest == Served /\ UNCHANGED <<directory, secrets, wizard, told, misled, ledger, inbox, shell>>

AddConn(k, p, n) == ConnRequest /\ CreateConn(k, p, n)

(* patchProjectMcp looks for a live connection of the name; the index      *)
(* (project, name) refuses one in the trash.                               *)
RenameConn(k, n) ==
    /\ ConnRequest
    /\ conns[k].live /\ Rows(conns[k].project, n) \subseteq {k}
    /\ conns' = [conns EXCEPT ![k].name = n]

SetConn(k, live, enabled) ==
    /\ ConnRequest
    /\ conns[k].live
    /\ conns' = [conns EXCEPT ![k].live = live, ![k].enabled = enabled]
ToggleConn(k) == SetConn(k, TRUE, ~conns[k].enabled)
DeleteConn(k) == SetConn(k, FALSE, conns[k].enabled)

(* install, first request: that the secret exists already is passed over,  *)
(* so the value the operator typed is not what is stored.                  *)
InstallSecret(p, n, v) ==
    /\ SecretRequest
    /\ wizard = NoWizard /\ Reachable(p)
    /\ wizard' = [project |-> p, name |-> n, value |-> v]
    /\ IF secrets[<<p, n>>] = NoSecret
       THEN secrets' = [secrets EXCEPT ![<<p, n>>] = Sealed(v)] /\ UNCHANGED misled
       ELSE misled' = misled \cup {<<p, n>>} /\ UNCHANGED secrets
    /\ UNCHANGED told

(* install, second request: a connection of that name makes it fail.       *)
InstallConn(k) ==
    LET p == wizard.project
        n == wizard.name
    IN  /\ Served /\ wizard # NoWizard
        /\ \/ CreateConn(k, p, n) /\ told' = [told EXCEPT ![<<p, n>>] = Sealed(wizard.value)]
           \/ (~Reachable(p) \/ LiveRows(p, n) # {}) /\ UNCHANGED <<conns, told>>
        /\ wizard' = NoWizard
        /\ UNCHANGED <<directory, secrets, misled, ledger, inbox, shell>>

ConnNext ==
    \E k \in Conns :
        \/ \E p \in Projects, n \in Names : AddConn(k, p, n)
        \/ \E n \in Names : RenameConn(k, n)
        \/ ToggleConn(k) \/ DeleteConn(k)

SecretNext(names) ==
    \/ \E p \in Projects, n \in names :
           \/ \E v \in Values : CreateSecret(p, n, v) \/ PatchSecret(p, n, v) \/ InstallSecret(p, n, v)
           \/ DeleteSecret(p, n)
    \/ \E k \in Conns : InstallConn(k)

(* decryptSecretsForProject: what a run of the project finds in its        *)
(* environment; a row sealed with another key is skipped.                  *)
RunEnv(p) == {<<n, secrets[<<p, n>>].value>> : n \in {m \in Names : secrets[<<p, m>>].key = session}}
----------------------------------------------------------------------------
(* Variables of an environment, and expenses.                              *)

LedgerRequest == Served /\ UNCHANGED <<directory, vault, inbox, shell>>

(* createProjectEnv looks for a live variable; the index refuses one that  *)
(* was deleted, so a name is used once.                                    *)
VariableRequest(v) ==
    /\ LedgerRequest
    /\ \/ variables[v] = "none" /\ variables' = [variables EXCEPT ![v] = "live"]
       \/ variables[v] = "live" /\ variables' = [variables EXCEPT ![v] = "deleted"]
    /\ UNCHANGED expenses

ExpenseRequest(e) ==
    /\ LedgerRequest
    /\ \/ expenses[e] = "none" /\ expenses' = [expenses EXCEPT ![e] = "live"]
       \/ expenses[e] = "live" /\ expenses' = [expenses EXCEPT ![e] = "deleted"]
    /\ UNCHANGED variables
----------------------------------------------------------------------------
(* The inbox.                                                              *)

InboxRequest == Served /\ UNCHANGED <<directory, vault, ledger, shell>>

(* Mutant: the row is written as it will be once it is read.               *)
EnqueueRead(i) ==
    /\ sidecar = "up" /\ notices[i] = "none"
    /\ notices' = [notices EXCEPT ![i] = "read"]
    /\ UNCHANGED <<listed, swept, directory, vault, ledger, shell>>

(* A run ended, a report escalated: whether or not a window is there.      *)
Enqueue(i) ==
    /\ sidecar = "up" /\ notices[i] = "none"
    /\ notices' = [notices EXCEPT ![i] = "unread"]
    /\ UNCHANGED <<listed, swept, directory, vault, ledger, shell>>

ListInbox ==
    /\ InboxRequest
    /\ listed' = listed \cup {i \in Notices : notices[i] \in {"unread", "read"}}
    /\ UNCHANGED <<notices, swept>>

(* The panel's buttons name a row it listed; the inbox is the operator's,  *)
(* who may have it open twice, so the row may be gone.                     *)
MarkRead(i) ==
    /\ InboxRequest
    /\ i \in listed /\ notices[i] \in {"unread", "read"}
    /\ notices' = [notices EXCEPT ![i] = "read"]
    /\ UNCHANGED <<listed, swept>>

Dismiss(i) ==
    /\ InboxRequest
    /\ i \in listed /\ notices[i] \in {"unread", "read"}
    /\ notices' = [notices EXCEPT ![i] = "gone"]
    /\ UNCHANGED <<listed, swept>>

(* markAllRead: every unread row, also one that came after the list.       *)
MarkAllRead ==
    LET unread == {i \in Notices : notices[i] = "unread"}
    IN  /\ InboxRequest
        /\ unread \cap listed # {}
        /\ notices' = [i \in Notices |-> IF i \in unread THEN "read" ELSE notices[i]]
        /\ swept' = swept \cup (unread \ listed)
        /\ UNCHANGED listed

InboxNext == \/ \E i \in Notices : Enqueue(i) \/ MarkRead(i) \/ Dismiss(i)
             \/ ListInbox \/ MarkAllRead

LedgerNext == \/ \E v \in Variables : VariableRequest(v)
              \/ \E e \in Expenses : ExpenseRequest(e)

ShellNext == Launch \/ Listen \/ WebBoots \/ SidecarDies \/ CloseWindow
RegistryNext ==
    ShellNext \/ FileNext \/ ConnNext \/ SecretNext(Names) \/ LedgerNext \/ InboxNext
RegistrySpec == RegistryInit /\ [][RegistryNext]_registryVars
----------------------------------------------------------------------------
RegistryTypeOK ==
    /\ clients \in [Clients -> {"none", "live", "trash"}]
    /\ people \in [People -> {"none", "live", "trash"}]
    /\ \A p \in Projects : projects[p] = NoProject
           \/ projects[p] \in [code : Codes, client : Clients, live : BOOLEAN]
    /\ \A k \in Conns : conns[k] = NoConn
           \/ conns[k] \in [project : Projects, name : Names, live : BOOLEAN, enabled : BOOLEAN]
    /\ \A p \in Projects, n \in Names :
           secrets[<<p, n>>] = NoSecret \/ secrets[<<p, n>>] \in [key : 1 .. session, value : Values]
    /\ notices \in [Notices -> {"none", "unread", "read", "gone"}]
    /\ session \in 0 .. MaxSessions
    /\ sidecar \in {"down", "starting", "up", "dead"}
    /\ web \in {"closed", "booting", "on", "gave_up"}

(* A code names one project for ever: restoring a project, however many    *)
(* were created while it was in the trash, never leaves two with its code  *)
(* (every panel and every folder of the workspace goes by the code).       *)
CodeNamesOneProject ==
    \A p, q \in Projects : p # q /\ projects[p].code = projects[q].code => projects[p] = NoProject

(* A live project belongs to a live client, so that the list of projects   *)
(* shows it, unless it was restored while its client was in the trash:     *)
(* restoreProject does not look, and the panel then claims the row is back *)
(* in the active list (trash.ts:1-9, TrashPanel.tsx:30).                   *)
ListedUnlessExiled ==
    \A p \in Projects :
        projects[p].live /\ clients[projects[p].client] # "live" => p \in exiled

(* A project has one row per connection name, live or in the trash, so     *)
(* that an agent is given each server once, whatever was installed,        *)
(* renamed, removed and installed again.                                   *)
OneConnPerName ==
    \A p \in Projects, n \in Names : Cardinality(Rows(p, n)) <= 1

(* What the operator was told, in this session, is stored under a name is  *)
(* what a run of the project finds there, through every order of the       *)
(* panels' requests and the wizard's, unless the wizard met a secret that  *)
(* was there or that changed between its requests.                         *)
AgentsGetWhatWasTold ==
    \A p \in Projects, n \in Names :
        told[<<p, n>>].key = session /\ session # 0 /\ <<p, n>> \notin misled
            => <<n, told[<<p, n>>].value>> \in RunEnv(p)

(* A notice is read or gone only if the panel showed it, or a sweep took   *)
(* it with the others.                                                     *)
ReadAfterListed ==
    \A i \in Notices : notices[i] \in {"read", "gone"} => i \in listed \cup swept

(* Throwing away and restoring, installing twice, renaming, and requests   *)
(* over lists that are out of date leave the directory as its panels and   *)
(* the agents take it to be.                                               *)
DirectorySound ==
    CodeNamesOneProject /\ ListedUnlessExiled /\ OneConnPerName /\ ReadAfterListed

(* secret-cipher.ts:4-5: the key is unique per install and changes when    *)
(* the operator regenerates the token, so what was stored stays readable.  *)
SecretsSurviveRestart ==
    \A p \in Projects, n \in Names :
        secrets[<<p, n>>] # NoSecret /\ Served => secrets[<<p, n>>].key = session
====
