---- MODULE Office_proofs ----
(***************************************************************************)
(* What holds of four desks of the office: the registries, the secrets,    *)
(* the connections and the inbox, for any number of rows, names and        *)
(* sessions of the shell; the emulators, the apps and the mirror, for any  *)
(* number of machines, requests, devices, sockets and restarts of the      *)
(* sidecar; the design of a project, for any Figma file and any number of  *)
(* runs; the conversation of a task, for any number of turns.              *)
(***************************************************************************)
EXTENDS Registry, Devices, Design, Chat, DataFacts, SequenceTheorems, FiniteSetTheorems,
        TLAPS

(***************************************************************************)
(* The registries.                                                         *)
(***************************************************************************)

ProjectRow == {NoProject} \cup [code : Codes, client : Clients, live : BOOLEAN]
ConnRow == {NoConn} \cup [project : Projects, name : Names, live : BOOLEAN, enabled : BOOLEAN]
SecretRow(top) == {NoSecret} \cup [key : 1 .. top, value : Values]

FileTypes ==
    /\ clients \in [Clients -> {"none", "live", "trash"}]
    /\ people \in [People -> {"none", "live", "trash"}]
    /\ projects \in [Projects -> ProjectRow]

(* No two projects have a code in common, and a project's client was never *)
(* taken away from it, but for the ones restored into the void.            *)
Files ==
    /\ FileTypes
    /\ CodeNamesOneProject
    /\ \A p \in Projects : projects[p] # NoProject => clients[projects[p].client] # "none"
    /\ ListedUnlessExiled

Wires ==
    /\ conns \in [Conns -> ConnRow]
    /\ \A k, l \in Conns : k # l /\ conns[k].project = conns[l].project /\ conns[k].name = conns[l].name
                               => conns[k] = NoConn

(* A wizard between its two requests has stored the value it was given,    *)
(* unless it is known not to have; and what was told in this session is    *)
(* what is stored.                                                         *)
Keys ==
    /\ secrets \in [Projects \X Names -> SecretRow(session)]
    /\ told \in [Projects \X Names -> SecretRow(session)]
    /\ wizard \in {NoWizard} \cup [project : Projects, name : Names, value : Values]
    /\ wizard # NoWizard => Served
    /\ wizard # NoWizard /\ <<wizard.project, wizard.name>> \notin misled
           => secrets[<<wizard.project, wizard.name>>] = Sealed(wizard.value)
    /\ \A p \in Projects, n \in Names :
           told[<<p, n>>].key = session /\ session # 0 /\ <<p, n>> \notin misled
               => secrets[<<p, n>>] = told[<<p, n>>]

MailInv ==
    /\ notices \in [Notices -> {"none", "unread", "read", "gone"}]
    /\ ReadAfterListed

Shell ==
    /\ session \in 0 .. MaxSessions
    /\ sidecar \in {"down", "starting", "up", "dead"}
    /\ web \in {"closed", "booting", "on", "gave_up"}
    /\ web # "closed" => session # 0

RegistryInv == Files /\ Wires /\ Keys /\ MailInv /\ Shell

-----------------------------------------------------------------------------
(* The requests, by what they touch.                                       *)

THEOREM RegistryInitInv == RegistryInit => RegistryInv
<1> SUFFICES ASSUME RegistryInit PROVE RegistryInv
  OBVIOUS
<1>1. Files
  BY DEF RegistryInit, Files, FileTypes, ProjectRow, NoProject, CodeNamesOneProject, ListedUnlessExiled
<1>2. Wires
  BY DEF RegistryInit, Wires, ConnRow
<1>3. Keys
  <2>1. secrets = [x \in Projects \X Names |-> NoSecret] /\ told = [x \in Projects \X Names |-> NoSecret]
    BY DEF RegistryInit
  <2>2. secrets \in [Projects \X Names -> SecretRow(session)] /\ told \in [Projects \X Names -> SecretRow(session)]
    BY <2>1 DEF SecretRow
  <2> QED BY <2>1, <2>2 DEF RegistryInit, Keys
<1>4. MailInv
  BY DEF RegistryInit, MailInv, ReadAfterListed
<1>5. Shell
  BY RegistryBounds DEF RegistryInit, Shell
<1> QED BY <1>1, <1>2, <1>3, <1>4, <1>5 DEF RegistryInv

(* Whoever leaves a group of variables alone keeps its part.               *)
LEMMA FilesStay ==
  ASSUME Files, UNCHANGED directory
  PROVE  Files'
BY DEF Files, FileTypes, CodeNamesOneProject, ListedUnlessExiled, directory

LEMMA MailStays ==
  ASSUME MailInv, UNCHANGED inbox
  PROVE  MailInv'
BY DEF MailInv, ReadAfterListed, inbox

LEMMA KeysStay ==
  ASSUME Keys, UNCHANGED <<secrets, told, wizard, misled, session>>,
         wizard # NoWizard => Served'
  PROVE  Keys'
BY DEF Keys, Sealed, SecretRow

LEMMA WiresStay ==
  ASSUME Wires, UNCHANGED conns
  PROVE  Wires'
BY DEF Wires

LEMMA ShellKeeps ==
  ASSUME RegistryInv, ShellNext
  PROVE  RegistryInv'
<1>1. Files' /\ MailInv' /\ Wires'
  BY FilesStay, MailStays, WiresStay DEF RegistryInv, ShellNext, Launch, Listen, WebBoots, SidecarDies, CloseWindow, vault
<1>2. Shell'
  BY RegistryBounds DEF RegistryInv, Shell, ShellNext, Launch, Listen, WebBoots, SidecarDies, CloseWindow
<1>3. Keys /\ Shell
  BY DEF RegistryInv
<1>4. CASE Launch
  <2>1. /\ session \in Nat /\ session' = session + 1 /\ wizard' = wizard /\ wizard = NoWizard
        /\ UNCHANGED <<secrets, told, misled>>
    BY <1>3, <1>4 DEF Launch, Keys, Shell, Served, vault
  <2>2. SecretRow(session) \subseteq SecretRow(session')
    BY <2>1 DEF SecretRow
  <2>3. \A p \in Projects, n \in Names : told[<<p, n>>].key # session'
    <3> SUFFICES ASSUME NEW p \in Projects, NEW n \in Names PROVE told[<<p, n>>].key # session'
      OBVIOUS
    <3>1. told[<<p, n>>] \in SecretRow(session)
      BY <1>3 DEF Keys
    <3> QED BY <3>1, <2>1 DEF SecretRow, NoSecret
  <2>4. Keys'
    BY <1>3, <2>1, <2>2, <2>3 DEF Keys
  <2> QED BY <1>1, <1>2, <2>4 DEF RegistryInv
<1>5. CASE Listen
  <2>1. Keys'
    BY <1>3, <1>5, KeysStay DEF Listen, vault, Keys, Served
  <2> QED BY <2>1, <1>1, <1>2 DEF RegistryInv
<1>6. CASE WebBoots
  <2>1. Keys'
    BY <1>3, <1>6, KeysStay DEF WebBoots, vault, Keys, Served
  <2> QED BY <2>1, <1>1, <1>2 DEF RegistryInv
<1>7. CASE SidecarDies \/ CloseWindow
  <2>1. wizard' = NoWizard /\ UNCHANGED <<secrets, told, misled, session>>
    BY <1>7 DEF SidecarDies, CloseWindow
  <2>2. Keys'
    BY <2>1, <1>3 DEF Keys
  <2> QED BY <2>2, <1>1, <1>2 DEF RegistryInv
<1> QED BY <1>4, <1>5, <1>6, <1>7 DEF ShellNext

-----------------------------------------------------------------------------
(* Clients, people, projects.                                              *)

LEMMA ClientSteps ==
  ASSUME Files, NEW c \in Clients, CreateClient(c) \/ DeleteClient(c) \/ RestoreClient(c)
  PROVE  Files'
<1>1. PICK to \in {"live", "trash"} :
        /\ clients' = [clients EXCEPT ![c] = to]
        /\ UNCHANGED <<people, projects, exiled>>
        /\ to = "trash" => ProjectsOf(c) = {}
  BY DEF CreateClient, DeleteClient, RestoreClient, SetClient
<1>2. clients' \in [Clients -> {"none", "live", "trash"}] /\ clients'[c] = to
      /\ \A d \in Clients : d # c => clients'[d] = clients[d]
  BY <1>1 DEF Files, FileTypes
<1>3. FileTypes' /\ CodeNamesOneProject'
  BY <1>1, <1>2 DEF Files, FileTypes, CodeNamesOneProject
<1>4. \A p \in Projects : projects[p] # NoProject => projects[p].client \in Clients
  BY DEF Files, FileTypes, ProjectRow
<1>5. \A p \in Projects : projects[p] # NoProject => clients'[projects[p].client] # "none"
  BY <1>2, <1>4 DEF Files
<1>6. ASSUME NEW p \in Projects, projects[p].live, clients'[projects[p].client] # "live"
      PROVE  p \in exiled
  <2>1. projects[p] # NoProject
    BY <1>6 DEF NoProject
  <2>2. projects[p].client # c
    BY <1>1, <1>2, <1>6 DEF ProjectsOf
  <2> QED BY <1>2, <1>4, <1>6, <2>1, <2>2 DEF Files, ListedUnlessExiled
<1> QED BY <1>1, <1>3, <1>5, <1>6 DEF Files, ListedUnlessExiled

LEMMA PersonSteps ==
  ASSUME Files, NEW p \in People, PersonRequest(p)
  PROVE  Files'
<1>1. PICK to \in {"live", "trash"} : people' = [people EXCEPT ![p] = to]
                                    /\ UNCHANGED <<clients, projects, exiled>>
  BY DEF PersonRequest, SetPerson
<1>2. people' \in [People -> {"none", "live", "trash"}]
  BY <1>1 DEF Files, FileTypes
<1> QED BY <1>1, <1>2 DEF Files, FileTypes, CodeNamesOneProject, ListedUnlessExiled

LEMMA NewProject ==
  ASSUME Files, NEW p \in Projects, NEW code \in Codes, NEW c \in Clients, CreateProject(p, code, c)
  PROVE  Files'
<1> DEFINE row == [code |-> code, client |-> c, live |-> TRUE]
<1>1. /\ projects' = [projects EXCEPT ![p] = row] /\ UNCHANGED <<clients, people, exiled>>
      /\ clients[c] = "live" /\ \A q \in Projects : projects[q].code # code
  BY DEF CreateProject
<1>2. row \in ProjectRow /\ row.code = code /\ row.client = c /\ row.live = TRUE
  BY DEF ProjectRow
<1> HIDE DEF row
<1>3. projects' \in [Projects -> ProjectRow] /\ projects'[p] = row
      /\ \A q \in Projects : q # p => projects'[q] = projects[q]
  BY <1>1, <1>2 DEF Files, FileTypes
<1>4. FileTypes'
  BY <1>1, <1>3 DEF Files, FileTypes
<1>5. CodeNamesOneProject'
  BY <1>1, <1>2, <1>3 DEF Files, CodeNamesOneProject
<1>6. \A q \in Projects : projects'[q] # NoProject => clients'[projects'[q].client] # "none"
  BY <1>1, <1>2, <1>3 DEF Files
<1>7. ListedUnlessExiled'
  BY <1>1, <1>2, <1>3 DEF Files, ListedUnlessExiled
<1> QED BY <1>4, <1>5, <1>6, <1>7 DEF Files

LEMMA TrashedAndBack ==
  ASSUME Files, NEW p \in Projects, DeleteProject(p) \/ RestoreProject(p)
  PROVE  Files'
<1>1. PICK to \in BOOLEAN :
        /\ projects' = [projects EXCEPT ![p].live = to] /\ UNCHANGED <<clients, people>>
        /\ exiled \ {p} \subseteq exiled'
        /\ (to /\ clients[projects[p].client] = "trash") => p \in exiled'
  BY DEF DeleteProject, RestoreProject
<1>2. projects[p] \in [code : Codes, client : Clients, live : BOOLEAN] /\ projects[p] # NoProject
  BY DEF Files, FileTypes, ProjectRow, DeleteProject, RestoreProject, NoProject
<1>3. /\ projects'[p] \in ProjectRow /\ projects'[p].code = projects[p].code
      /\ projects'[p].client = projects[p].client /\ projects'[p].live = to
  BY <1>1, <1>2 DEF Files, FileTypes, ProjectRow
<1>4. \A q \in Projects : q # p => projects'[q] = projects[q]
  BY <1>1 DEF Files, FileTypes
<1>5. FileTypes'
  BY <1>1, <1>3, <1>4 DEF Files, FileTypes
<1>6. CodeNamesOneProject'
  BY <1>2, <1>3, <1>4 DEF Files, CodeNamesOneProject
<1>7. \A q \in Projects : projects'[q] # NoProject => clients'[projects'[q].client] # "none"
  BY <1>1, <1>2, <1>3, <1>4 DEF Files
<1>8. clients[projects[p].client] \in {"live", "trash"}
  BY <1>2 DEF Files, FileTypes
<1>9. ListedUnlessExiled'
  BY <1>1, <1>3, <1>4, <1>8 DEF Files, ListedUnlessExiled
<1> QED BY <1>5, <1>6, <1>7, <1>9 DEF Files

LEMMA FilesKept ==
  ASSUME RegistryInv, FileNext
  PROVE  RegistryInv'
<1>1. UNCHANGED <<vault, ledger, inbox, shell>>
  BY DEF FileNext, CreateClient, DeleteClient, RestoreClient, SetClient, PersonRequest, SetPerson,
         CreateProject, DeleteProject, RestoreProject, FileRequest
<1>2. Files'
  BY ClientSteps, PersonSteps, NewProject, TrashedAndBack DEF RegistryInv, FileNext
<1>3. Wires' /\ MailInv' /\ Shell'
  BY <1>1, WiresStay, MailStays DEF RegistryInv, Shell, vault, shell
<1>4. Keys'
  BY <1>1, KeysStay DEF RegistryInv, vault, shell, Keys, Served
<1> QED BY <1>2, <1>3, <1>4 DEF RegistryInv

-----------------------------------------------------------------------------
(* Connections.                                                            *)

LEMMA RowsAreFew ==
  ASSUME Wires, NEW k \in Conns, conns[k] # NoConn
  PROVE  \A l \in Conns : l # k /\ conns[l].project = conns[k].project => conns[l].name # conns[k].name
BY DEF Wires

LEMMA ConnCreated ==
  ASSUME Wires, NEW k \in Conns, NEW p \in Projects, NEW n \in Names, CreateConn(k, p, n)
  PROVE  Wires'
<1> DEFINE row == [project |-> p, name |-> n, live |-> TRUE, enabled |-> TRUE]
<1>1. conns' = [conns EXCEPT ![k] = row]
  BY DEF CreateConn
<1>2. row \in ConnRow /\ row.project = p /\ row.name = n
  BY DEF ConnRow
<1> HIDE DEF row
<1>3. conns' \in [Conns -> ConnRow] /\ conns'[k] = row /\ \A l \in Conns : l # k => conns'[l] = conns[l]
  BY <1>1, <1>2 DEF Wires
<1>4. p # "none"
  BY RegistryBounds
<1>5. \A l \in Conns : l # k => ~(conns[l].project = p /\ conns[l].name = n)
  <2>1. CASE Rows(p, n) = {}
    BY <2>1 DEF Rows
  <2>2. CASE Rows(p, n) # {}
    <3>1. conns[k].project = p /\ conns[k].name = n
      BY <2>2 DEF CreateConn, Rows
    <3>2. conns[k] # NoConn
      BY <3>1, <1>4 DEF NoConn
    <3> QED BY <3>1, <3>2, RowsAreFew
  <2> QED BY <2>1, <2>2
<1> QED BY <1>2, <1>3, <1>5 DEF Wires

LEMMA ConnChanged ==
  ASSUME Wires, ConnNext
  PROVE  Wires'
<1>1. ASSUME NEW l \in Conns, NEW p \in Projects, NEW n \in Names, AddConn(l, p, n)
      PROVE  Wires'
  BY <1>1, ConnCreated DEF AddConn
<1>2. ASSUME NEW l \in Conns, NEW n \in Names, RenameConn(l, n)
      PROVE  Wires'
  <2>1. conns' = [conns EXCEPT ![l].name = n] /\ conns[l].live /\ Rows(conns[l].project, n) \subseteq {l}
    BY <1>2 DEF RenameConn
  <2>2. conns[l] # NoConn /\ conns[l] \in [project : Projects, name : Names, live : BOOLEAN, enabled : BOOLEAN]
    BY <2>1 DEF Wires, ConnRow, NoConn
  <2>3. conns'[l] \in ConnRow /\ conns'[l].project = conns[l].project /\ conns'[l].name = n
    BY <2>1, <2>2 DEF Wires, ConnRow
  <2>4. \A m \in Conns : m # l => conns'[m] = conns[m]
    BY <2>1 DEF Wires
  <2>5. \A m \in Conns : m # l => ~(conns[m].project = conns[l].project /\ conns[m].name = n)
    BY <2>1 DEF Rows
  <2> QED BY <2>1, <2>3, <2>4, <2>5 DEF Wires
<1>3. ASSUME NEW l \in Conns, ToggleConn(l) \/ DeleteConn(l)
      PROVE  Wires'
  <2>1. conns[l] # NoConn /\ conns[l] \in [project : Projects, name : Names, live : BOOLEAN, enabled : BOOLEAN]
    BY <1>3 DEF Wires, ConnRow, NoConn, ToggleConn, DeleteConn, SetConn
  <2>2. PICK live \in BOOLEAN, enabled \in BOOLEAN :
          conns' = [conns EXCEPT ![l].live = live, ![l].enabled = enabled]
    BY <1>3, <2>1 DEF ToggleConn, DeleteConn, SetConn
  <2>3. conns'[l] \in ConnRow /\ conns'[l].project = conns[l].project /\ conns'[l].name = conns[l].name
    BY <2>1, <2>2 DEF Wires, ConnRow
  <2>4. \A m \in Conns : m # l => conns'[m] = conns[m]
    BY <2>2 DEF Wires
  <2> QED BY <2>1, <2>2, <2>3, <2>4 DEF Wires
<1> QED BY <1>1, <1>2, <1>3 DEF ConnNext

LEMMA WiresKept ==
  ASSUME RegistryInv, ConnNext
  PROVE  RegistryInv'
<1>1. UNCHANGED <<directory, secrets, wizard, told, misled, ledger, inbox, shell>>
  BY DEF ConnNext, AddConn, RenameConn, ToggleConn, DeleteConn, SetConn, ConnRequest
<1>2. Wires'
  BY ConnChanged DEF RegistryInv, ConnNext
<1>3. Files' /\ MailInv' /\ Shell'
  BY <1>1, FilesStay, MailStays DEF RegistryInv, Shell, shell
<1>4. Keys'
  BY <1>1, KeysStay DEF RegistryInv, shell, Keys, Served
<1> QED BY <1>2, <1>3, <1>4 DEF RegistryInv

-----------------------------------------------------------------------------
(* Secrets and the wizard.                                                 *)

WizardRow == [project : Projects, name : Names, value : Values]

LEMMA SealedRow ==
  ASSUME NEW v \in Values, Shell, web # "closed"
  PROVE  Sealed(v) \in SecretRow(session) /\ Sealed(v).key = session /\ Sealed(v).key # 0
BY DEF Sealed, SecretRow, Shell

LEMMA Stored ==
  ASSUME Keys, NEW p \in Projects, NEW n \in Names, NEW row \in SecretRow(session), Store(p, n, row),
         UNCHANGED <<session, web, sidecar>>
  PROVE  Keys'
<1>1. /\ secrets' = [secrets EXCEPT ![<<p, n>>] = row] /\ told' = [told EXCEPT ![<<p, n>>] = row]
      /\ wizard' = wizard /\ session' = session /\ (Served' <=> Served)
  BY DEF Store, Served
<1>2. /\ secrets' \in [Projects \X Names -> SecretRow(session)] /\ told' \in [Projects \X Names -> SecretRow(session)]
      /\ secrets'[<<p, n>>] = row /\ told'[<<p, n>>] = row
      /\ \A x \in Projects \X Names : x # <<p, n>> => (secrets'[x] = secrets[x] /\ told'[x] = told[x])
  BY <1>1 DEF Keys
<1>3. \A x \in Projects \X Names : x # <<p, n>> => (x \in misled' <=> x \in misled)
  BY DEF Store
<1>4. ASSUME wizard # NoWizard, <<wizard.project, wizard.name>> \notin misled'
      PROVE  secrets'[<<wizard.project, wizard.name>>] = Sealed(wizard.value)
  <2>1. wizard \in WizardRow /\ <<wizard.project, wizard.name>> \in Projects \X Names
    BY <1>4 DEF Keys, WizardRow
  <2>2. ~Installing(p, n)
    BY <1>4 DEF Store, Installing
  <2>3. <<wizard.project, wizard.name>> # <<p, n>>
    BY <2>2 DEF Installing
  <2> QED BY <1>2, <1>3, <1>4, <2>1, <2>3 DEF Keys
<1>5. ASSUME NEW q \in Projects, NEW m \in Names, told'[<<q, m>>].key = session, session # 0,
             <<q, m>> \notin misled'
      PROVE  secrets'[<<q, m>>] = told'[<<q, m>>]
  BY <1>2, <1>3, <1>5 DEF Keys
<1> QED BY <1>1, <1>2, <1>4, <1>5 DEF Keys, Sealed

LEMMA InstallBegun ==
  ASSUME Keys, Shell, NEW p \in Projects, NEW n \in Names, NEW v \in Values, InstallSecret(p, n, v)
  PROVE  Keys'
<1> DEFINE w == [project |-> p, name |-> n, value |-> v]
<1>1. /\ Served /\ Served' /\ wizard = NoWizard /\ wizard' = w /\ told' = told /\ session' = session
      /\ web # "closed" /\ misled \subseteq misled' /\ misled' \subseteq misled \cup {<<p, n>>}
  BY DEF InstallSecret, SecretRequest, Served, shell
<1>2. w \in WizardRow /\ w.project = p /\ w.name = n /\ w.value = v
  BY DEF WizardRow
<1> HIDE DEF w
<1>3. Sealed(v) \in SecretRow(session) /\ session # 0 /\ Sealed(v)' = Sealed(v)
  BY <1>1, SealedRow DEF Sealed, Shell
<1>4. CASE secrets[<<p, n>>] = NoSecret
  <2>1. secrets' = [secrets EXCEPT ![<<p, n>>] = Sealed(v)] /\ misled' = misled
    BY <1>4 DEF InstallSecret
  <2>2. secrets' \in [Projects \X Names -> SecretRow(session)] /\ secrets'[<<p, n>>] = Sealed(v)
        /\ \A x \in Projects \X Names : x # <<p, n>> => secrets'[x] = secrets[x]
    BY <2>1, <1>3 DEF Keys
  <2>3. ASSUME NEW q \in Projects, NEW m \in Names, told[<<q, m>>].key = session, <<q, m>> \notin misled
        PROVE  secrets'[<<q, m>>] = told[<<q, m>>]
    <3>1. secrets[<<q, m>>] = told[<<q, m>>]
      BY <2>3, <1>3 DEF Keys
    <3>2. <<q, m>> # <<p, n>>
      BY <3>1, <2>3, <1>3, <1>4 DEF NoSecret
    <3> QED BY <3>1, <3>2, <2>2
  <2>4. secrets'[<<wizard'.project, wizard'.name>>] = Sealed(wizard'.value)
    BY <1>1, <1>2, <2>2
  <2>5. Sealed(wizard.value)' = Sealed(wizard'.value)
    BY <1>1 DEF Sealed
  <2> QED BY <1>1, <1>2, <2>1, <2>2, <2>3, <2>4, <2>5 DEF Keys, WizardRow
<1>5. CASE secrets[<<p, n>>] # NoSecret
  <2>1. secrets' = secrets /\ misled' = misled \cup {<<p, n>>}
    BY <1>5 DEF InstallSecret
  <2> QED BY <1>1, <1>2, <2>1 DEF Keys, WizardRow
<1> QED BY <1>4, <1>5

LEMMA InstallEnded ==
  ASSUME Keys, Shell, NEW k \in Conns, InstallConn(k)
  PROVE  Keys'
<1> DEFINE p == wizard.project
           n == wizard.name
<1>1. /\ wizard # NoWizard /\ wizard' = NoWizard /\ UNCHANGED <<secrets, misled, session>>
      /\ web # "closed" /\ (told' = told \/ told' = [told EXCEPT ![<<p, n>>] = Sealed(wizard.value)])
  BY DEF InstallConn, Served, shell
<1>2. wizard \in WizardRow /\ <<p, n>> \in Projects \X Names /\ wizard.value \in Values
  BY <1>1 DEF Keys, WizardRow
<1>3. Sealed(wizard.value) \in SecretRow(session)
  BY <1>1, <1>2, SealedRow
<1>4. <<p, n>> \notin misled => secrets[<<p, n>>] = Sealed(wizard.value)
  BY <1>1 DEF Keys
<1>5. told' \in [Projects \X Names -> SecretRow(session)]
  BY <1>1, <1>3 DEF Keys
<1>6. ASSUME NEW q \in Projects, NEW m \in Names, told'[<<q, m>>].key = session, session # 0,
             <<q, m>> \notin misled
      PROVE  secrets[<<q, m>>] = told'[<<q, m>>]
  <2>1. CASE told' = told
    BY <2>1, <1>6 DEF Keys
  <2>2. CASE told' = [told EXCEPT ![<<p, n>>] = Sealed(wizard.value)] /\ <<q, m>> = <<p, n>>
    <3>1. told'[<<q, m>>] = Sealed(wizard.value)
      BY <2>2, <1>2 DEF Keys
    <3> QED BY <3>1, <1>4, <1>6, <2>2
  <2>3. CASE told' = [told EXCEPT ![<<p, n>>] = Sealed(wizard.value)] /\ <<q, m>> # <<p, n>>
    <3>1. told'[<<q, m>>] = told[<<q, m>>]
      BY <2>3 DEF Keys
    <3> QED BY <3>1, <1>6 DEF Keys
  <2> QED BY <1>1, <2>1, <2>2, <2>3
<1> QED BY <1>1, <1>5, <1>6 DEF Keys

LEMMA KeysKept ==
  ASSUME RegistryInv, SecretNext(Names)
  PROVE  RegistryInv'
<1> SUFFICES ASSUME Keys, Shell PROVE RegistryInv'
  BY DEF RegistryInv
<1>1. UNCHANGED <<directory, ledger, inbox, shell>> /\ Served
  BY DEF SecretNext, CreateSecret, PatchSecret, InstallSecret, DeleteSecret, InstallConn, SecretRequest
<1>2. Files' /\ MailInv' /\ Shell'
  BY <1>1, FilesStay, MailStays DEF RegistryInv, Shell, shell
<1>3. ASSUME NEW p \in Projects, NEW n \in Names, NEW v \in Values, CreateSecret(p, n, v) \/ PatchSecret(p, n, v)
      PROVE  Wires' /\ Keys'
  <2>1. Store(p, n, Sealed(v)) /\ conns' = conns
    BY <1>3 DEF CreateSecret, PatchSecret, SecretRequest
  <2>2. Sealed(v) \in SecretRow(session) /\ UNCHANGED <<session, web, sidecar>>
    BY <1>1, SealedRow DEF Served, shell
  <2> QED BY <2>1, <2>2, Stored, WiresStay DEF RegistryInv
<1>4. ASSUME NEW p \in Projects, NEW n \in Names, DeleteSecret(p, n)
      PROVE  Wires' /\ Keys'
  <2>1. Store(p, n, NoSecret) /\ conns' = conns
    BY <1>4 DEF DeleteSecret, SecretRequest
  <2>2. NoSecret \in SecretRow(session) /\ UNCHANGED <<session, web, sidecar>>
    BY <1>1 DEF shell, SecretRow
  <2> QED BY <2>1, <2>2, Stored, WiresStay DEF RegistryInv
<1>5. ASSUME NEW p \in Projects, NEW n \in Names, NEW v \in Values, InstallSecret(p, n, v)
      PROVE  Wires' /\ Keys'
  <2>1. conns' = conns
    BY <1>5 DEF InstallSecret, SecretRequest
  <2> QED BY <2>1, <1>5, InstallBegun, WiresStay DEF RegistryInv
<1>6. ASSUME NEW k \in Conns, InstallConn(k)
      PROVE  Wires' /\ Keys'
  <2>1. wizard.project \in Projects /\ wizard.name \in Names
    BY <1>6 DEF InstallConn, Keys
  <2>2. CreateConn(k, wizard.project, wizard.name) \/ conns' = conns
    BY <1>6 DEF InstallConn
  <2> QED BY <2>1, <2>2, <1>6, InstallEnded, ConnCreated, WiresStay DEF RegistryInv
<1> QED BY <1>2, <1>3, <1>4, <1>5, <1>6 DEF RegistryInv, SecretNext

-----------------------------------------------------------------------------
(* The inbox, and what this module says nothing more about.                *)

LEMMA MailKept ==
  ASSUME RegistryInv, InboxNext
  PROVE  RegistryInv'
<1>1. UNCHANGED <<directory, vault, ledger, shell>>
  BY DEF InboxNext, Enqueue, MarkRead, Dismiss, ListInbox, MarkAllRead, InboxRequest
<1>2. Files' /\ Wires' /\ Shell'
  BY <1>1, FilesStay, WiresStay DEF RegistryInv, Shell, shell, vault
<1>3. Keys'
  BY <1>1, KeysStay DEF RegistryInv, vault, shell, Keys, Served
<1>4. MailInv'
  <2>1. ASSUME NEW i \in Notices, Enqueue(i) \/ MarkRead(i) \/ Dismiss(i)
        PROVE  MailInv'
    BY <2>1 DEF RegistryInv, MailInv, ReadAfterListed, Enqueue, MarkRead, Dismiss
  <2>2. CASE ListInbox
    BY <2>2 DEF RegistryInv, MailInv, ReadAfterListed, ListInbox
  <2>3. CASE MarkAllRead
    BY <2>3 DEF RegistryInv, MailInv, ReadAfterListed, MarkAllRead
  <2> QED BY <2>1, <2>2, <2>3 DEF InboxNext
<1> QED BY <1>2, <1>3, <1>4 DEF RegistryInv

LEMMA LedgerKeeps ==
  ASSUME RegistryInv, LedgerNext \/ UNCHANGED registryVars
  PROVE  RegistryInv'
<1>1. UNCHANGED <<directory, vault, inbox, shell>>
  BY DEF LedgerNext, VariableRequest, ExpenseRequest, LedgerRequest, registryVars
<1>2. Files' /\ MailInv' /\ Wires' /\ Shell'
  BY <1>1, FilesStay, MailStays, WiresStay DEF RegistryInv, Shell, shell, vault
<1>3. Keys'
  BY <1>1, KeysStay DEF RegistryInv, vault, shell, Keys, Served
<1> QED BY <1>2, <1>3 DEF RegistryInv

THEOREM RegistryStepInv == RegistryInv /\ [RegistryNext]_registryVars => RegistryInv'
BY ShellKeeps, FilesKept, WiresKept, KeysKept, MailKept, LedgerKeeps DEF RegistryNext

-----------------------------------------------------------------------------
(* The properties.                                                         *)

LEMMA TypeFromInv ==
  ASSUME RegistryInv
  PROVE  RegistryTypeOK
<1>1. \A p \in Projects : projects[p] \in ProjectRow
  BY DEF RegistryInv, Files, FileTypes
<1>2. \A k \in Conns : conns[k] \in ConnRow
  BY DEF RegistryInv, Wires
<1>3. \A p \in Projects, n \in Names : secrets[<<p, n>>] \in SecretRow(session)
  BY DEF RegistryInv, Keys
<1> QED BY <1>1, <1>2, <1>3
        DEF RegistryInv, Files, FileTypes, MailInv, Shell, ProjectRow, ConnRow, SecretRow, RegistryTypeOK

LEMMA OneRow ==
  ASSUME RegistryInv
  PROVE  OneConnPerName
<1> SUFFICES ASSUME NEW p \in Projects, NEW n \in Names
             PROVE  Cardinality(Rows(p, n)) <= 1
  BY DEF OneConnPerName
<1>1. CASE Rows(p, n) = {}
  <2>1. Cardinality(Rows(p, n)) = 0
    BY <1>1, FS_EmptySet, Zenon
  <2> QED BY <2>1
<1>2. CASE Rows(p, n) # {}
  <2>1. PICK k \in Rows(p, n) : TRUE
    BY <1>2
  <2>2. conns[k] # NoConn
    BY <2>1, RegistryBounds DEF Rows, NoConn
  <2>3. Rows(p, n) = {k}
    BY <2>1, <2>2 DEF RegistryInv, Wires, Rows
  <2>4. Cardinality(Rows(p, n)) = 1
    BY <2>3, FS_Singleton, Zenon
  <2> QED BY <2>4
<1> QED BY <1>1, <1>2

LEMMA Told ==
  ASSUME RegistryInv
  PROVE  AgentsGetWhatWasTold
<1> SUFFICES ASSUME NEW p \in Projects, NEW n \in Names, told[<<p, n>>].key = session, session # 0,
                    <<p, n>> \notin misled
             PROVE  <<n, told[<<p, n>>].value>> \in RunEnv(p)
  BY DEF AgentsGetWhatWasTold
<1>1. secrets[<<p, n>>] = told[<<p, n>>]
  BY DEF RegistryInv, Keys
<1> QED BY <1>1 DEF RunEnv

THEOREM RegistryInductive == RegistrySpec => []RegistryInv
BY RegistryInitInv, RegistryStepInv, PTL DEF RegistrySpec

(* Every row holds what its table may hold, and no secret is sealed with a *)
(* key of a session to come.                                               *)
THEOREM RegistryTypeCorrect == RegistrySpec => []RegistryTypeOK
BY RegistryInductive, TypeFromInv, PTL

(* However many projects are created, thrown away and restored, a code     *)
(* names one.                                                              *)
THEOREM CodesAreUnique == RegistrySpec => []CodeNamesOneProject
<1>1. RegistryInv => CodeNamesOneProject
  BY DEF RegistryInv, Files
<1> QED BY RegistryInductive, <1>1, PTL

(* A live project is listed under its client, but for the ones restored    *)
(* while the client was in the trash.                                      *)
THEOREM NothingElseIsHidden == RegistrySpec => []ListedUnlessExiled
<1>1. RegistryInv => ListedUnlessExiled
  BY DEF RegistryInv, Files
<1> QED BY RegistryInductive, <1>1, PTL

(* Created, revived, renamed or installed: a project has one row of a name.*)
THEOREM ConnsAreUnique == RegistrySpec => []OneConnPerName
BY RegistryInductive, OneRow, PTL

(* A run finds the value the operator was told is stored.                  *)
THEOREM ToldIsStored == RegistrySpec => []AgentsGetWhatWasTold
BY RegistryInductive, Told, PTL

(* No notice is read that neither the panel nor a sweep took.              *)
THEOREM NoticesAreSeen == RegistrySpec => []ReadAfterListed
<1>1. RegistryInv => ReadAfterListed
  BY DEF RegistryInv, MailInv
<1> QED BY RegistryInductive, <1>1, PTL

(* The directory is what its panels and the agents take it to be.          *)
THEOREM DirectoryIsSound == RegistrySpec => []DirectorySound
<1>1. CodeNamesOneProject /\ ListedUnlessExiled /\ OneConnPerName /\ ReadAfterListed => DirectorySound
  BY DEF DirectorySound
<1> QED BY <1>1, CodesAreUnique, NothingElseIsHidden, ConnsAreUnique, NoticesAreSeen, PTL

(***************************************************************************)
(* The emulators, the apps and the mirror.                                 *)
(***************************************************************************)

States == {"booting", "ready", "stopped"}
Underway == {"looking", "adopting", "listing", "polling", "asking", "unlocking"}
EntryRow == {NoEntry} \cup [state : States, avd : Avds, alive : BOOLEAN]
BootRow == {NoBoot} \cup [at : Underway \cup {"done", "failed"}, avd : Avds]

MachineRows ==
    /\ vm \in [Avds -> {"off", "starting", "up"}]
    /\ managed \in [Avds -> Boots \cup {"none"}]
    /\ entry \in [Boots -> EntryRow]
    /\ boot \in [Boots -> BootRow]
    /\ killing \in {NoKill} \cup [avd : Avds, entry : Boots \cup {"none"}]
    /\ emuPanel \in [busy : Boots \cup {"no", "kill"}, seen : [Avds -> States \cup {"none"}]]

(* A request has an entry once it has stopped searching, and the map holds *)
(* an entry under the machine it was made for.                             *)
Entries ==
    /\ \A a \in Avds : managed[a] # "none" => entry[managed[a]].avd = a
    /\ \A b \in Boots : boot[b].at \in {"idle", "looking", "adopting", "listing"} => entry[b] = NoEntry
    /\ \A b \in Boots : boot[b].at \in {"polling", "asking", "unlocking"} => entry[b] # NoEntry
    /\ killing # NoKill /\ killing.entry # "none" => entry[killing.entry] # NoEntry

(* The panel is busy with a request that has not come back.                *)
PanelWaits ==
    /\ emuPanel.busy \in Boots => boot[emuPanel.busy].at \in Underway
    /\ emuPanel.busy = "kill" => killing # NoKill

(* Undisturbed, one boot searches at a time, and while nothing is active.  *)
Quiet ==
    ~raced /\ ~revived =>
        /\ \A a, c \in Active : a = c
        /\ \A b, c \in Boots : Searching(b) /\ Searching(c) => b = c
        /\ \A b \in Boots : Searching(b) => Active = {}

Machines == MachineRows /\ Entries /\ PanelWaits /\ Quiet

Running ==
    /\ launches \in [Serials -> Apps \cup {"none"}]
    /\ app \in [Apps -> {"none", "running", "told", "orphan", "gone"}]
    /\ \A s, t \in Serials : launches[s] # "none" /\ launches[t] # "none" => s = t
    /\ \A x \in Apps : app[x] = "running" => \E s \in Serials : launches[s] = x

(* A session exists only behind an upgraded socket, and one whose socket   *)
(* has closed is over, unless it was being opened then.                    *)
Sessions ==
    /\ ws \in [Sockets -> {"none", "connecting", "open", "closing", "aborted", "closed"}]
    /\ scrcpy \in [Sockets -> {"none", "opening", "open", "closed"}]
    /\ \A k \in Sockets : ws[k] \in {"none", "connecting", "aborted"} => scrcpy[k] = "none"
    /\ \A k \in Sockets : ws[k] = "closed" /\ scrcpy[k] \in {"opening", "open"} => k \in orphans

Overlaid ==
    /\ mirror \in [socket : Sockets \cup {"none"}, mine : SUBSET Sockets,
                   overlay : {"connecting", "streaming", "error", "closed"}]
    /\ mirror.socket # "none" => mirror.socket \in mirror.mine
    /\ late \in BOOLEAN
    /\ OverlayHonest

DeviceInv == Machines /\ Running /\ Sessions /\ Overlaid

THEOREM DeviceInitInv == DeviceInit => DeviceInv
<1> SUFFICES ASSUME DeviceInit PROVE DeviceInv
  OBVIOUS
<1>1. MachineRows /\ Entries
  BY DeviceBounds DEF DeviceInit, MachineRows, Entries, EntryRow, BootRow, NoBoot
<1>2. PanelWaits
  BY DeviceBounds DEF DeviceInit, PanelWaits
<1>3. Quiet
  BY DEF DeviceInit, Quiet, Active, StateOf, Searching, NoBoot
<1>4. Running /\ Sessions /\ Overlaid
  BY DEF DeviceInit, Running, Sessions, Overlaid, OverlayHonest
<1> QED BY <1>1, <1>2, <1>3, <1>4 DEF DeviceInv, Machines

(* Whoever leaves a group of variables alone keeps its part.               *)
LEMMA MachinesStay ==
  ASSUME Machines, UNCHANGED emulators
  PROVE  Machines'
BY DEF Machines, MachineRows, Entries, PanelWaits, Quiet, Active, StateOf, Searching, emulators

LEMMA RunningStays ==
  ASSUME Running, UNCHANGED apps
  PROVE  Running'
BY DEF Running, apps

LEMMA StreamsStay ==
  ASSUME Sessions, Overlaid, UNCHANGED streams
  PROVE  Sessions' /\ Overlaid'
BY DEF Sessions, Overlaid, OverlayHonest, streams

-----------------------------------------------------------------------------
(* A boot moves on.                                                        *)

LEMMA Moved ==
  ASSUME MachineRows, NEW b \in Boots, NEW at \in Underway \cup {"done", "failed"},
         boot[b].at \in Underway, To(b, at)
  PROVE  /\ boot' \in [Boots -> BootRow]
         /\ boot'[b].at = at /\ boot'[b].avd = boot[b].avd /\ boot[b].avd \in Avds
         /\ \A c \in Boots : c # b => boot'[c] = boot[c]
<1>1. boot[b] \in [at : Underway \cup {"done", "failed"}, avd : Avds]
  BY DEF MachineRows, BootRow, NoBoot, Underway
<1>2. boot'[b] \in BootRow /\ boot'[b].at = at /\ boot'[b].avd = boot[b].avd
  BY <1>1 DEF To, MachineRows, BootRow
<1> QED BY <1>1, <1>2 DEF To, MachineRows

(* The answer of a request frees the panel that waits for it.              *)
LEMMA Freed ==
  ASSUME MachineRows, PanelWaits, NEW b \in Boots, NEW at \in {"done", "failed"},
         boot[b].at \in Underway, Finish(b, at), UNCHANGED killing
  PROVE  /\ emuPanel' \in [busy : Boots \cup {"no", "kill"}, seen : [Avds -> States \cup {"none"}]]
         /\ PanelWaits'
<1>1. /\ boot' \in [Boots -> BootRow] /\ \A c \in Boots : c # b => boot'[c] = boot[c]
  BY Moved DEF Finish
<1>2. CASE emuPanel.busy = b
  <2>1. emuPanel' = [emuPanel EXCEPT !.busy = "no"]
    BY <1>2 DEF Finish
  <2>2. emuPanel'.busy = "no" /\ emuPanel' \in [busy : Boots \cup {"no", "kill"}, seen : [Avds -> States \cup {"none"}]]
    BY <2>1 DEF MachineRows
  <2> QED BY <2>2, DeviceBounds DEF PanelWaits
<1>3. CASE emuPanel.busy # b
  BY <1>1, <1>3 DEF Finish, MachineRows, PanelWaits
<1> QED BY <1>2, <1>3

LEMMA StaysQuiet ==
  ASSUME Quiet, raced => raced', revived => revived', Active' \subseteq Active,
         \A b \in Boots : Searching(b)' => Searching(b)
  PROVE  Quiet'
BY DEF Quiet

(* The steps that make no entry and change none.                           *)
LEMMA EntriesAlone ==
  ASSUME Machines, UNCHANGED <<managed, entry, raced, revived>>,
         vm' \in [Avds -> {"off", "starting", "up"}],
         NEW b \in Boots, NEW at \in Underway \cup {"done", "failed"}, boot[b].at \in Underway, To(b, at),
         at \in {"adopting", "listing"} => boot[b].at \in {"looking", "adopting", "listing"},
         at \in {"polling", "asking", "unlocking"} => boot[b].at \in {"polling", "asking", "unlocking"},
         at # "looking", UNCHANGED killing, Finish(b, at) \/ (emuPanel' = emuPanel /\ at \in Underway)
  PROVE  Machines'
<1>1. /\ boot' \in [Boots -> BootRow] /\ boot'[b].at = at /\ \A c \in Boots : c # b => boot'[c] = boot[c]
  BY Moved DEF Machines
<1>2. /\ emuPanel' \in [busy : Boots \cup {"no", "kill"}, seen : [Avds -> States \cup {"none"}]]
      /\ PanelWaits'
  <2>1. CASE Finish(b, at) /\ at \in {"done", "failed"}
    BY <2>1, Freed DEF Machines
  <2>2. CASE emuPanel' = emuPanel /\ at \in Underway
    BY <2>2, <1>1 DEF Machines, MachineRows, PanelWaits
  <2>3. CASE Finish(b, at) /\ at \in Underway
    <3>1. emuPanel' \in [busy : Boots \cup {"no", "kill"}, seen : [Avds -> States \cup {"none"}]]
          /\ emuPanel'.busy \in {"no", emuPanel.busy}
      BY <2>3 DEF Finish, Machines, MachineRows
    <3> QED BY <2>3, <3>1, <1>1, DeviceBounds DEF Machines, PanelWaits
  <2> QED BY <2>1, <2>2, <2>3
<1>3. MachineRows'
  BY <1>1, <1>2 DEF Machines, MachineRows
<1>4. Entries'
  BY <1>1 DEF Machines, Entries, Underway
<1>5. Active' = Active
  BY DEF Active, StateOf
<1>6. \A c \in Boots : Searching(c)' => Searching(c)
  BY <1>1 DEF Searching
<1> QED BY <1>2, <1>3, <1>4, <1>5, <1>6, StaysQuiet DEF Machines

LEMMA BootBegins ==
  ASSUME Machines, NEW b \in Boots, NEW a \in Avds, Boot(b, a)
  PROVE  Machines'
<1> DEFINE new == [at |-> IF Active # {} THEN "done" ELSE "looking", avd |-> a]
<1>1. /\ boot' = [boot EXCEPT ![b] = new] /\ boot[b].at = "idle"
      /\ UNCHANGED <<vm, managed, entry, killing, revived>>
  BY DEF Boot
<1>2. new \in BootRow /\ new.at \in {"done", "looking"} /\ (new.at = "looking" => Active = {})
  BY DEF BootRow, Underway
<1>3. CASE Active # {}
  <2>1. new.at = "done" /\ UNCHANGED <<emuPanel, raced>>
    BY <1>3 DEF Boot
  <2> HIDE DEF new
  <2>2. boot' \in [Boots -> BootRow] /\ boot'[b].at = "done" /\ \A c \in Boots : c # b => boot'[c] = boot[c]
    BY <1>1, <1>2, <2>1 DEF Machines, MachineRows
  <2>3. MachineRows' /\ Entries' /\ PanelWaits'
    BY <1>1, <2>1, <2>2 DEF Machines, MachineRows, Entries, PanelWaits, Underway
  <2>4. Quiet'
    BY <1>1, <2>1, <2>2, StaysQuiet DEF Machines, Active, StateOf, Searching
  <2> QED BY <2>3, <2>4 DEF Machines
<1>4. CASE Active = {}
  <2>1. /\ new.at = "looking" /\ emuPanel' = [emuPanel EXCEPT !.busy = b] /\ emuPanel.busy = "no"
        /\ raced' = (raced \/ \E c \in Boots : Searching(c))
    BY <1>4 DEF Boot
  <2> HIDE DEF new
  <2>2. boot' \in [Boots -> BootRow] /\ boot'[b].at = "looking" /\ \A c \in Boots : c # b => boot'[c] = boot[c]
    BY <1>1, <1>2, <2>1 DEF Machines, MachineRows
  <2>3. emuPanel' \in [busy : Boots \cup {"no", "kill"}, seen : [Avds -> States \cup {"none"}]] /\ emuPanel'.busy = b
    BY <2>1 DEF Machines, MachineRows
  <2>4. MachineRows' /\ Entries' /\ PanelWaits'
    BY <1>1, <2>2, <2>3, DeviceBounds DEF Machines, MachineRows, Entries, PanelWaits, Underway
  <2>5. Active' = {}
    BY <1>1, <1>4 DEF Active, StateOf
  <2>6. \A c \in Boots : c # b => (Searching(c)' <=> Searching(c))
    BY <2>2 DEF Searching
  <2>7. Quiet'
    BY <1>1, <2>1, <2>5, <2>6 DEF Machines, Quiet
  <2> QED BY <2>4, <2>7 DEF Machines
<1> QED BY <1>3, <1>4

(* Adopt and Spawn: the first entry of the request, under its machine.     *)
LEMMA EntryMade ==
  ASSUME Machines, NEW b \in Boots, Adopt(b) \/ Spawn(b)
  PROVE  Machines'
<1>1. PICK row \in [state : {"ready", "booting"}, avd : {boot[b].avd}, alive : BOOLEAN],
           at \in {"done", "polling"} :
        /\ Register(b, row) /\ boot[b].at \in {"adopting", "listing"}
        /\ (Finish(b, at) /\ at = "done") \/ (To(b, at) /\ emuPanel' = emuPanel /\ at = "polling")
        /\ UNCHANGED <<killing, raced, revived>>
        /\ vm' \in [Avds -> {"off", "starting", "up"}]
  <2>1. CASE Adopt(b)
    <3>1. [state |-> "ready", avd |-> boot[b].avd, alive |-> FALSE]
            \in [state : {"ready", "booting"}, avd : {boot[b].avd}, alive : BOOLEAN]
      OBVIOUS
    <3> QED BY <2>1, <3>1 DEF Adopt, Machines, MachineRows
  <2>2. CASE Spawn(b)
    <3>1. [state |-> "booting", avd |-> boot[b].avd, alive |-> TRUE]
            \in [state : {"ready", "booting"}, avd : {boot[b].avd}, alive : BOOLEAN]
      OBVIOUS
    <3> QED BY <2>2, <3>1 DEF Spawn, Machines, MachineRows
  <2> QED BY <2>1, <2>2
<1>2. /\ boot' \in [Boots -> BootRow] /\ boot'[b].at = at /\ boot[b].avd \in Avds
      /\ \A c \in Boots : c # b => boot'[c] = boot[c]
  BY <1>1, Moved DEF Machines, Finish, Underway
<1>3. /\ emuPanel' \in [busy : Boots \cup {"no", "kill"}, seen : [Avds -> States \cup {"none"}]]
      /\ PanelWaits'
  <2>1. CASE Finish(b, at) /\ at = "done"
    BY <1>1, <2>1, Freed DEF Machines, Underway
  <2>2. CASE emuPanel' = emuPanel /\ at = "polling"
    BY <1>1, <1>2, <2>2 DEF Machines, MachineRows, PanelWaits, Underway
  <2> QED BY <1>1, <2>1, <2>2
<1>4. row \in EntryRow /\ row.avd = boot[b].avd /\ row # NoEntry /\ row.state # "stopped"
  BY <1>2, DeviceBounds DEF EntryRow, States, NoEntry
<1>5. /\ entry' \in [Boots -> EntryRow] /\ entry'[b] = row /\ \A c \in Boots : c # b => entry'[c] = entry[c]
      /\ managed' \in [Avds -> Boots \cup {"none"}] /\ managed'[boot[b].avd] = b
      /\ \A a \in Avds : a # boot[b].avd => managed'[a] = managed[a]
  BY <1>1, <1>2, <1>4 DEF Register, Machines, MachineRows
<1>6. MachineRows'
  BY <1>1, <1>2, <1>3, <1>5 DEF Machines, MachineRows
<1>7. \A a \in Avds : managed[a] # "none" => managed[a] \in Boots /\ managed[a] # b
  BY <1>1, DeviceBounds DEF Machines, MachineRows, Entries, NoEntry
<1>8. Entries'
  BY <1>1, <1>2, <1>4, <1>5, <1>7, DeviceBounds DEF Machines, MachineRows, Entries
<1>9. Quiet'
  <2> SUFFICES ASSUME ~raced, ~revived PROVE Quiet'
    BY <1>1 DEF Quiet
  <2>1. Active = {} /\ \A c \in Boots : c # b => ~Searching(c)
    BY <1>1 DEF Machines, Quiet, Searching
  <2>2. \A c \in Boots : ~Searching(c)'
    BY <1>1, <1>2, <2>1 DEF Searching
  <2>3. \A a \in Avds : a # boot[b].avd => StateOf(a)' = StateOf(a)
    BY <1>5, <1>7 DEF StateOf
  <2>4. \A a \in Avds : a # boot[b].avd => StateOf(a) \notin {"booting", "ready"}
    BY <2>1 DEF Active
  <2>5. Active' \subseteq {boot[b].avd}
    BY <2>3, <2>4 DEF Active
  <2> QED BY <2>2, <2>5 DEF Quiet
<1> QED BY <1>3, <1>6, <1>8, <1>9 DEF Machines

(* The steps that set the state of one entry, and what they owe for it.    *)
LEMMA EntryChanged ==
  ASSUME Machines, NEW b \in Boots, NEW row \in [state : States, avd : Avds, alive : BOOLEAN],
         entry[b] # NoEntry, entry' = [entry EXCEPT ![b] = row], row.avd = entry[b].avd,
         UNCHANGED managed,
         \/ row.state \in {"stopped", entry[b].state}
         \/ row.state = "ready" /\ (entry[b].state = "stopped" => revived')
  PROVE  /\ entry' \in [Boots -> EntryRow] /\ entry'[b] # NoEntry
         /\ \A c \in Boots : entry'[c].avd = entry[c].avd
         /\ \A c \in Boots : c # b => entry'[c] = entry[c]
         /\ ~revived' => Active' \subseteq Active
<1>1. entry[b] \in [state : States, avd : Avds, alive : BOOLEAN]
  BY DEF Machines, MachineRows, EntryRow
<1>2. row \in EntryRow /\ row # NoEntry
  BY DEF EntryRow, NoEntry, States
<1>3. entry' \in [Boots -> EntryRow] /\ entry'[b] = row /\ \A c \in Boots : c # b => entry'[c] = entry[c]
  BY <1>2 DEF Machines, MachineRows
<1>4. ASSUME ~revived' PROVE Active' \subseteq Active
  <2>1. row.state \in {"stopped", entry[b].state} \/ entry[b].state \in {"booting", "ready"}
    BY <1>1, <1>4 DEF States
  <2>2. \A a \in Avds : StateOf(a)' \in {"booting", "ready"} => StateOf(a) \in {"booting", "ready"}
    BY <1>3, <2>1 DEF StateOf, Machines, MachineRows
  <2> QED BY <2>2 DEF Active
<1> QED BY <1>2, <1>3, <1>4

LEMMA LauncherGone ==
  ASSUME Machines, NEW b \in Boots, LauncherExits(b)
  PROVE  Machines'
<1> DEFINE st == IF managed[entry[b].avd] = b /\ entry[b].state # "ready" THEN "stopped" ELSE entry[b].state
           row == [entry[b] EXCEPT !.alive = FALSE, !.state = st]
<1>1. /\ UNCHANGED <<managed, boot, killing, emuPanel, raced, revived>>
      /\ entry[b] # NoEntry /\ entry[b] \in [state : States, avd : Avds, alive : BOOLEAN]
  BY DEF LauncherExits, NoEntry, Machines, MachineRows, EntryRow
<1>2. /\ row \in [state : States, avd : Avds, alive : BOOLEAN]
      /\ row.avd = entry[b].avd /\ row.state \in {"stopped", entry[b].state}
  BY <1>1 DEF States
<1>3. entry' = [entry EXCEPT ![b] = row]
  BY <1>1 DEF LauncherExits, Machines, MachineRows
<1>4. vm' \in [Avds -> {"off", "starting", "up"}]
  BY <1>1 DEF LauncherExits, Machines, MachineRows
<1> HIDE DEF st, row
<1>5. /\ entry' \in [Boots -> EntryRow] /\ entry'[b] # NoEntry
      /\ \A c \in Boots : entry'[c].avd = entry[c].avd
      /\ \A c \in Boots : c # b => entry'[c] = entry[c]
      /\ ~revived' => Active' \subseteq Active
  BY <1>1, <1>2, <1>3, EntryChanged
<1>6. MachineRows' /\ Entries' /\ PanelWaits'
  BY <1>1, <1>4, <1>5 DEF Machines, MachineRows, Entries, PanelWaits
<1>7. Quiet'
  BY <1>1, <1>5, StaysQuiet DEF Machines, Searching, Quiet
<1> QED BY <1>6, <1>7 DEF Machines

LEMMA DeclaredReady ==
  ASSUME Machines, NEW b \in Boots, Ready(b)
  PROVE  Machines'
<1> DEFINE row == [entry[b] EXCEPT !.state = "ready"]
<1>1. /\ UNCHANGED <<vm, managed, killing, raced>> /\ boot[b].at = "unlocking" /\ Finish(b, "done")
      /\ revived' = (revived \/ entry[b].state = "stopped")
      /\ entry[b] # NoEntry /\ entry[b] \in [state : States, avd : Avds, alive : BOOLEAN]
  BY DEF Ready, Machines, Entries, MachineRows, EntryRow
<1>2. /\ row \in [state : States, avd : Avds, alive : BOOLEAN]
      /\ row.avd = entry[b].avd /\ row.state = "ready"
  BY <1>1 DEF States
<1>3. entry' = [entry EXCEPT ![b] = row]
  BY <1>1 DEF Ready, Machines, MachineRows
<1> HIDE DEF row
<1>4. /\ entry' \in [Boots -> EntryRow] /\ entry'[b] # NoEntry
      /\ \A c \in Boots : entry'[c].avd = entry[c].avd
      /\ \A c \in Boots : c # b => entry'[c] = entry[c]
      /\ ~revived' => Active' \subseteq Active
  BY <1>1, <1>2, <1>3, EntryChanged
<1>5. /\ boot' \in [Boots -> BootRow] /\ boot'[b].at = "done" /\ \A c \in Boots : c # b => boot'[c] = boot[c]
  BY <1>1, Moved DEF Finish, Machines, Underway
<1>6. /\ emuPanel' \in [busy : Boots \cup {"no", "kill"}, seen : [Avds -> States \cup {"none"}]]
      /\ PanelWaits'
  BY <1>1, Freed DEF Machines, Underway
<1>7. MachineRows' /\ Entries'
  <2>1. MachineRows'
    BY <1>1, <1>4, <1>5, <1>6 DEF Machines, MachineRows
  <2>2. \A a \in Avds : managed'[a] # "none" => entry'[managed'[a]].avd = a
    BY <1>1, <1>4 DEF Machines, MachineRows, Entries
  <2>3. \A c \in Boots : boot'[c].at \in {"idle", "looking", "adopting", "listing"} => entry'[c] = NoEntry
    BY <1>1, <1>4, <1>5 DEF Machines, Entries
  <2>4. \A c \in Boots : boot'[c].at \in {"polling", "asking", "unlocking"} => entry'[c] # NoEntry
    BY <1>1, <1>4, <1>5 DEF Machines, Entries
  <2>5. killing' # NoKill /\ killing'.entry # "none" => entry'[killing'.entry] # NoEntry
    BY <1>1, <1>4 DEF Machines, MachineRows, Entries
  <2> QED BY <2>1, <2>2, <2>3, <2>4, <2>5 DEF Entries
<1>8. \A c \in Boots : Searching(c)' => Searching(c)
  BY <1>5 DEF Searching
<1>9. Quiet'
  BY <1>1, <1>4, <1>8, StaysQuiet DEF Machines, Quiet
<1> QED BY <1>6, <1>7, <1>9 DEF Machines

LEMMA KillBegins ==
  ASSUME Machines, NEW a \in Avds, Kill(a)
  PROVE  Machines'
<1>1. /\ killing' = [avd |-> a, entry |-> managed[a]] /\ emuPanel' = [emuPanel EXCEPT !.busy = "kill"]
      /\ UNCHANGED <<vm, managed, entry, boot, raced, revived>>
  BY DEF Kill
<1>2. /\ killing' \in [avd : Avds, entry : Boots \cup {"none"}] /\ killing' # NoKill
      /\ killing'.entry = managed[a]
  BY <1>1, DeviceBounds DEF Machines, MachineRows, NoKill
<1>3. emuPanel' \in [busy : Boots \cup {"no", "kill"}, seen : [Avds -> States \cup {"none"}]] /\ emuPanel'.busy = "kill"
  BY <1>1 DEF Machines, MachineRows
<1>4. MachineRows'
  BY <1>1, <1>2, <1>3 DEF Machines, MachineRows
<1>5. Entries'
  BY <1>1, <1>2, DeviceBounds DEF Machines, Entries, NoEntry
<1>6. PanelWaits'
  BY <1>2, <1>3, DeviceBounds DEF PanelWaits
<1>7. Quiet'
  BY <1>1, StaysQuiet DEF Machines, Active, StateOf, Searching
<1> QED BY <1>4, <1>5, <1>6, <1>7 DEF Machines

LEMMA KillEnds ==
  ASSUME Machines, Killed
  PROVE  Machines'
<1>1. /\ killing # NoKill /\ killing' = NoKill /\ UNCHANGED <<managed, boot, raced, revived>>
      /\ killing \in [avd : Avds, entry : Boots \cup {"none"}]
  BY DEF Killed, Machines, MachineRows
<1>2. vm' \in [Avds -> {"off", "starting", "up"}]
  BY <1>1 DEF Killed, Machines, MachineRows
<1>3. /\ emuPanel' \in [busy : Boots \cup {"no", "kill"}, seen : [Avds -> States \cup {"none"}]]
      /\ emuPanel'.busy \in {"no", emuPanel.busy} /\ emuPanel'.busy # "kill"
  BY DEF Killed, Machines, MachineRows
<1>4. ASSUME NEW b \in Boots
      PROVE  /\ entry'[b] \in EntryRow /\ entry'[b].avd = entry[b].avd
             /\ entry[b] = NoEntry <=> entry'[b] = NoEntry
             /\ entry'[b].state \in {"stopped", entry[b].state}
  <2>1. CASE b # killing.entry
    <3>1. entry'[b] = entry[b]
      BY <2>1 DEF Killed
    <3> QED BY <3>1 DEF Machines, MachineRows
  <2>2. CASE b = killing.entry
    <3>1. entry[b] # NoEntry /\ entry[b] \in [state : States, avd : Avds, alive : BOOLEAN]
      BY <1>1, <2>2, DeviceBounds DEF Machines, Entries, MachineRows, EntryRow
    <3>2. PICK al \in BOOLEAN : entry'[b] = [entry[b] EXCEPT !.state = "stopped", !.alive = al]
      BY <2>2, <3>1 DEF Killed
    <3>3. /\ entry'[b] \in [state : States, avd : Avds, alive : BOOLEAN]
          /\ entry'[b].state = "stopped" /\ entry'[b].avd = entry[b].avd
      BY <3>1, <3>2 DEF States
    <3>4. entry'[b] # NoEntry
      BY <3>3 DEF NoEntry
    <3> QED BY <3>1, <3>3, <3>4 DEF EntryRow
  <2> QED BY <2>1, <2>2
<1>5. entry' \in [Boots -> EntryRow]
  BY <1>4 DEF Killed
<1>6. MachineRows' /\ Entries'
  BY <1>1, <1>2, <1>3, <1>4, <1>5 DEF Machines, MachineRows, Entries
<1>7. PanelWaits'
  BY <1>1, <1>3, DeviceBounds DEF Machines, PanelWaits
<1>8. \A a \in Avds : StateOf(a)' \in {"booting", "ready"} => StateOf(a) \in {"booting", "ready"}
  BY <1>1, <1>4 DEF StateOf, Machines, MachineRows
<1>9. Quiet'
  BY <1>1, <1>8, StaysQuiet DEF Machines, Active, Searching
<1> QED BY <1>6, <1>7, <1>9 DEF Machines

(* PollPanel, Reopen, MachineMoves: the panel's view, and the machines.    *)
LEMMA Beside ==
  ASSUME Machines, PollPanel \/ Reopen \/ (\E a \in Avds : MachineMoves(a))
  PROVE  Machines'
<1>1. UNCHANGED <<managed, entry, boot, killing, raced, revived>>
  BY DEF PollPanel, Reopen, MachineMoves
<1>2. vm' \in [Avds -> {"off", "starting", "up"}]
  BY DEF PollPanel, Reopen, MachineMoves, Machines, MachineRows
<1>3. \A a \in Avds : StateOf(a) \in States \cup {"none"}
  <2> SUFFICES ASSUME NEW a \in Avds, managed[a] # "none" PROVE entry[managed[a]].state \in States \cup {"none"}
    BY DEF StateOf
  <2>1. entry[managed[a]] \in EntryRow
    BY DEF Machines, MachineRows
  <2> QED BY <2>1 DEF EntryRow, NoEntry
<1>4. /\ emuPanel' \in [busy : Boots \cup {"no", "kill"}, seen : [Avds -> States \cup {"none"}]]
      /\ emuPanel'.busy \in {"no", emuPanel.busy}
  <2>1. CASE PollPanel
    BY <2>1, <1>3 DEF PollPanel, Machines, MachineRows
  <2>2. CASE Reopen
    BY <2>2 DEF Reopen, Machines, MachineRows
  <2>3. CASE \E a \in Avds : MachineMoves(a)
    BY <2>3 DEF MachineMoves, Machines, MachineRows
  <2> QED BY <2>1, <2>2, <2>3
<1>5. MachineRows' /\ Entries' /\ PanelWaits'
  BY <1>1, <1>2, <1>4, DeviceBounds DEF Machines, MachineRows, Entries, PanelWaits
<1>6. Quiet'
  BY <1>1, StaysQuiet DEF Machines, Active, StateOf, Searching
<1> QED BY <1>5, <1>6 DEF Machines

LEMMA MachinesKept ==
  ASSUME DeviceInv, EmulatorNext
  PROVE  DeviceInv'
<1>1. UNCHANGED <<apps, streams>>
  BY DEF EmulatorNext, Boot, Looked, Adopt, BootRefused, Spawn, LauncherExits, PollBoot, Answered, Ready,
         BootTimesOut, Kill, MachineMoves, Killed, PollPanel, Reopen, Emu
<1>2. Machines
  BY DEF DeviceInv
<1>3. ASSUME NEW b \in Boots, \/ Looked(b) \/ BootRefused(b) \/ PollBoot(b) \/ Answered(b) \/ BootTimesOut(b)
      PROVE  Machines'
  <2>1. PICK at \in Underway \cup {"failed"} :
          /\ To(b, at) /\ boot[b].at \in Underway /\ at # "looking"
          /\ at \in {"adopting", "listing"} => boot[b].at \in {"looking", "adopting", "listing"}
          /\ at \in {"polling", "asking", "unlocking"} => boot[b].at \in {"polling", "asking", "unlocking"}
          /\ Finish(b, at) \/ (emuPanel' = emuPanel /\ at \in Underway)
          /\ UNCHANGED <<vm, managed, entry, killing, raced, revived>>
    BY <1>3 DEF Looked, BootRefused, PollBoot, Answered, BootTimesOut, Finish, Underway
  <2>2. vm' \in [Avds -> {"off", "starting", "up"}]
    BY <1>2, <2>1 DEF Machines, MachineRows
  <2> QED BY <1>2, <2>1, <2>2, EntriesAlone
<1>4. ASSUME NEW b \in Boots, \/ (\E a \in Avds : Boot(b, a)) \/ Adopt(b) \/ Spawn(b) \/ LauncherExits(b) \/ Ready(b)
      PROVE  Machines'
  BY <1>2, <1>4, BootBegins, EntryMade, LauncherGone, DeclaredReady
<1>5. ASSUME \/ (\E a \in Avds : Kill(a) \/ MachineMoves(a)) \/ Killed \/ PollPanel \/ Reopen
      PROVE  Machines'
  BY <1>2, <1>5, KillBegins, KillEnds, Beside
<1>6. Machines'
  BY <1>3, <1>4, <1>5 DEF EmulatorNext
<1> QED BY <1>1, <1>6, RunningStays, StreamsStay DEF DeviceInv

-----------------------------------------------------------------------------
(* Apps.                                                                   *)

LEMMA AppsKept ==
  ASSUME DeviceInv, AppNext
  PROVE  DeviceInv'
<1> SUFFICES ASSUME Running PROVE Running'
  BY MachinesStay, StreamsStay
     DEF DeviceInv, AppNext, AppExits, LaunchApp, StopTaskApp, App
<1>1. ASSUME NEW x \in Apps, AppExits(x) PROVE Running'
  BY <1>1 DEF AppExits, Running
<1>2. ASSUME NEW x \in Apps, NEW s \in Serials, LaunchApp(x, s) PROVE Running'
  <2>1. StopAll \in [Apps -> {"none", "told", "orphan", "gone"}]
    BY DEF StopAll, Running
  <2>2. CASE /\ app' = [StopAll EXCEPT ![x] = "running"]
             /\ launches' = [t \in Serials |-> IF t = s THEN x ELSE "none"]
    BY <2>1, <2>2 DEF Running
  <2>3. CASE app' = StopAll /\ launches' = [t \in Serials |-> "none"]
    BY <2>1, <2>3 DEF Running
  <2> QED BY <1>2, <2>2, <2>3 DEF LaunchApp
<1>3. ASSUME NEW s \in Serials, StopTaskApp(s) PROVE Running'
  BY <1>3 DEF StopTaskApp, Running
<1> QED BY <1>1, <1>2, <1>3 DEF AppNext

-----------------------------------------------------------------------------
(* The mirror.                                                             *)

NothingElseOpens(k) == \A j \in Sockets : j # k => (ws'[j] = "open" => ws[j] = "open")

LEMMA OverlaySet ==
  ASSUME Overlaid, NEW k \in Sockets, NEW text \in {"streaming", "error", "closed"}, Overlay(text, k),
         NothingElseOpens(k), ws'[k] = "open" => text = "streaming"
  PROVE  Overlaid'
<1>1. CASE mirror' = [mirror EXCEPT !.overlay = text] /\ late' = (k # mirror.socket) /\ k \in mirror.mine
  <2>1. /\ mirror' \in [socket : Sockets \cup {"none"}, mine : SUBSET Sockets,
                        overlay : {"connecting", "streaming", "error", "closed"}]
        /\ mirror'.socket = mirror.socket /\ mirror'.mine = mirror.mine /\ mirror'.overlay = text
    BY <1>1 DEF Overlaid
  <2> QED BY <1>1, <2>1 DEF Overlaid, OverlayHonest, NothingElseOpens
<1>2. CASE k \notin mirror.mine /\ UNCHANGED <<mirror, late>>
  BY <1>2 DEF Overlaid, OverlayHonest, NothingElseOpens
<1>3. CASE text = "closed" /\ mirror.overlay = "error" /\ UNCHANGED <<mirror, late>>
  BY <1>3 DEF Overlaid, OverlayHonest, NothingElseOpens
<1> QED BY <1>1, <1>2, <1>3 DEF Overlay

LEMMA SocketSteps ==
  ASSUME Sessions, Overlaid, NEW k \in Sockets,
         Upgraded(k) \/ ConnectFails(k) \/ SessionOpens(k) \/ SessionFails(k) \/ Closed(k)
           \/ PumpVideo(k) \/ HandleControl(k)
  PROVE  Sessions' /\ Overlaid'
<1>1. CASE Upgraded(k) \/ ConnectFails(k) \/ Closed(k)
  <2>1. Sessions'
    BY <1>1 DEF Sessions, Upgraded, ConnectFails, Closed
  <2>2. PICK text \in {"streaming", "error", "closed"} :
          /\ Overlay(text, k)
          /\ ws'[k] = "open" => text = "streaming"
          /\ NothingElseOpens(k)
    BY <1>1 DEF Sessions, Upgraded, ConnectFails, Closed, NothingElseOpens
  <2>3. Overlaid'
    BY <2>2, OverlaySet, Zenon
  <2> QED BY <2>1, <2>3
<1>2. CASE SessionOpens(k)
  BY <1>2 DEF SessionOpens, Sessions, Overlaid, OverlayHonest
<1>3. CASE SessionFails(k) \/ PumpVideo(k) \/ HandleControl(k)
  <2>1. ws' = Shut(k) /\ UNCHANGED <<mirror, late, orphans>>
        /\ (scrcpy' = scrcpy \/ scrcpy' = [scrcpy EXCEPT ![k] = "closed"])
        /\ scrcpy[k] # "none"
    BY <1>3 DEF SessionFails, PumpVideo, HandleControl
  <2>2. /\ ws' \in [Sockets -> {"none", "connecting", "open", "closing", "aborted", "closed"}]
        /\ \A j \in Sockets : ws'[j] = ws[j] \/ (j = k /\ ws[j] = "open" /\ ws'[j] = "closing")
    BY <2>1 DEF Shut, Sessions
  <2>3. Sessions'
    BY <2>1, <2>2 DEF Sessions
  <2>4. Overlaid'
    BY <2>1, <2>2 DEF Overlaid, OverlayHonest
  <2> QED BY <2>3, <2>4
<1> QED BY <1>1, <1>2, <1>3

LEMMA PageSteps ==
  ASSUME Sessions, Overlaid, Leave \/ (\E k \in Sockets : Connect(k))
  PROVE  Sessions' /\ Overlaid'
<1>1. ASSUME NEW j \in Sockets \cup {"none"}
      PROVE  /\ Shut(j) \in [Sockets -> {"none", "connecting", "open", "closing", "aborted", "closed"}]
             /\ \A l \in Sockets : \/ Shut(j)[l] = ws[l]
                                   \/ ws[l] = "open" /\ Shut(j)[l] = "closing"
                                   \/ ws[l] = "connecting" /\ Shut(j)[l] = "aborted"
  <2>1. ASSUME NEW l \in Sockets
        PROVE  \/ Shut(j)[l] = ws[l]
               \/ ws[l] = "open" /\ Shut(j)[l] = "closing"
               \/ ws[l] = "connecting" /\ Shut(j)[l] = "aborted"
    <3>1. CASE l = j /\ ws[l] = "open"
      BY <3>1 DEF Shut
    <3>2. CASE l = j /\ ws[l] = "connecting"
      BY <3>2 DEF Shut
    <3>3. CASE l # j \/ ws[l] \notin {"connecting", "open"}
      BY <3>3 DEF Shut
    <3> QED BY <3>1, <3>2, <3>3
  <2>2. Shut(j) = [l \in Sockets |-> IF l = j /\ ws[l] \in {"connecting", "open"}
                                    THEN IF ws[l] = "open" THEN "closing" ELSE "aborted" ELSE ws[l]]
    BY DEF Shut
  <2>3. Shut(j) \in [Sockets -> {"none", "connecting", "open", "closing", "aborted", "closed"}]
    BY <2>2 DEF Sessions
  <2> QED BY <2>1, <2>3
<1>2. mirror.socket \in Sockets \cup {"none"}
  BY DEF Overlaid
<1>3. CASE Leave
  <2>1. ws' = Shut(mirror.socket) /\ UNCHANGED <<scrcpy, orphans, late>>
        /\ mirror' = [socket |-> "none", mine |-> {}, overlay |-> "connecting"]
    BY <1>3 DEF Leave
  <2>2. Sessions'
    BY <1>1, <1>2, <2>1 DEF Sessions
  <2>3. Overlaid'
    BY <2>1 DEF Overlaid, OverlayHonest
  <2> QED BY <2>2, <2>3
<1>4. ASSUME NEW k \in Sockets, Connect(k)
      PROVE  Sessions' /\ Overlaid'
  <2>1. ws' = [Shut(mirror.socket) EXCEPT ![k] = "connecting"] /\ ws[k] = "none"
        /\ UNCHANGED <<scrcpy, orphans, late>>
    BY <1>4 DEF Connect
  <2>2. Sessions' /\ ws'[k] = "connecting"
    BY <1>1, <1>2, <2>1 DEF Sessions
  <2>3. /\ mirror' \in [socket : Sockets \cup {"none"}, mine : SUBSET Sockets,
                        overlay : {"connecting", "streaming", "error", "closed"}]
        /\ mirror'.socket = k /\ k \in mirror'.mine
    <3>1. CASE mirror' = [socket |-> k, mine |-> mirror.mine \cup {k}, overlay |-> "connecting"]
      BY <3>1 DEF Overlaid
    <3>2. CASE mirror' = [mirror EXCEPT !.socket = k, !.mine = @ \cup {k}]
      BY <3>2 DEF Overlaid
    <3> QED BY <1>4, <3>1, <3>2 DEF Connect
  <2>4. Overlaid'
    BY <2>1, <2>2, <2>3 DEF Overlaid, OverlayHonest
  <2> QED BY <2>2, <2>4
<1> QED BY <1>3, <1>4

LEMMA StreamsKept ==
  ASSUME DeviceInv, MirrorNext
  PROVE  DeviceInv'
<1>1. UNCHANGED <<emulators, apps>>
  BY DEF MirrorNext, Connect, Upgraded, ConnectFails, SessionOpens, SessionFails, Closed, PumpVideo,
         HandleControl, Leave, Mirror
<1>2. Sessions' /\ Overlaid'
  BY SocketSteps, PageSteps DEF DeviceInv, MirrorNext
<1> QED BY <1>1, <1>2, MachinesStay, RunningStays DEF DeviceInv

-----------------------------------------------------------------------------
(* The restart, and the theorems.                                          *)

LEMMA RestartKeeps ==
  ASSUME DeviceInv, Restart
  PROVE  DeviceInv'
<1>1. Machines'
  <2>1. /\ managed' = [a \in Avds |-> "none"] /\ entry' = [b \in Boots |-> NoEntry] /\ killing' = NoKill
        /\ emuPanel' = [emuPanel EXCEPT !.busy = "no"] /\ UNCHANGED <<vm, raced, revived>>
    BY DEF Restart
  <2>2. \A b \in Boots : boot'[b] \in BootRow /\ boot'[b].at \in {"idle", "failed"}
    <3> SUFFICES ASSUME NEW b \in Boots PROVE boot'[b] \in BootRow /\ boot'[b].at \in {"idle", "failed"}
      OBVIOUS
    <3>1. boot[b] \in BootRow
      BY DEF DeviceInv, Machines, MachineRows
    <3>2. CASE boot[b].at = "idle"
      BY <3>2 DEF Restart, BootRow, NoBoot
    <3>3. CASE boot[b].at # "idle"
      BY <3>1, <3>3 DEF Restart, BootRow, NoBoot
    <3> QED BY <3>2, <3>3
  <2>3. boot' \in [Boots -> BootRow]
    BY <2>2 DEF Restart
  <2>4. /\ emuPanel' \in [busy : Boots \cup {"no", "kill"}, seen : [Avds -> States \cup {"none"}]]
        /\ emuPanel'.busy = "no"
    BY <2>1 DEF DeviceInv, Machines, MachineRows
  <2>5. MachineRows' /\ Entries' /\ PanelWaits'
    BY <2>1, <2>2, <2>3, <2>4, DeviceBounds DEF DeviceInv, Machines, MachineRows, Entries, PanelWaits, EntryRow
  <2>6. Quiet'
    BY <2>1, <2>2 DEF Quiet, Active, StateOf, Searching
  <2> QED BY <2>5, <2>6 DEF Machines
<1>2. Running'
  BY DEF Restart, DeviceInv, Running
<1>3. Sessions'
  <2>1. \A k \in Sockets : /\ ws'[k] \in {"none", "closing", "aborted", "closed"}
                           /\ ws'[k] \in {"none", "aborted"} => ws[k] \in {"none", "connecting", "aborted"}
                           /\ scrcpy'[k] \in {"none", "closed"} /\ (scrcpy[k] = "none" => scrcpy'[k] = "none")
    BY DEF Restart, DeviceInv, Sessions
  <2>2. ws' \in [Sockets -> {"none", "connecting", "open", "closing", "aborted", "closed"}]
        /\ scrcpy' \in [Sockets -> {"none", "opening", "open", "closed"}]
    BY <2>1 DEF Restart
  <2> QED BY <2>1, <2>2 DEF DeviceInv, Sessions
<1>4. Overlaid'
  <2>1. \A k \in Sockets : ws'[k] # "open"
    BY DEF Restart, DeviceInv, Sessions
  <2> QED BY <2>1 DEF Restart, DeviceInv, Overlaid, OverlayHonest
<1> QED BY <1>1, <1>2, <1>3, <1>4 DEF DeviceInv

THEOREM DeviceStepInv == DeviceInv /\ [DeviceNext]_deviceVars => DeviceInv'
<1>1. DeviceInv /\ UNCHANGED deviceVars => DeviceInv'
  BY MachinesStay, RunningStays, StreamsStay DEF DeviceInv, deviceVars
<1> QED BY <1>1, MachinesKept, AppsKept, StreamsKept, RestartKeeps DEF DeviceNext

THEOREM DeviceInductive == DeviceSpec => []DeviceInv
BY DeviceInitInv, DeviceStepInv, PTL DEF DeviceSpec

(* Every map, process and socket is in one of its states, and the panel is *)
(* busy only with what has not come back.                                  *)
THEOREM DeviceTypeCorrect == DeviceSpec => []DeviceTypeOK
<1>1. ASSUME DeviceInv PROVE DeviceTypeOK
  <2>1. \A b \in Boots : entry[b] \in EntryRow /\ boot[b] \in BootRow
    BY <1>1 DEF DeviceInv, Machines, MachineRows
  <2>2. \A b \in Boots : /\ entry[b].state \in {"none", "booting", "ready", "stopped"}
                         /\ boot[b].at \in {"idle", "looking", "adopting", "listing", "polling",
                                            "asking", "unlocking", "done", "failed"}
    BY <2>1 DEF EntryRow, BootRow, NoEntry, NoBoot, States, Underway
  <2>3. emuPanel.busy \in Boots => boot[emuPanel.busy].at \notin {"idle", "done", "failed"}
    BY <1>1 DEF DeviceInv, Machines, PanelWaits, Underway
  <2> QED BY <1>1, <2>2, <2>3
          DEF DeviceInv, Machines, MachineRows, PanelWaits, Running, Sessions, Overlaid, DeviceTypeOK
<1> QED BY <1>1, DeviceInductive, PTL

LEMMA AtMostOne ==
  ASSUME NEW S, \A x, y \in S : x = y
  PROVE  Cardinality(S) <= 1
<1>1. CASE S = {}
  <2>1. Cardinality(S) = 0
    BY <1>1, FS_EmptySet, Zenon
  <2> QED BY <2>1
<1>2. CASE S # {}
  <2>1. PICK x \in S : TRUE
    BY <1>2
  <2>2. S = {x}
    BY <2>1
  <2>3. Cardinality(S) = 1
    BY <2>2, FS_Singleton, Zenon
  <2> QED BY <2>3
<1> QED BY <1>1, <1>2

(* One machine at a time is booting or ready, however many requests and    *)
(* machines there are, but for the two races.                              *)
THEOREM OneMachineShared == DeviceSpec => []OneMachine
<1>1. ASSUME DeviceInv PROVE OneMachine
  <2>1. ~raced /\ ~revived => \A a, c \in Active : a = c
    BY <1>1 DEF DeviceInv, Machines, Quiet
  <2>2. ~raced /\ ~revived => Cardinality(Active) <= 1
    BY <2>1, AtMostOne
  <2> QED BY <2>2 DEF OneMachine
<1> QED BY <1>1, DeviceInductive, PTL

(* One app is in the map, and every app that runs on is.                   *)
THEOREM OneAppRuns == DeviceSpec => []OneApp
<1>1. ASSUME DeviceInv PROVE OneApp
  <2>1. \A s, t \in {u \in Serials : launches[u] # "none"} : s = t
    BY <1>1 DEF DeviceInv, Running
  <2>2. Cardinality({u \in Serials : launches[u] # "none"}) <= 1
    BY <2>1, AtMostOne
  <2> QED BY <1>1, <2>2 DEF OneApp, DeviceInv, Running
<1> QED BY <1>1, DeviceInductive, PTL

(* A closed socket leaves no session open that it knew.                    *)
THEOREM SessionsAreClosed == DeviceSpec => []SessionsEnd
<1>1. DeviceInv => SessionsEnd
  BY DEF DeviceInv, Sessions, SessionsEnd
<1> QED BY <1>1, DeviceInductive, PTL

(* The overlay is right wherever no replaced socket spoke last.            *)
THEOREM OverlayIsHonest == DeviceSpec => []OverlayHonest
<1>1. DeviceInv => OverlayHonest
  BY DEF DeviceInv, Overlaid
<1> QED BY <1>1, DeviceInductive, PTL

(* One machine, with one app on it, for any number of machines, devices,   *)
(* boots, launches and restarts.                                           *)
THEOREM OnePreviewShared == DeviceSpec => []OnePreview
<1>1. OneMachine /\ OneApp => OnePreview
  BY DEF OnePreview
<1> QED BY <1>1, OneMachineShared, OneAppRuns, PTL

(* Both ends of the mirror follow the socket.                              *)
THEOREM MirrorIsHonest == DeviceSpec => []MirrorHonest
<1>1. SessionsEnd /\ OverlayHonest => MirrorHonest
  BY DEF MirrorHonest
<1> QED BY <1>1, SessionsAreClosed, OverlayIsHonest, PTL

(***************************************************************************)
(* The design of a project.                                                *)
(***************************************************************************)

FrameRow == [story : Stories \cup {"pool"},
             status : {"none", "imported", "generated", "approved", "deleted"},
             from : 0 .. MaxJobs, baseline : BOOLEAN, scored : BOOLEAN, live : BOOLEAN]
JobRow == [kind : {"designer", "assigner"}, status : {"open", "succeeded", "failed", "cancelled"},
           again : BOOLEAN, brought : BOOLEAN, cut : BOOLEAN]
Counts == {0} \cup {Cardinality(S) : S \in SUBSET Nodes}
Panels == [seen : [Nodes -> {"absent", "open", "approved"}], follows : 0 .. MaxJobs,
           before : Counts, success : 0 .. MaxJobs]

DesignTyped ==
    /\ frame \in [Nodes -> FrameRow]
    /\ job \in Seq(JobRow) /\ Len(job) <= MaxJobs
    /\ gauge \in Nodes \cup {"none"}
    /\ board \in Panels /\ board.follows <= Len(job) /\ board.success <= Len(job)
    /\ placed \in [Nodes -> Stories \cup {"none"}]
    /\ approvedAs \in [Nodes -> 0 .. MaxJobs]

(* A node that has no row has no story either; only rows are on the board. *)
EmptyRows ==
    \A n \in Nodes : frame[n].status = "none" => frame[n].story = "pool" /\ ~frame[n].live

(* The frame that is being measured has a row, and as long as it is not    *)
(* deleted it has its baseline.                                            *)
Gauged ==
    gauge # "none" => /\ frame[gauge].status # "none"
                      /\ frame[gauge].live => frame[gauge].baseline

Frames == AssignmentKept /\ ApprovalCoversContent /\ MeasuredHasBaseline /\ EmptyRows /\ Gauged

(* The run the panel shows as a success is over.                           *)
Shown == board.success # 0 => job[board.success].status \notin {"open", "failed"}

Runs == SucceededHasFrames /\ Shown /\ RetriedOnce

DesignInv == DesignTyped /\ Frames /\ Runs

-----------------------------------------------------------------------------
(* The hook of a designer run, frame by frame.                             *)

Fresh == [frames |-> frame, threw |-> FALSE, brought |-> FALSE]

LEMMA PersistedFolds ==
  ASSUME NEW r, NEW status, NEW output \in Seq(Pictures), NEW V, Fresh \in V,
         \A v \in V, x \in Pictures : Persist(r, status, frame, v, x) \in V
  PROVE  /\ Persisted(r, status, output) \in V
         /\ output # <<>> =>
                \E v \in V, x \in Pictures :
                    Persisted(r, status, output) = Persist(r, status, frame, v, x)
<1> DEFINE n == Len(output)
           S == 1 .. n
           Adds(i, v) == Persist(r, status, frame, v, output[i])
           step == [q \in S \X V |-> Adds(q[1], q[2])]
           Solves(g) == g = [s \in SUBSET S |->
                               IF s = {} THEN Fresh ELSE Adds(Max(s), g[s \ {Max(s)}])]
           iter == CHOOSE g : Solves(g)
<1>1. n \in Nat /\ DOMAIN output = S /\ \A i \in S : output[i] \in Pictures
  BY LenProperties, ElementOfSeq
<1>2. Persisted(r, status, output) = iter[S]
  BY <1>1 DEF Persisted, FoldLeft, MapThenFoldSet, Fresh
<1>3. ASSUME NEW i \in S, NEW v \in V
      PROVE  step[<<i, v>>] = Adds(i, v) /\ Adds(i, v) \in V
  <2>1. output[i] \in Pictures
    BY <1>1
  <2>2. Adds(i, v) \in V
    BY <2>1
  <2> HIDE DEF S, Adds
  <2>3. <<i, v>> \in S \X V /\ <<i, v>>[1] = i /\ <<i, v>>[2] = v
    OBVIOUS
  <2> QED BY <2>2, <2>3
<1> HIDE DEF Adds, step
<1>4. PICK g \in [SUBSET S -> V] : Along(g, n, Fresh, step)
  <2>1. \A i \in S, v \in V : step[<<i, v>>] \in V
    BY <1>3
  <2> HIDE DEF n
  <2> QED BY <1>1, <2>1, FoldSolved
<1>5. ASSUME NEW s \in SUBSET S, s # {}
      PROVE  /\ Max(s) \in S /\ g[s \ {Max(s)}] \in V
             /\ g[s] = Adds(Max(s), g[s \ {Max(s)}])
  <2>1. Max(s) \in s
    BY <1>1, <1>5, TopmostChooses DEF Topmost, Chooses
  <2>2. Max(s) \in S /\ g[s \ {Max(s)}] \in V
    <3> HIDE DEF S
    <3> QED BY <2>1
  <2>3. g[s] = step[<<Max(s), g[s \ {Max(s)}]>>]
    BY <1>4, <1>5 DEF Along, S
  <2> QED BY <1>3, <2>2, <2>3
<1> HIDE DEF S
<1>6. Solves(g)
  <2> DEFINE b == [s \in SUBSET S |->
                     IF s = {} THEN Fresh ELSE Adds(Max(s), g[s \ {Max(s)}])]
  <2>1. \A s \in SUBSET S : b[s] = g[s]
    BY <1>4, <1>5 DEF Along
  <2>2. b = [s \in SUBSET S |-> b[s]] /\ g = [s \in SUBSET S |-> g[s]]
    OBVIOUS
  <2> HIDE DEF b
  <2>3. g = b
    BY <2>1, <2>2
  <2> QED BY <2>3 DEF b
<1>7. Solves(iter)
  <2> HIDE DEF Solves
  <2> QED BY <1>6
<1>8. \A s \in SUBSET S : iter[s] = IF s = {} THEN Fresh ELSE Adds(Max(s), iter[s \ {Max(s)}])
  <2> HIDE DEF iter
  <2> QED BY <1>7
<1> HIDE DEF iter, Solves
<1>9. Persisted(r, status, output) = g[S] /\ g[S] \in V /\ S \in SUBSET S
  <2>1. S \in SUBSET S /\ {} \in SUBSET S
    OBVIOUS
  <2>2. iter[{}] = g[{}]
    BY <1>4, <1>8, <2>1 DEF Along
  <2>3. \A s \in SUBSET S :
            s # {} /\ iter[s \ {Max(s)}] = g[s \ {Max(s)}] => iter[s] = g[s]
    BY <1>5, <1>8
  <2>4. \A s \in SUBSET S : iter[s] = g[s]
    <3>1. Alike(iter, g, n)
      BY <2>2, <2>3 DEF Alike, S
    <3>2. n \in Nat
      BY <1>1
    <3> HIDE DEF n
    <3>3. \A s \in SUBSET (1 .. n) : iter[s] = g[s]
      BY <3>1, <3>2, FoldSame
    <3> QED BY <3>3 DEF S
  <2> QED BY <1>2, <2>1, <2>4
<1>10. ASSUME output # <<>>
       PROVE  \E v \in V, x \in Pictures :
                  Persisted(r, status, output) = Persist(r, status, frame, v, x)
  <2>1. S # {}
    <3>1. n \in Nat \ {0}
      BY <1>1, <1>10, EmptySeq
    <3>2. 1 \in S
      BY <3>1 DEF S
    <3> QED BY <3>2
  <2>2. /\ Max(S) \in S /\ g[S \ {Max(S)}] \in V /\ output[Max(S)] \in Pictures
        /\ g[S] = Adds(Max(S), g[S \ {Max(S)}])
    BY <1>1, <1>5, <1>9, <2>1
  <2> QED BY <1>9, <2>2 DEF Adds
<1> QED BY <1>9, <1>10

(* The hook of an assigner run, assignment by assignment.                  *)

Unassigned == [frames |-> frame, threw |-> FALSE]

LEMMA AssignedFolds ==
  ASSUME NEW output \in Seq(Assignments), NEW V, Unassigned \in V,
         \A v \in V, x \in Assignments : Assign(v, x) \in V
  PROVE  Assigned(output) \in V
<1> DEFINE n == Len(output)
           S == 1 .. n
           Adds(i, v) == Assign(v, output[i])
           step == [q \in S \X V |-> Adds(q[1], q[2])]
           Solves(g) == g = [s \in SUBSET S |->
                               IF s = {} THEN Unassigned ELSE Adds(Max(s), g[s \ {Max(s)}])]
           iter == CHOOSE g : Solves(g)
<1>1. n \in Nat /\ DOMAIN output = S /\ \A i \in S : output[i] \in Assignments
  BY LenProperties, ElementOfSeq
<1>2. Assigned(output) = iter[S]
  BY <1>1 DEF Assigned, FoldLeft, MapThenFoldSet, Unassigned
<1>3. ASSUME NEW i \in S, NEW v \in V
      PROVE  step[<<i, v>>] = Adds(i, v) /\ Adds(i, v) \in V
  <2>1. output[i] \in Assignments
    BY <1>1
  <2>2. Adds(i, v) \in V
    BY <2>1
  <2> HIDE DEF S, Adds
  <2>3. <<i, v>> \in S \X V /\ <<i, v>>[1] = i /\ <<i, v>>[2] = v
    OBVIOUS
  <2> QED BY <2>2, <2>3
<1> HIDE DEF Adds, step
<1>4. PICK g \in [SUBSET S -> V] : Along(g, n, Unassigned, step)
  <2>1. \A i \in S, v \in V : step[<<i, v>>] \in V
    BY <1>3
  <2> HIDE DEF n
  <2> QED BY <1>1, <2>1, FoldSolved
<1>5. ASSUME NEW s \in SUBSET S, s # {}
      PROVE  /\ Max(s) \in S /\ g[s \ {Max(s)}] \in V
             /\ g[s] = Adds(Max(s), g[s \ {Max(s)}])
  <2>1. Max(s) \in s
    BY <1>1, <1>5, TopmostChooses DEF Topmost, Chooses
  <2>2. Max(s) \in S /\ g[s \ {Max(s)}] \in V
    <3> HIDE DEF S
    <3> QED BY <2>1
  <2>3. g[s] = step[<<Max(s), g[s \ {Max(s)}]>>]
    BY <1>4, <1>5 DEF Along, S
  <2> QED BY <1>3, <2>2, <2>3
<1> HIDE DEF S
<1>6. Solves(g)
  <2> DEFINE b == [s \in SUBSET S |->
                     IF s = {} THEN Unassigned ELSE Adds(Max(s), g[s \ {Max(s)}])]
  <2>1. \A s \in SUBSET S : b[s] = g[s]
    BY <1>4, <1>5 DEF Along
  <2>2. b = [s \in SUBSET S |-> b[s]] /\ g = [s \in SUBSET S |-> g[s]]
    OBVIOUS
  <2> HIDE DEF b
  <2>3. g = b
    BY <2>1, <2>2
  <2> QED BY <2>3 DEF b
<1>7. Solves(iter)
  <2> HIDE DEF Solves
  <2> QED BY <1>6
<1>8. \A s \in SUBSET S : iter[s] = IF s = {} THEN Unassigned ELSE Adds(Max(s), iter[s \ {Max(s)}])
  <2> HIDE DEF iter
  <2> QED BY <1>7
<1> HIDE DEF iter, Solves
<1>9. Assigned(output) = g[S] /\ g[S] \in V /\ S \in SUBSET S
  <2>1. S \in SUBSET S /\ {} \in SUBSET S
    OBVIOUS
  <2>2. iter[{}] = g[{}]
    BY <1>4, <1>8, <2>1 DEF Along
  <2>3. \A s \in SUBSET S :
            s # {} /\ iter[s \ {Max(s)}] = g[s \ {Max(s)}] => iter[s] = g[s]
    BY <1>5, <1>8
  <2>4. \A s \in SUBSET S : iter[s] = g[s]
    <3>1. Alike(iter, g, n)
      BY <2>2, <2>3 DEF Alike, S
    <3>2. n \in Nat
      BY <1>1
    <3> HIDE DEF n
    <3>3. \A s \in SUBSET (1 .. n) : iter[s] = g[s]
      BY <3>1, <3>2, FoldSame
    <3> QED BY <3>3 DEF S
  <2> QED BY <1>2, <2>1, <2>4
<1> QED BY <1>9

-----------------------------------------------------------------------------
(* What the hooks may make of a frame.                                     *)

(* A frame that comes back loses its approval and keeps the rest; a frame  *)
(* that comes for the first time is in the pool.                           *)
Brought(was, is) ==
    \/ is = was
    \/ /\ was.live /\ is.live
       /\ is.story = was.story /\ is.scored = was.scored
       /\ is.status \in {"imported", "generated"}
       /\ was.baseline => is.baseline
    \/ /\ was.status = "none" /\ is.live
       /\ is.story = "pool" /\ ~is.scored
       /\ is.status \in {"imported", "generated"}

(* A story is given to a frame of the pool only.                           *)
Given(was, is) ==
    \/ is = was
    \/ /\ was.live /\ was.story = "pool"
       /\ \E s \in Stories : is = [was EXCEPT !.story = s]

Saves == [frames : [Nodes -> FrameRow], threw : BOOLEAN, brought : BOOLEAN]
Moves == [frames : [Nodes -> FrameRow], threw : BOOLEAN]

LEMMA OutputsAreSequences ==
  ASSUME NEW S, NEW output \in {<<>>} \cup {<<x>> : x \in S} \cup {<<x, y>> : x, y \in S}
  PROVE  output \in Seq(S)
<1>1. CASE output = <<>>
  BY <1>1, EmptySeq
<1>2. CASE \E x \in S : output = <<x>>
  BY <1>2
<1>3. CASE \E x, y \in S : output = <<x, y>>
  BY <1>3
<1> QED BY <1>1, <1>2, <1>3

LEMMA PersistBrings ==
  ASSUME DesignTyped, EmptyRows, NEW r \in 0 .. MaxJobs, NEW status \in {"imported", "generated"},
         NEW v \in Saves, \A n \in Nodes : Brought(frame[n], v.frames[n]),
         NEW x \in Pictures
  PROVE  LET w == Persist(r, status, frame, v, x) IN
             /\ w \in Saves /\ \A n \in Nodes : Brought(frame[n], w.frames[n])
             /\ w.threw \/ w.brought
<1> DEFINE w == Persist(r, status, frame, v, x)
           m == x.node
<1>1. m \in Nodes /\ x.shot \in BOOLEAN
  BY DEF Pictures
<1>2. /\ v = [frames |-> v.frames, threw |-> v.threw, brought |-> v.brought]
      /\ v.frames \in [Nodes -> FrameRow] /\ v.threw \in BOOLEAN /\ v.brought \in BOOLEAN
  BY DEF Saves
<1>3. frame[m] \in FrameRow /\ v.frames[m] \in FrameRow
  BY <1>1, <1>2 DEF DesignTyped
<1>4. CASE v.threw
  BY <1>2, <1>4 DEF Persist
<1>5. CASE ~v.threw /\ frame[m].live
  <2>0. PICK shot \in BOOLEAN : shot = (x.shot \/ frame[m].baseline)
    OBVIOUS
  <2> DEFINE row == [v.frames[m] EXCEPT !.status = status, !.from = r, !.baseline = shot]
  <2>1. /\ row.story = v.frames[m].story /\ row.status = status /\ row.baseline = shot
        /\ row.scored = v.frames[m].scored /\ row.live = v.frames[m].live
    BY <1>3 DEF FrameRow
  <2>2. row \in FrameRow
    BY <1>3 DEF FrameRow
  <2>3. w = [frames |-> [v.frames EXCEPT ![m] = row], threw |-> FALSE, brought |-> TRUE]
    BY <1>2, <1>3, <1>5, <2>0 DEF Persist, FrameRow
  <2>4. Brought(frame[m], row)
    <3>1. frame[m].status # "none"
      BY <1>1, <1>5 DEF EmptyRows
    <3>2. Brought(frame[m], v.frames[m])
      BY <1>1
    <3>3. /\ v.frames[m].live /\ v.frames[m].story = frame[m].story
          /\ v.frames[m].scored = frame[m].scored
      BY <1>5, <3>1, <3>2 DEF Brought
    <3>4. frame[m].baseline => row.baseline
      BY <2>0, <2>1
    <3> QED BY <1>5, <2>1, <3>3, <3>4 DEF Brought
  <2> HIDE DEF row, w, m
  <2>5. w \in Saves /\ w.brought
    BY <1>1, <1>2, <2>2, <2>3 DEF Saves
  <2>6. \A n \in Nodes : w.frames[n] = IF n = m THEN row ELSE v.frames[n]
    BY <1>1, <1>2, <2>3
  <2> QED BY <2>4, <2>5, <2>6 DEF w
<1>6. CASE ~v.threw /\ ~frame[m].live /\ v.frames[m].status = "none"
  <2> DEFINE row == [NoFrame EXCEPT !.status = status, !.from = r, !.baseline = x.shot,
                                    !.live = TRUE]
  <2>1. /\ row \in FrameRow /\ row.story = "pool" /\ row.status = status
        /\ ~row.scored /\ row.live
    <3>1. NoFrame \in FrameRow /\ NoFrame.story = "pool" /\ NoFrame.scored = FALSE
      BY DesignBounds DEF NoFrame, FrameRow
    <3>2. x.shot \in BOOLEAN
      BY <1>1
    <3> HIDE DEF NoFrame
    <3> QED BY <3>1, <3>2 DEF FrameRow
  <2>2. row \in FrameRow
    BY <2>1
  <2>3. w = [frames |-> [v.frames EXCEPT ![m] = row], threw |-> FALSE, brought |-> TRUE]
    BY <1>2, <1>3, <1>6 DEF Persist, FrameRow
  <2>4. Brought(frame[m], row)
    <3>1. Brought(frame[m], v.frames[m])
      BY <1>1
    <3>2. frame[m].status = "none"
      BY <1>6, <3>1 DEF Brought
    <3> QED BY <2>1, <3>2 DEF Brought
  <2> HIDE DEF row, w, m
  <2>5. w \in Saves /\ w.brought
    BY <1>1, <1>2, <2>2, <2>3 DEF Saves
  <2>6. \A n \in Nodes : w.frames[n] = IF n = m THEN row ELSE v.frames[n]
    BY <1>1, <1>2, <2>3
  <2> QED BY <2>4, <2>5, <2>6 DEF w
<1>7. CASE ~v.threw /\ ~frame[m].live /\ v.frames[m].status # "none"
  <2>1. w = [frames |-> v.frames, threw |-> TRUE, brought |-> v.brought]
    BY <1>2, <1>7 DEF Persist
  <2> QED BY <1>2, <2>1 DEF Saves
<1> QED BY <1>2, <1>3, <1>4, <1>5, <1>6, <1>7 DEF FrameRow

(* However far a hook comes, each frame is brought or left as it was; one  *)
(* that goes through brought at least one.                                 *)
LEMMA PersistedShape ==
  ASSUME DesignTyped, EmptyRows, NEW r \in 0 .. MaxJobs, NEW status \in {"imported", "generated"},
         NEW output \in Outputs
  PROVE  LET done == Persisted(r, status, output) IN
             /\ done \in Saves /\ \A n \in Nodes : Brought(frame[n], done.frames[n])
             /\ output # <<>> => done.threw \/ done.brought
<1> DEFINE V == {v \in Saves : \A n \in Nodes : Brought(frame[n], v.frames[n])}
<1>1. output \in Seq(Pictures)
  BY OutputsAreSequences DEF Outputs
<1>2. Fresh \in V
  BY DEF Fresh, Saves, Brought, DesignTyped
<1>3. \A v \in V, x \in Pictures :
          LET w == Persist(r, status, frame, v, x) IN w \in V /\ (w.threw \/ w.brought)
  BY PersistBrings
<1>4. Persisted(r, status, output) \in V
  <2> HIDE DEF V
  <2> QED BY <1>1, <1>2, <1>3, PersistedFolds
<1>5. output # <<>> => LET done == Persisted(r, status, output) IN done.threw \/ done.brought
  <2> HIDE DEF V
  <2> QED BY <1>1, <1>2, <1>3, PersistedFolds
<1> QED BY <1>4, <1>5

LEMMA AssignGives ==
  ASSUME DesignTyped,
         NEW v \in Moves, \A n \in Nodes : Given(frame[n], v.frames[n]), NEW x \in Assignments
  PROVE  LET w == Assign(v, x) IN w \in Moves /\ \A n \in Nodes : Given(frame[n], w.frames[n])
<1> DEFINE w == Assign(v, x)
           m == x.node
<1>1. m \in Nodes /\ x.story \in Stories \cup {"unknown"}
  BY DEF Assignments
<1>2. /\ v = [frames |-> v.frames, threw |-> v.threw]
      /\ v.frames \in [Nodes -> FrameRow] /\ v.threw \in BOOLEAN
  BY DEF Moves
<1>3. frame[m] \in FrameRow /\ v.frames[m] \in FrameRow
  BY <1>1, <1>2 DEF DesignTyped
<1>4. CASE v.threw \/ ~v.frames[m].live \/ v.frames[m].story # "pool"
  BY <1>4 DEF Assign
<1>5. CASE ~v.threw /\ v.frames[m].live /\ v.frames[m].story = "pool" /\ x.story = "unknown"
  <2>1. w = [frames |-> v.frames, threw |-> TRUE]
    BY <1>2, <1>3, <1>5 DEF Assign, FrameRow
  <2> QED BY <1>2, <2>1 DEF Moves
<1>6. CASE ~v.threw /\ v.frames[m].live /\ v.frames[m].story = "pool" /\ x.story # "unknown"
  <2> DEFINE row == [v.frames[m] EXCEPT !.story = x.story]
  <2>1. x.story \in Stories
    BY <1>1, <1>6
  <2>2. w = [frames |-> [v.frames EXCEPT ![m] = row], threw |-> v.threw]
    BY <1>2, <1>3, <1>6 DEF Assign, FrameRow
  <2>3. row \in FrameRow
    BY <1>3, <2>1 DEF FrameRow
  <2>4. v.frames[m] = frame[m]
    <3>1. Given(frame[m], v.frames[m])
      BY <1>1
    <3>2. ASSUME NEW s \in Stories, v.frames[m] = [frame[m] EXCEPT !.story = s]
          PROVE  FALSE
      <4>1. v.frames[m].story = s
        BY <1>3, <3>2 DEF FrameRow
      <4> QED BY <1>6, <4>1, DesignBounds
    <3> QED BY <3>1, <3>2 DEF Given
  <2>5. Given(frame[m], row)
    BY <1>6, <2>1, <2>4 DEF Given
  <2> HIDE DEF row, w, m
  <2>6. w \in Moves
    BY <1>1, <1>2, <2>2, <2>3 DEF Moves
  <2>7. \A n \in Nodes : w.frames[n] = IF n = m THEN row ELSE v.frames[n]
    BY <1>1, <1>2, <2>2
  <2> QED BY <2>5, <2>6, <2>7 DEF w
<1> QED BY <1>2, <1>3, <1>4, <1>5, <1>6 DEF FrameRow

LEMMA AssignedShape ==
  ASSUME DesignTyped, NEW output \in Seq(Assignments)
  PROVE  LET done == Assigned(output) IN
             done \in Moves /\ \A n \in Nodes : Given(frame[n], done.frames[n])
<1> DEFINE V == {v \in Moves : \A n \in Nodes : Given(frame[n], v.frames[n])}
<1>1. Unassigned \in V
  BY DEF Unassigned, Moves, Given, DesignTyped
<1>2. \A v \in V, x \in Assignments : Assign(v, x) \in V
  BY AssignGives
<1>3. Assigned(output) \in V
  <2> HIDE DEF V
  <2> QED BY <1>1, <1>2, AssignedFolds
<1> QED BY <1>3

(* What was decided about the frames stands when a designer run ends...    *)
LEMMA BroughtKeeps ==
  ASSUME DesignTyped, Frames, frame' \in [Nodes -> FrameRow],
         \A n \in Nodes : Brought(frame[n], frame'[n]),
         approvedAs' = StillApproved(frame'), placed' = placed, gauge' \in {gauge, "none"}
  PROVE  Frames'
<1>1. \A n \in Nodes : frame[n] \in FrameRow /\ frame'[n] \in FrameRow /\ "pool" \notin Stories
  BY DesignBounds DEF DesignTyped
<1>2. AssignmentKept'
  BY <1>1 DEF Frames, AssignmentKept, Brought, EmptyRows
<1>3. ApprovalCoversContent'
  BY <1>1 DEF Frames, ApprovalCoversContent, Brought, StillApproved
<1>4. MeasuredHasBaseline'
  BY <1>1 DEF Frames, MeasuredHasBaseline, Brought
<1>5. EmptyRows'
  BY <1>1 DEF Frames, EmptyRows, Brought
<1>6. Gauged'
  BY <1>1 DEF Frames, Gauged, Brought, DesignTyped, EmptyRows
<1> QED BY <1>2, <1>3, <1>4, <1>5, <1>6 DEF Frames

(* ... and when an assigner run does.                                      *)
LEMMA GivenKeeps ==
  ASSUME DesignTyped, Frames, frame' \in [Nodes -> FrameRow],
         \A n \in Nodes : Given(frame[n], frame'[n]),
         UNCHANGED <<approvedAs, placed, gauge>>
  PROVE  Frames'
<1>0. "pool" \notin Stories
  BY DesignBounds
<1>1. \A n \in Nodes :
          /\ frame[n] \in FrameRow /\ frame'[n] \in FrameRow
          /\ frame'[n].status = frame[n].status /\ frame'[n].from = frame[n].from
          /\ frame'[n].baseline = frame[n].baseline /\ frame'[n].scored = frame[n].scored
          /\ frame'[n].live = frame[n].live
          /\ \/ frame'[n].story = frame[n].story
             \/ frame[n].live /\ frame[n].story = "pool"
  BY DEF Given, DesignTyped, FrameRow
<1>2. AssignmentKept'
  BY <1>0, <1>1 DEF Frames, AssignmentKept
<1>3. ApprovalCoversContent' /\ MeasuredHasBaseline'
  BY <1>1 DEF Frames, ApprovalCoversContent, MeasuredHasBaseline
<1>4. EmptyRows'
  BY <1>1 DEF Frames, EmptyRows
<1>5. Gauged'
  BY <1>1 DEF Frames, Gauged, DesignTyped
<1> QED BY <1>2, <1>3, <1>4, <1>5 DEF Frames

-----------------------------------------------------------------------------
(* What becomes of the runs.                                               *)

Corrections(jobs, k) == {r \in 1 .. Len(jobs) : jobs[r].kind = k /\ jobs[r].again = TRUE}
Unread(jobs, k) ==
    {r \in 1 .. Len(jobs) : jobs[r].kind = k /\ ~jobs[r].again /\ jobs[r].status = "failed"}

LEMMA CorrectionsCounted ==
  RetriedOnce <=> \A k \in {"designer", "assigner"} :
                      Cardinality(Corrections(job, k)) <= Cardinality(Unread(job, k))
BY DEF RetriedOnce, Corrections, Unread

(* The runs e after the open run r has come to its end.                    *)
Ends(r, e) ==
    /\ e \in Seq(JobRow) /\ Len(e) = Len(job)
    /\ \A i \in 1 .. Len(job) : i # r => e[i] = job[i]
    /\ e[r].kind = job[r].kind /\ e[r].again = job[r].again /\ e[r].status # "open"
    /\ e[r].kind = "designer" /\ e[r].status = "succeeded" => e[r].brought \/ e[r].cut

LEMMA EndedEnds ==
  ASSUME DesignTyped, NEW r \in 1 .. Len(job), NEW status \in {"succeeded", "failed", "cancelled"},
         NEW brought \in BOOLEAN, job[r].kind = "designer" /\ status = "succeeded" => brought
  PROVE  Ends(r, Ended(r, status, brought)) /\ Ended(r, status, brought)[r].status = status
<1> DEFINE row == [job[r] EXCEPT !.status = status, !.brought = brought]
           e == [job EXCEPT ![r] = row]
<1>1. job \in Seq(JobRow) /\ job[r] \in JobRow
  BY ElementOfSeq DEF DesignTyped
<1>2. /\ row \in JobRow /\ row.kind = job[r].kind /\ row.again = job[r].again
      /\ row.status = status /\ row.brought = brought
  BY <1>1 DEF JobRow
<1>3. Ended(r, status, brought) = e
  <2>1. DOMAIN job = 1 .. Len(job)
    BY <1>1, LenProperties
  <2> QED BY <1>1, <2>1 DEF Ended, JobRow
<1> HIDE DEF row
<1>4. /\ e \in Seq(JobRow) /\ Len(e) = Len(job)
      /\ \A j \in 1 .. Len(job) : e[j] = IF j = r THEN row ELSE job[j]
  BY <1>1, <1>2, ExceptSeq
<1> HIDE DEF e
<1> QED BY <1>2, <1>3, <1>4 DEF Ends

LEMMA QueuedRow ==
  ASSUME NEW k \in {"designer", "assigner"}, NEW again \in BOOLEAN
  PROVE  Queued(k, again) \in JobRow /\ Queued(k, again).kind = k
         /\ Queued(k, again).again = again /\ Queued(k, again).status = "open"
BY DEF Queued, JobRow

(* The runs js after run r has come to its end and, maybe, another one was *)
(* queued: one that is no correction, or the correction of r.              *)
Continues(r, e, js) ==
    /\ js \in Seq(JobRow) /\ Len(js) <= MaxJobs
    /\ \A i \in 1 .. Len(job) : js[i] = e[i]
    /\ \/ Len(js) = Len(job)
       \/ /\ Len(js) = Len(job) + 1
          /\ js[Len(js)].status = "open"
          /\ js[Len(js)].again => /\ js[Len(js)].kind = job[r].kind
                                  /\ e[r].status = "failed" /\ ~job[r].again

LEMMA QueueContinues ==
  ASSUME DesignTyped, NEW r \in 1 .. Len(job), NEW e, Ends(r, e), Len(job) < MaxJobs,
         NEW k \in {"designer", "assigner"}, NEW again \in BOOLEAN,
         again => k = job[r].kind /\ e[r].status = "failed" /\ ~job[r].again
  PROVE  Continues(r, e, Append(e, Queued(k, again)))
<1> DEFINE n == Len(job)
           q == Queued(k, again)
           u == Append(e, q)
<1>1. n \in Nat /\ MaxJobs \in Nat /\ e \in Seq(JobRow) /\ Len(e) = n
  BY LenProperties, DesignBounds DEF DesignTyped, Ends
<1>2. q \in JobRow /\ q.kind = k /\ q.again = again /\ q.status = "open"
  BY QueuedRow
<1> HIDE DEF q
<1>3. /\ u \in Seq(JobRow) /\ Len(u) = n + 1 /\ u[n + 1] = q
      /\ \A i \in 1 .. n : u[i] = e[i]
  BY <1>1, <1>2, AppendProperties
<1> HIDE DEF u
<1>4. Len(u) <= MaxJobs /\ u[Len(u)] = q
  BY <1>1, <1>3
<1>5. q.again => q.kind = job[r].kind /\ e[r].status = "failed" /\ ~job[r].again
  BY <1>2
<1>6. Continues(r, e, u)
  <2> HIDE DEF n
  <2> QED BY <1>2, <1>3, <1>4, <1>5 DEF Continues, n
<1> QED BY <1>6 DEF u, q

LEMMA EndContinues ==
  ASSUME DesignTyped, NEW r \in 1 .. Len(job), NEW e, Ends(r, e)
  PROVE  Continues(r, e, e)
BY DEF DesignTyped, Ends, Continues

LEMMA RunsEnd ==
  ASSUME DesignTyped, Runs, NEW r \in 1 .. Len(job), job[r].status = "open",
         NEW e, Ends(r, e), UNCHANGED board, Continues(r, e, job')
  PROVE  Runs' /\ job' \in Seq(JobRow) /\ Len(job') <= MaxJobs /\ Len(job') >= Len(job)
<1> DEFINE n == Len(job)
<1>1. /\ job \in Seq(JobRow) /\ n \in Nat /\ n <= MaxJobs /\ MaxJobs \in Nat
      /\ \A i \in 1 .. n : job[i] \in JobRow /\ e[i] \in JobRow
      /\ e \in Seq(JobRow) /\ Len(e) = n
  BY LenProperties, ElementOfSeq, DesignBounds DEF DesignTyped, Ends
<1>2. job' \in Seq(JobRow) /\ Len(job') <= MaxJobs /\ \A i \in 1 .. n : job'[i] = e[i]
  BY DEF Continues
<1>3. \/ Len(job') = n
      \/ /\ Len(job') = n + 1 /\ job'[n + 1].status = "open"
         /\ job'[n + 1].again => /\ job'[n + 1].kind = job[r].kind
                                 /\ e[r].status = "failed" /\ ~job[r].again
  BY DEF Continues
<1>4. Len(job') >= n
  BY <1>1, <1>3
<1>5. SucceededHasFrames'
  <2>1. ASSUME NEW i \in 1 .. Len(job'), job'[i].kind = "designer", job'[i].status = "succeeded"
        PROVE  job'[i].brought \/ job'[i].cut
    <3>1. i \in 1 .. n
      BY <1>1, <1>3, <2>1
    <3>2. CASE i = r
      BY <1>2, <2>1, <3>1, <3>2 DEF Ends
    <3>3. CASE i # r
      BY <1>2, <2>1, <3>1, <3>3 DEF Ends, Runs, SucceededHasFrames
    <3> QED BY <3>2, <3>3
  <2> QED BY <2>1 DEF SucceededHasFrames
<1>6. Shown'
  <2>1. board.success \in 0 .. n
    BY <1>1 DEF DesignTyped, Panels
  <2>2. ASSUME board.success # 0
        PROVE  job'[board.success] = job[board.success]
    <3>1. board.success \in 1 .. n /\ board.success # r
      BY <1>1, <2>1, <2>2 DEF Runs, Shown
    <3> QED BY <1>2, <3>1 DEF Ends
  <2> QED BY <2>1, <2>2 DEF Shown, Runs
<1>7. ASSUME NEW k \in {"designer", "assigner"}
      PROVE  Cardinality(Corrections(job, k))' <= Cardinality(Unread(job, k))'
  <2> DEFINE A == Corrections(job, k)
             B == Unread(job, k)
  <2>1. IsFiniteSet(1 .. n) /\ IsFiniteSet(1 .. n + 1)
    BY <1>1, FS_Interval
  <2>2. A \subseteq 1 .. n /\ B \subseteq 1 .. n
    BY DEF Corrections, Unread
  <2>3. IsFiniteSet(A) /\ IsFiniteSet(B)
    BY <2>1, <2>2, FS_Subset
  <2>4. Cardinality(A) <= Cardinality(B) /\ Cardinality(A) \in Nat /\ Cardinality(B) \in Nat
    BY <2>3, CorrectionsCounted, FS_CardinalityType DEF Runs
  <2>5. B \subseteq B' /\ B' \subseteq 1 .. n + 1
    <3>1. ASSUME NEW i \in B PROVE i \in B'
      <4>1. i \in 1 .. n /\ job[i].status = "failed" /\ job[i].kind = k /\ ~job[i].again
        BY DEF Unread
      <4>2. i # r /\ job'[i] = job[i]
        BY <1>2, <4>1 DEF Ends
      <4>3. i \in 1 .. Len(job')
        BY <1>1, <1>4, <4>1
      <4> QED BY <4>1, <4>2, <4>3 DEF Unread
    <3>2. B' \subseteq 1 .. n + 1
      BY <1>1, <1>3 DEF Unread
    <3> QED BY <3>1, <3>2
  <2>6. IsFiniteSet(B') /\ Cardinality(B) <= Cardinality(B') /\ Cardinality(B') \in Nat
    <3>1. IsFiniteSet(B')
      BY <2>1, <2>5, FS_Subset
    <3> QED BY <3>1, <2>5, FS_Subset, FS_CardinalityType
  <2>7. \A i \in 1 .. n : job'[i].kind = job[i].kind /\ job'[i].again = job[i].again
    BY <1>2 DEF Ends
  <2>8. CASE Len(job') = n + 1 /\ job'[n + 1].kind = k /\ job'[n + 1].again = TRUE
    <3>0. 1 .. Len(job') = (1 .. n) \cup {n + 1} /\ n + 1 \notin 1 .. n
      BY <1>1, <2>8
    <3>1. A' = A \cup {n + 1} /\ n + 1 \notin A
      <4>1. A' = {i \in (1 .. n) \cup {n + 1} : job'[i].kind = k /\ job'[i].again = TRUE}
        BY <3>0 DEF Corrections
      <4>2. A = {i \in 1 .. n : job'[i].kind = k /\ job'[i].again = TRUE}
        BY <2>7 DEF Corrections
      <4>3. job'[n + 1].kind = k /\ job'[n + 1].again = TRUE
        BY <2>8
      <4> HIDE DEF A, n
      <4> QED BY <3>0, <4>1, <4>2, <4>3
    <3>2. k = job[r].kind /\ e[r].status = "failed" /\ ~job[r].again
      BY <1>1, <1>3, <2>8
    <3>3. r \notin B /\ r \in B'
      <4>1. job'[r] = e[r] /\ r \in 1 .. Len(job')
        BY <1>1, <1>2, <1>4
      <4>2. r \in B'
        BY <3>2, <4>1 DEF Unread, Ends
      <4> QED BY <4>2 DEF Unread
    <3>4. Cardinality(A') = Cardinality(A) + 1
      BY <2>3, <3>1, FS_AddElement
    <3>5. Cardinality(B \cup {r}) = Cardinality(B) + 1
      BY <2>3, <3>3, FS_AddElement
    <3>6. B \cup {r} \in SUBSET B'
      BY <2>5, <3>3
    <3>7. Cardinality(B \cup {r}) <= Cardinality(B')
      BY <2>6, <3>6, FS_Subset
    <3>8. Cardinality(A') <= Cardinality(B')
      <4> HIDE DEF A, B
      <4> QED BY <2>4, <2>6, <3>4, <3>5, <3>7
    <3> QED BY <3>8
  <2>9. CASE ~(Len(job') = n + 1 /\ job'[n + 1].kind = k /\ job'[n + 1].again = TRUE)
    <3>1. A' = A
      <4>1. ASSUME NEW i \in 1 .. Len(job'), i \notin 1 .. n
            PROVE  ~(job'[i].kind = k /\ job'[i].again = TRUE)
        <5>1. Len(job') = n + 1 /\ i = n + 1
          BY <1>1, <1>3, <4>1
        <5> QED BY <2>9, <5>1
      <4>2. \A i \in 1 .. n : i \in 1 .. Len(job')
        BY <1>1, <1>4
      <4> QED BY <2>7, <4>1, <4>2 DEF Corrections
    <3>2. Cardinality(A') <= Cardinality(B')
      <4> HIDE DEF A, B
      <4> QED BY <2>4, <2>6, <3>1
    <3> QED BY <3>2
  <2> QED BY <2>8, <2>9
<1>8. RetriedOnce'
  BY <1>7 DEF RetriedOnce, Corrections, Unread
<1> QED BY <1>2, <1>4, <1>5, <1>6, <1>8 DEF Runs

-----------------------------------------------------------------------------
(* One lemma per action.                                                   *)

LEMMA FramesStay ==
  ASSUME Frames, UNCHANGED <<frame, placed, approvedAs, gauge>>
  PROVE  Frames'
BY DEF Frames, AssignmentKept, ApprovalCoversContent, MeasuredHasBaseline, EmptyRows, Gauged, OnBoard

LEMMA RunsStay ==
  ASSUME Runs, UNCHANGED job, board'.success # 0 => Shown'
  PROVE  Runs'
BY DEF Runs, SucceededHasFrames, Shown, RetriedOnce

LEMMA AskDesignInv ==
  ASSUME DesignInv, AskDesign
  PROVE  DesignInv'
<1> DEFINE n == Len(job)
           q == Queued("designer", FALSE)
<1>1. n \in Nat /\ n < MaxJobs /\ MaxJobs \in Nat /\ job \in Seq(JobRow)
  BY LenProperties, DesignBounds DEF AskDesign, DesignInv, DesignTyped
<1>2. q \in JobRow /\ q.kind = "designer" /\ q.again = FALSE /\ q.status = "open"
  BY QueuedRow
<1>3. job' = Append(job, q)
  BY DEF AskDesign
<1> HIDE DEF q
<1>4. /\ job' \in Seq(JobRow) /\ Len(job') = n + 1 /\ job'[n + 1] = q
      /\ \A i \in 1 .. n : job'[i] = job[i]
  BY <1>1, <1>2, <1>3, AppendProperties
<1>5. board' \in Panels /\ board'.follows = n + 1 /\ board'.success = 0
  <2> DEFINE before == Cardinality({m \in Nodes : board.seen[m] # "absent"})
  <2>1. before \in Counts
    BY DEF Counts
  <2>2. n + 1 \in 0 .. MaxJobs /\ 0 \in 0 .. MaxJobs
    BY <1>1
  <2>3. board' = [board EXCEPT !.follows = n + 1, !.success = 0, !.before = before]
    BY DEF AskDesign
  <2> HIDE DEF before, n
  <2>4. board' \in Panels /\ board'.follows = n + 1 /\ board'.success = 0
    BY <2>1, <2>2, <2>3 DEF DesignInv, DesignTyped, Panels
  <2> QED BY <2>4
<1>6. DesignTyped'
  <2>1. UNCHANGED <<frame, gauge, placed, approvedAs>>
    BY DEF AskDesign
  <2>2. Len(job') <= MaxJobs /\ board'.follows <= Len(job') /\ board'.success <= Len(job')
    BY <1>1, <1>4, <1>5
  <2> QED BY <1>4, <1>5, <2>1, <2>2 DEF DesignInv, DesignTyped
<1>7. Frames'
  BY FramesStay DEF AskDesign, DesignInv
<1>8. SucceededHasFrames'
  BY <1>1, <1>2, <1>4 DEF SucceededHasFrames, DesignInv, Runs
<1>9. Shown'
  BY <1>5 DEF Shown
<1>10. RetriedOnce'
  <2>1. ASSUME NEW k \in {"designer", "assigner"}
        PROVE  /\ Corrections(job', k) = Corrections(job, k)
               /\ Unread(job', k) = Unread(job, k)
    <3>1. 1 .. Len(job') = (1 .. n) \cup {n + 1}
      BY <1>1, <1>4
    <3>2. ~(job'[n + 1].kind = k /\ job'[n + 1].again = TRUE)
          /\ job'[n + 1].status # "failed"
      BY <1>2, <1>4
    <3> QED BY <1>4, <3>1, <3>2 DEF Corrections, Unread
  <2>2. \A k \in {"designer", "assigner"} :
            Cardinality(Corrections(job', k)) <= Cardinality(Unread(job', k))
    BY <2>1, CorrectionsCounted DEF DesignInv, Runs
  <2> QED BY <2>2 DEF RetriedOnce, Corrections, Unread
<1> QED BY <1>6, <1>7, <1>8, <1>9, <1>10 DEF DesignInv, Runs

(* A run ends, and what it does to the frames is sound.                    *)
LEMMA EndInv ==
  ASSUME DesignInv, NEW r \in 1 .. Len(job), job[r].status = "open",
         NEW e, Ends(r, e), Continues(r, e, job'), UNCHANGED board,
         frame' \in [Nodes -> FrameRow], Frames',
         gauge' \in {gauge, "none"}, UNCHANGED placed,
         approvedAs' \in [Nodes -> 0 .. MaxJobs]
  PROVE  DesignInv'
<1>1. Runs' /\ job' \in Seq(JobRow) /\ Len(job') <= MaxJobs /\ Len(job') >= Len(job)
  BY RunsEnd DEF DesignInv
<1>2. /\ Len(job) \in Nat /\ Len(job') \in Nat
      /\ board.follows \in 0 .. MaxJobs /\ board.success \in 0 .. MaxJobs
  BY <1>1, LenProperties DEF DesignInv, DesignTyped, Panels
<1>3. board.follows <= Len(job') /\ board.success <= Len(job')
  BY <1>1, <1>2 DEF DesignInv, DesignTyped
<1> QED BY <1>1, <1>3 DEF DesignInv, DesignTyped

LEMMA AskAgainEnds ==
  ASSUME DesignInv, NEW r \in 1 .. Len(job), job[r].status = "open", AskAgain(r)
  PROVE  \E e : Ends(r, e) /\ Continues(r, e, job')
<1> DEFINE e == Ended(r, "failed", FALSE)
<1>1. Ends(r, e) /\ e[r].status = "failed"
  BY EndedEnds DEF DesignInv
<1>2. job[r].kind \in {"designer", "assigner"} /\ job[r].again \in BOOLEAN
  <2>1. job[r] \in JobRow
    BY ElementOfSeq DEF DesignInv, DesignTyped
  <2> QED BY <2>1 DEF JobRow
<1>3. CASE job[r].again
  BY <1>1, <1>3, EndContinues DEF AskAgain, DesignInv
<1>4. CASE ~job[r].again
  <2>1. Len(job) < MaxJobs /\ job' = Append(e, Queued(job[r].kind, TRUE))
    BY <1>4 DEF AskAgain
  <2> HIDE DEF e
  <2>2. Continues(r, e, job')
    BY <1>1, <1>2, <1>4, <2>1, QueueContinues DEF DesignInv
  <2> QED BY <1>1, <2>2
<1> QED BY <1>3, <1>4

LEMMA StillApprovedTyped ==
  ASSUME DesignTyped, NEW frames
  PROVE  StillApproved(frames) \in [Nodes -> 0 .. MaxJobs]
BY DesignBounds DEF DesignTyped, StillApproved

LEMMA DesignerEndsInv ==
  ASSUME DesignInv, NEW r \in 1 .. Len(job), DesignerEnds(r)
  PROVE  DesignInv'
<1>1. job[r].status = "open" /\ job[r].kind = "designer"
      /\ UNCHANGED <<gauge, board, cuts, placed>>
  BY DEF DesignerEnds, OpenJob
<1>2. r \in 0 .. MaxJobs
  BY LenProperties, DesignBounds DEF DesignInv, DesignTyped
<1>3. CASE AskAgain(r) /\ UNCHANGED <<frame, approvedAs>>
  <2>1. PICK e : Ends(r, e) /\ Continues(r, e, job')
    BY <1>1, <1>3, AskAgainEnds
  <2>2. Frames'
    BY <1>1, <1>3, FramesStay DEF DesignInv
  <2>3. frame' \in [Nodes -> FrameRow] /\ approvedAs' \in [Nodes -> 0 .. MaxJobs]
    BY <1>3 DEF DesignInv, DesignTyped
  <2> QED BY <1>1, <2>1, <2>2, <2>3, EndInv
<1>4. ASSUME NEW output \in Outputs \ {<<>>}, NEW status \in {"imported", "generated"},
             LET done == Persisted(r, status, output)
             IN  /\ frame' = done.frames
                 /\ approvedAs' = StillApproved(done.frames)
                 /\ \/ done.threw /\ HookFails(r, done.brought)
                    \/ /\ ~done.threw /\ Pool(done.frames) # {} /\ Len(job) < MaxJobs
                       /\ job' = Append(Ended(r, "succeeded", done.brought),
                                        Queued("assigner", FALSE))
                    \/ /\ ~done.threw /\ Pool(done.frames) = {}
                       /\ job' = Ended(r, "succeeded", done.brought)
      PROVE  DesignInv'
  <2>1. PICK done : done = Persisted(r, status, output)
    OBVIOUS
  <2>2. /\ done \in Saves /\ \A n \in Nodes : Brought(frame[n], done.frames[n])
        /\ done.threw \/ done.brought
    BY <1>2, <2>1, PersistedShape DEF DesignInv, Frames
  <2>3. /\ done.brought \in BOOLEAN /\ done.threw \in BOOLEAN
        /\ frame' = done.frames /\ frame' \in [Nodes -> FrameRow]
        /\ approvedAs' = StillApproved(frame')
    BY <1>4, <2>1, <2>2 DEF Saves
  <2>4. Frames'
    BY <1>1, <2>2, <2>3, BroughtKeeps DEF DesignInv
  <2>5. approvedAs' \in [Nodes -> 0 .. MaxJobs]
    BY <2>3, StillApprovedTyped DEF DesignInv
  <2>6. \E e : Ends(r, e) /\ Continues(r, e, job')
    <3>1. CASE job' = Ended(r, "failed", done.brought)
      <4> DEFINE e == Ended(r, "failed", done.brought)
      <4>1. Ends(r, e)
        BY <2>3, EndedEnds DEF DesignInv
      <4> HIDE DEF e
      <4> QED BY <3>1, <4>1, EndContinues DEF e, DesignInv
    <3>2. CASE ~done.threw /\ job' = Ended(r, "succeeded", done.brought)
      <4> DEFINE e == Ended(r, "succeeded", done.brought)
      <4>1. Ends(r, e)
        BY <2>2, <2>3, <3>2, EndedEnds DEF DesignInv
      <4> HIDE DEF e
      <4> QED BY <3>2, <4>1, EndContinues DEF e, DesignInv
    <3>3. CASE ~done.threw /\ Len(job) < MaxJobs
               /\ job' = Append(Ended(r, "succeeded", done.brought), Queued("assigner", FALSE))
      <4> DEFINE e == Ended(r, "succeeded", done.brought)
      <4>1. Ends(r, e)
        BY <2>2, <2>3, <3>3, EndedEnds DEF DesignInv
      <4>2. job' = Append(e, Queued("assigner", FALSE))
        BY <3>3
      <4> HIDE DEF e
      <4>3. Continues(r, e, job')
        BY <3>3, <4>1, <4>2, QueueContinues DEF DesignInv
      <4> QED BY <4>1, <4>3
    <3> QED BY <1>4, <2>1, <3>1, <3>2, <3>3 DEF HookFails
  <2> QED BY <1>1, <2>3, <2>4, <2>5, <2>6, EndInv
<1> QED BY <1>3, <1>4 DEF DesignerEnds

LEMMA AssignerEndsInv ==
  ASSUME DesignInv, NEW r \in 1 .. Len(job), AssignerEnds(r)
  PROVE  DesignInv'
<1>1. job[r].status = "open" /\ job[r].kind = "assigner"
      /\ UNCHANGED <<gauge, board, cuts, placed, approvedAs>>
  BY DEF AssignerEnds, OpenJob
<1>2. approvedAs' \in [Nodes -> 0 .. MaxJobs]
  BY <1>1 DEF DesignInv, DesignTyped
<1>3. CASE AskAgain(r) /\ UNCHANGED frame
  <2>1. PICK e : Ends(r, e) /\ Continues(r, e, job')
    BY <1>1, <1>3, AskAgainEnds
  <2>2. Frames'
    BY <1>1, <1>3, FramesStay DEF DesignInv
  <2>3. frame' \in [Nodes -> FrameRow]
    BY <1>3 DEF DesignInv, DesignTyped
  <2> QED BY <1>1, <1>2, <2>1, <2>2, <2>3, EndInv
<1>4. ASSUME NEW output \in Handouts,
             LET done == Assigned(output)
             IN  /\ frame' = done.frames
                 /\ IF done.threw THEN HookFails(r, FALSE)
                    ELSE job' = Ended(r, "succeeded", FALSE)
      PROVE  DesignInv'
  <2>1. output \in Seq(Assignments)
    BY OutputsAreSequences DEF Handouts
  <2>2. PICK done : done = Assigned(output)
    OBVIOUS
  <2>3. done \in Moves /\ \A n \in Nodes : Given(frame[n], done.frames[n])
    BY <2>1, <2>2, AssignedShape DEF DesignInv
  <2>4. frame' = done.frames /\ frame' \in [Nodes -> FrameRow]
    BY <1>4, <2>2, <2>3 DEF Moves
  <2>5. Frames'
    BY <1>1, <2>3, <2>4, GivenKeeps DEF DesignInv
  <2>6. job' = Ended(r, "failed", FALSE) \/ job' = Ended(r, "succeeded", FALSE)
    BY <1>4, <2>2 DEF HookFails
  <2>7. Ends(r, Ended(r, "failed", FALSE)) /\ Ends(r, Ended(r, "succeeded", FALSE))
    <3>1. job[r].kind # "designer"
      BY <1>1
    <3> QED BY <3>1, EndedEnds DEF DesignInv
  <2>8. Ends(r, job')
    BY <2>6, <2>7
  <2>9. Continues(r, job', job')
    BY <2>8, EndContinues DEF DesignInv
  <2> QED BY <1>1, <1>2, <2>4, <2>5, <2>8, <2>9, EndInv
<1>5. \/ AskAgain(r) /\ UNCHANGED frame
      \/ \E output \in Handouts : LET done == Assigned(output)
                             IN  /\ frame' = done.frames
                                 /\ IF done.threw THEN HookFails(r, FALSE)
                                    ELSE job' = Ended(r, "succeeded", FALSE)
  BY DEF AssignerEnds
<1> QED BY <1>3, <1>4, <1>5

LEMMA JobStopsInv ==
  ASSUME DesignInv, NEW r \in 1 .. Len(job), JobStops(r)
  PROVE  DesignInv'
<1>1. job[r].status = "open" /\ UNCHANGED <<frame, gauge, board, cuts, placed, approvedAs>>
  BY DEF JobStops, OpenJob
<1>2. PICK s \in {"failed", "cancelled"} : job' = Ended(r, s, FALSE)
  BY DEF JobStops
<1>3. Ends(r, job')
  BY <1>2, EndedEnds DEF DesignInv
<1>4. Continues(r, job', job')
  BY <1>3, EndContinues DEF DesignInv
<1>5. Frames'
  BY <1>1, FramesStay DEF DesignInv
<1>6. frame' \in [Nodes -> FrameRow] /\ approvedAs' \in [Nodes -> 0 .. MaxJobs]
  BY <1>1 DEF DesignInv, DesignTyped
<1> QED BY <1>1, <1>3, <1>4, <1>5, <1>6, EndInv

LEMMA DiesInHookInv ==
  ASSUME DesignInv, NEW r \in 1 .. Len(job), DiesInHook(r)
  PROVE  DesignInv'
<1>1. job[r].status = "open" /\ gauge' = "none" /\ UNCHANGED <<board, placed>>
  BY DEF DiesInHook, OpenJob
<1>2. r \in 0 .. MaxJobs
  BY LenProperties, DesignBounds DEF DesignInv, DesignTyped
<1>3. PICK output \in Outputs, status \in {"imported", "generated"} :
          LET done == Persisted(r, status, output)
          IN  /\ frame' = done.frames /\ approvedAs' = StillApproved(done.frames)
              /\ job' = [Ended(r, "succeeded", done.brought) EXCEPT ![r].cut = TRUE]
  BY DEF DiesInHook
<1>4. PICK done : done = Persisted(r, status, output)
  OBVIOUS
<1>5. done \in Saves /\ \A n \in Nodes : Brought(frame[n], done.frames[n])
  BY <1>2, <1>4, PersistedShape DEF DesignInv, Frames
<1>6. /\ done.brought \in BOOLEAN
      /\ frame' = done.frames /\ frame' \in [Nodes -> FrameRow]
      /\ approvedAs' = StillApproved(frame')
  BY <1>3, <1>4, <1>5 DEF Saves
<1>7. Frames'
  BY <1>1, <1>5, <1>6, BroughtKeeps DEF DesignInv
<1>8. approvedAs' \in [Nodes -> 0 .. MaxJobs]
  BY <1>6, StillApprovedTyped DEF DesignInv
<1>9. Ends(r, job')
  <2> DEFINE row == [job[r] EXCEPT !.status = "succeeded", !.brought = done.brought,
                                   !.cut = TRUE]
             e == [job EXCEPT ![r] = row]
  <2>1. job \in Seq(JobRow) /\ job[r] \in JobRow /\ DOMAIN job = 1 .. Len(job)
    BY LenProperties, ElementOfSeq DEF DesignInv, DesignTyped
  <2>2. /\ row \in JobRow /\ row.kind = job[r].kind /\ row.again = job[r].again
        /\ row.status = "succeeded" /\ row.cut = TRUE
    BY <1>6, <2>1 DEF JobRow
  <2>3. job' = e
    BY <1>3, <1>4, <2>1 DEF Ended, JobRow
  <2> HIDE DEF row
  <2>4. /\ e \in Seq(JobRow) /\ Len(e) = Len(job)
        /\ \A j \in 1 .. Len(job) : e[j] = IF j = r THEN row ELSE job[j]
    BY <2>1, <2>2, ExceptSeq
  <2> HIDE DEF e
  <2> QED BY <2>2, <2>3, <2>4 DEF Ends
<1>10. Continues(r, job', job')
  BY <1>9, EndContinues DEF DesignInv
<1> QED BY <1>1, <1>6, <1>7, <1>8, <1>9, <1>10, EndInv

LEMMA BoardInv ==
  ASSUME DesignInv, RefreshBoard \/ ReopenBoard \/ SeeEnd
  PROVE  DesignInv'
<1>1. UNCHANGED <<frame, job, gauge, placed, approvedAs>>
  BY DEF RefreshBoard, ReopenBoard, SeeEnd
<1>2. /\ Len(job) \in Nat /\ Len(job) <= MaxJobs /\ MaxJobs \in Nat /\ board \in Panels
      /\ board.follows \in 0 .. MaxJobs /\ board.success \in 0 .. MaxJobs
      /\ board.follows <= Len(job) /\ board.success <= Len(job)
      /\ board.seen \in [Nodes -> {"absent", "open", "approved"}]
  BY LenProperties, DesignBounds DEF DesignInv, DesignTyped, Panels
<1>3. /\ board' \in Panels /\ board'.follows <= Len(job) /\ board'.success <= Len(job)
      /\ board'.success # 0 => job[board'.success].status \notin {"open", "failed"}
  <2>1. CASE RefreshBoard
    <3>1. Cards \in [Nodes -> {"absent", "open", "approved"}]
      BY DEF Cards, Card
    <3>2. board' = [board EXCEPT !.seen = Cards]
      BY <2>1 DEF RefreshBoard
    <3> HIDE DEF Cards
    <3>3. board' \in Panels /\ board'.follows = board.follows /\ board'.success = board.success
      BY <1>2, <3>1, <3>2 DEF Panels
    <3> QED BY <1>2, <3>3 DEF DesignInv, Runs, Shown
  <2>2. CASE ReopenBoard
    BY <1>2, <2>2 DEF ReopenBoard, Unloaded, Panels, Counts
  <2>3. CASE SeeEnd
    <3> DEFINE success == IF Success(board.follows) THEN board.follows ELSE 0
    <3>1. /\ board' = [board EXCEPT !.follows = 0, !.before = 0, !.success = success]
          /\ board.follows # 0 /\ ~OpenJob(board.follows)
      BY <2>3 DEF SeeEnd
    <3>2. success \in 0 .. MaxJobs /\ success <= Len(job) /\ 0 \in 0 .. MaxJobs /\ 0 \in Counts
      BY <1>2 DEF Counts
    <3>3. success # 0 => job[success].status \notin {"open", "failed"}
      BY <1>2, <3>1 DEF Success, OpenJob
    <3> HIDE DEF success
    <3>4. board' \in Panels /\ board'.follows = 0 /\ board'.success = success
      BY <1>2, <3>1, <3>2 DEF Panels
    <3> QED BY <1>2, <3>2, <3>3, <3>4
  <2> QED BY <2>1, <2>2, <2>3
<1>4. DesignTyped'
  BY <1>1, <1>3 DEF DesignInv, DesignTyped
<1>5. Frames'
  BY <1>1, FramesStay DEF DesignInv
<1>6. Shown'
  BY <1>1, <1>3 DEF Shown
<1> QED BY <1>1, <1>4, <1>5, <1>6, RunsStay DEF DesignInv

(* Steps that touch neither the runs nor the panel.                        *)
LEMMA DeskInv ==
  ASSUME DesignInv, UNCHANGED <<job, board>>,
         frame' \in [Nodes -> FrameRow], placed' \in [Nodes -> Stories \cup {"none"}],
         approvedAs' \in [Nodes -> 0 .. MaxJobs], gauge' \in Nodes \cup {"none"}, Frames'
  PROVE  DesignInv'
<1>1. DesignTyped'
  BY DEF DesignInv, DesignTyped
<1>2. Shown'
  BY DEF DesignInv, Runs, Shown
<1> QED BY <1>1, <1>2, RunsStay DEF DesignInv

LEMMA ReassignInv ==
  ASSUME DesignInv, NEW n \in Nodes, Reassign(n)
  PROVE  DesignInv'
<1>1. frame[n].live /\ UNCHANGED <<job, gauge, board, cuts, approvedAs>>
  BY DEF Reassign, OnBoard
<1>2. PICK s \in Stories \cup {"pool"} :
          /\ frame' = [frame EXCEPT ![n].story = s]
          /\ placed' = [placed EXCEPT ![n] = IF s = "pool" THEN "none" ELSE s]
  BY DEF Reassign
<1>3. /\ frame \in [Nodes -> FrameRow] /\ placed \in [Nodes -> Stories \cup {"none"}]
      /\ approvedAs \in [Nodes -> 0 .. MaxJobs] /\ gauge \in Nodes \cup {"none"}
  BY DEF DesignInv, DesignTyped
<1> DEFINE row == [frame[n] EXCEPT !.story = s]
<1>4. /\ row \in FrameRow /\ row.story = s /\ row.status = frame[n].status
      /\ row.from = frame[n].from /\ row.baseline = frame[n].baseline
      /\ row.scored = frame[n].scored /\ row.live = frame[n].live
  BY <1>2, <1>3 DEF FrameRow
<1>5. frame' = [frame EXCEPT ![n] = row]
  BY <1>2
<1> HIDE DEF row
<1>6. frame' \in [Nodes -> FrameRow] /\ \A m \in Nodes : frame'[m] = IF m = n THEN row ELSE frame[m]
  BY <1>3, <1>4, <1>5
<1>7. placed' \in [Nodes -> Stories \cup {"none"}]
  BY <1>2, <1>3
<1>8. \A m \in Nodes : placed'[m] = IF m # n THEN placed[m] ELSE IF s = "pool" THEN "none" ELSE s
  BY <1>2, <1>3
<1>9. AssignmentKept'
  <2>1. "none" \notin Stories
    BY DesignBounds
  <2> QED BY <1>4, <1>6, <1>8, <2>1 DEF AssignmentKept, DesignInv, Frames
<1>10. ApprovalCoversContent' /\ MeasuredHasBaseline'
  BY <1>1, <1>4, <1>6 DEF ApprovalCoversContent, MeasuredHasBaseline, DesignInv, Frames
<1>11. EmptyRows'
  BY <1>1, <1>4, <1>6 DEF EmptyRows, DesignInv, Frames
<1>12. Gauged'
  BY <1>1, <1>3, <1>4, <1>6 DEF Gauged, DesignInv, Frames
<1> QED BY <1>1, <1>3, <1>6, <1>7, <1>9, <1>10, <1>11, <1>12, DeskInv DEF Frames

LEMMA ApproveInv ==
  ASSUME DesignInv, NEW n \in Nodes, Approve(n)
  PROVE  DesignInv'
<1>1. frame[n].live /\ UNCHANGED <<job, gauge, board, cuts, placed>>
      /\ frame' = [frame EXCEPT ![n].status = "approved"]
      /\ approvedAs' = [approvedAs EXCEPT ![n] = frame[n].from]
  BY DEF Approve, OnBoard
<1>2. /\ frame \in [Nodes -> FrameRow] /\ placed \in [Nodes -> Stories \cup {"none"}]
      /\ approvedAs \in [Nodes -> 0 .. MaxJobs] /\ gauge \in Nodes \cup {"none"}
  BY DEF DesignInv, DesignTyped
<1> DEFINE row == [frame[n] EXCEPT !.status = "approved"]
<1>3. /\ row \in FrameRow /\ row.status = "approved" /\ row.story = frame[n].story
      /\ row.from = frame[n].from /\ row.baseline = frame[n].baseline
      /\ row.scored = frame[n].scored /\ row.live = frame[n].live
  BY <1>2 DEF FrameRow
<1>4. frame' = [frame EXCEPT ![n] = row]
  BY <1>1
<1> HIDE DEF row
<1>5. frame' \in [Nodes -> FrameRow] /\ \A m \in Nodes : frame'[m] = IF m = n THEN row ELSE frame[m]
  BY <1>2, <1>3, <1>4
<1>6. frame[n].from \in 0 .. MaxJobs
  BY <1>2 DEF FrameRow
<1>7. /\ approvedAs' \in [Nodes -> 0 .. MaxJobs]
      /\ \A m \in Nodes : approvedAs'[m] = IF m = n THEN frame[n].from ELSE approvedAs[m]
  BY <1>1, <1>2, <1>6
<1>8. AssignmentKept' /\ MeasuredHasBaseline'
  BY <1>1, <1>3, <1>5 DEF AssignmentKept, MeasuredHasBaseline, DesignInv, Frames
<1>9. ApprovalCoversContent'
  BY <1>3, <1>5, <1>7 DEF ApprovalCoversContent, DesignInv, Frames
<1>10. EmptyRows'
  BY <1>3, <1>5 DEF EmptyRows, DesignInv, Frames
<1>11. Gauged'
  BY <1>1, <1>2, <1>3, <1>5 DEF Gauged, DesignInv, Frames
<1> QED BY <1>1, <1>2, <1>5, <1>7, <1>8, <1>9, <1>10, <1>11, DeskInv DEF Frames

LEMMA DeleteFrameInv ==
  ASSUME DesignInv, NEW n \in Nodes, DeleteFrame(n)
  PROVE  DesignInv'
<1> DEFINE row == [NoFrame EXCEPT !.status = "deleted"]
<1>1. /\ UNCHANGED <<job, gauge, board, cuts>> /\ frame' = [frame EXCEPT ![n] = row]
      /\ placed' = [placed EXCEPT ![n] = "none"] /\ approvedAs' = [approvedAs EXCEPT ![n] = 0]
  BY DEF DeleteFrame
<1>2. /\ frame \in [Nodes -> FrameRow] /\ placed \in [Nodes -> Stories \cup {"none"}]
      /\ approvedAs \in [Nodes -> 0 .. MaxJobs] /\ gauge \in Nodes \cup {"none"}
  BY DEF DesignInv, DesignTyped
<1>3. row \in FrameRow /\ row.status = "deleted" /\ row.scored = FALSE /\ row.live = FALSE
  <2>1. NoFrame \in FrameRow /\ NoFrame.scored = FALSE /\ NoFrame.live = FALSE
    BY DesignBounds DEF NoFrame, FrameRow
  <2> HIDE DEF NoFrame
  <2> QED BY <2>1 DEF FrameRow
<1> HIDE DEF row
<1>4. frame' \in [Nodes -> FrameRow] /\ \A m \in Nodes : frame'[m] = IF m = n THEN row ELSE frame[m]
  BY <1>1, <1>2, <1>3
<1>5. /\ placed' \in [Nodes -> Stories \cup {"none"}]
      /\ \A m \in Nodes : placed'[m] = IF m = n THEN "none" ELSE placed[m]
  BY <1>1, <1>2
<1>6. /\ approvedAs' \in [Nodes -> 0 .. MaxJobs]
      /\ \A m \in Nodes : approvedAs'[m] = IF m = n THEN 0 ELSE approvedAs[m]
  BY <1>1, <1>2, DesignBounds
<1>7. AssignmentKept'
  BY <1>4, <1>5, DesignBounds DEF AssignmentKept, DesignInv, Frames
<1>8. ApprovalCoversContent'
  BY <1>3, <1>4, <1>6 DEF ApprovalCoversContent, DesignInv, Frames
<1>9. MeasuredHasBaseline' /\ EmptyRows'
  BY <1>3, <1>4 DEF MeasuredHasBaseline, EmptyRows, DesignInv, Frames
<1>10. Gauged'
  BY <1>1, <1>2, <1>3, <1>4 DEF Gauged, DesignInv, Frames
<1> QED BY <1>1, <1>2, <1>4, <1>5, <1>6, <1>7, <1>8, <1>9, <1>10, DeskInv DEF Frames

LEMMA MeasureInv ==
  ASSUME DesignInv, NEW s \in Stories, Measure(s)
  PROVE  DesignInv'
<1>1. UNCHANGED <<frame, job, board, cuts, placed, approvedAs>>
  BY DEF Measure
<1>2. PICK n \in Nodes : frame[n].live /\ frame[n].baseline /\ gauge' = n
  BY DEF Measure, OnBoard
<1>3. frame[n].status # "none"
  BY <1>2 DEF DesignInv, Frames, EmptyRows
<1>4. Gauged'
  BY <1>1, <1>2, <1>3 DEF Gauged
<1>5. AssignmentKept' /\ ApprovalCoversContent' /\ MeasuredHasBaseline' /\ EmptyRows'
  BY <1>1 DEF AssignmentKept, ApprovalCoversContent, MeasuredHasBaseline, EmptyRows, DesignInv, Frames
<1> QED BY <1>1, <1>2, <1>4, <1>5, DeskInv DEF Frames, DesignInv, DesignTyped

LEMMA MeasuredInv ==
  ASSUME DesignInv, Measured
  PROVE  DesignInv'
<1>1. gauge # "none" /\ gauge' = "none" /\ UNCHANGED <<job, board, cuts, placed, approvedAs>>
  BY DEF Measured
<1>2. /\ frame \in [Nodes -> FrameRow] /\ gauge \in Nodes
      /\ placed' \in [Nodes -> Stories \cup {"none"}] /\ approvedAs' \in [Nodes -> 0 .. MaxJobs]
  BY <1>1 DEF DesignInv, DesignTyped
<1>3. /\ frame' \in [Nodes -> FrameRow]
      /\ \A m \in Nodes :
             /\ frame'[m].story = frame[m].story /\ frame'[m].status = frame[m].status
             /\ frame'[m].from = frame[m].from /\ frame'[m].baseline = frame[m].baseline
             /\ frame'[m].live = frame[m].live
             /\ frame'[m].scored => frame[m].scored \/ (m = gauge /\ frame[m].live)
  <2>1. CASE UNCHANGED frame
    BY <1>2, <2>1
  <2>2. CASE frame' = [frame EXCEPT ![gauge].scored = OnBoard(gauge)]
    <3>1. PICK live \in BOOLEAN : live = frame[gauge].live
      BY <1>2 DEF FrameRow
    <3> DEFINE row == [frame[gauge] EXCEPT !.scored = live]
    <3>2. frame' = [frame EXCEPT ![gauge] = row]
      BY <1>2, <2>2, <3>1 DEF OnBoard
    <3>3. /\ row \in FrameRow /\ row.story = frame[gauge].story
          /\ row.status = frame[gauge].status /\ row.from = frame[gauge].from
          /\ row.baseline = frame[gauge].baseline /\ row.live = frame[gauge].live
          /\ row.scored = live
      BY <1>2 DEF FrameRow
    <3> HIDE DEF row
    <3>4. /\ frame' \in [Nodes -> FrameRow]
          /\ \A m \in Nodes : frame'[m] = IF m = gauge THEN row ELSE frame[m]
      BY <1>2, <3>2, <3>3
    <3> QED BY <3>1, <3>3, <3>4
  <2> QED BY <2>1, <2>2 DEF Measured
<1>4. AssignmentKept' /\ ApprovalCoversContent' /\ EmptyRows'
  BY <1>1, <1>3 DEF AssignmentKept, ApprovalCoversContent, EmptyRows, DesignInv, Frames
<1>5. MeasuredHasBaseline'
  BY <1>1, <1>3 DEF MeasuredHasBaseline, Gauged, DesignInv, Frames
<1>6. Gauged'
  BY <1>1 DEF Gauged
<1> QED BY <1>1, <1>2, <1>3, <1>4, <1>5, <1>6, DeskInv DEF Frames

LEMMA DesignInitInv ==
  ASSUME DesignInit
  PROVE  DesignInv
<1>0. MaxJobs \in Nat /\ job = <<>> /\ Len(job) = 0 /\ board.success = 0
  BY DesignBounds, EmptySeq DEF DesignInit, Unloaded
<1>1. NoFrame \in FrameRow
  BY <1>0, DesignBounds DEF NoFrame, FrameRow
<1>2. \A n \in Nodes : frame[n] = NoFrame /\ placed[n] = "none"
  BY DEF DesignInit
<1>3. board \in Panels /\ board.follows = 0
  BY <1>0 DEF DesignInit, Unloaded, Panels, Counts
<1>4. DesignTyped
  <2>1. job \in Seq(JobRow)
    BY <1>0, EmptySeq
  <2>2. frame \in [Nodes -> FrameRow]
    <3> HIDE DEF NoFrame
    <3> QED BY <1>1 DEF DesignInit
  <2> QED BY <1>0, <1>3, <2>1, <2>2 DEF DesignInit, DesignTyped
<1>5. Frames
  BY <1>2, DesignBounds DEF DesignInit, NoFrame, Frames, AssignmentKept, ApprovalCoversContent,
     MeasuredHasBaseline, EmptyRows, Gauged
<1>6. SucceededHasFrames /\ Shown
  BY <1>0 DEF SucceededHasFrames, Shown
<1>7. RetriedOnce
  <2>1. \A k \in {"designer", "assigner"} : Corrections(job, k) = {} /\ Unread(job, k) = {}
    BY <1>0 DEF Corrections, Unread
  <2>2. Cardinality({}) = 0
    BY FS_EmptySet
  <2>3. \A k \in {"designer", "assigner"} :
            Cardinality(Corrections(job, k)) <= Cardinality(Unread(job, k))
    BY <2>1, <2>2
  <2> QED BY <2>3, CorrectionsCounted
<1> QED BY <1>4, <1>5, <1>6, <1>7 DEF DesignInv, Runs

LEMMA DesignStepInv ==
  ASSUME DesignInv, [DesignNext]_designVars
  PROVE  DesignInv'
<1>1. CASE JobNext
  BY <1>1, AskDesignInv, DesignerEndsInv, JobStopsInv, DiesInHookInv DEF JobNext
<1>2. CASE BoardNext
  BY <1>2, BoardInv, ApproveInv, DeleteFrameInv DEF BoardNext
<1>3. CASE AssignNext
  BY <1>3, BoardInv, AssignerEndsInv, ReassignInv DEF AssignNext
<1>4. CASE GaugeNext
  BY <1>4, AskDesignInv, BoardInv, MeasuredInv, DesignerEndsInv, ReassignInv, DeleteFrameInv,
     MeasureInv DEF GaugeNext
<1>5. CASE UNCHANGED designVars
  <2>1. UNCHANGED <<frame, job, gauge, board, placed, approvedAs>>
    BY <1>5 DEF designVars
  <2> QED BY <2>1, FramesStay, DeskInv DEF DesignInv, DesignTyped
<1> QED BY <1>1, <1>2, <1>3, <1>4, <1>5 DEF DesignNext

(* The invariant of the design desk: it holds for any Figma file, any      *)
(* number of stories, runs and deaths of the sidecar.                      *)
THEOREM DesignInductive == DesignSpec => []DesignInv
<1>1. DesignInit => DesignInv
  BY DesignInitInv
<1>2. DesignInv /\ [DesignNext]_designVars => DesignInv'
  BY DesignStepInv
<1> QED BY <1>1, <1>2, PTL DEF DesignSpec

LEMMA DesignHolds ==
  ASSUME DesignInv
  PROVE  DesignHonest
<1>1. Len(job) \in Nat /\ Len(job) <= MaxJobs /\ \A r \in 1 .. Len(job) : job[r] \in JobRow
  BY LenProperties, ElementOfSeq DEF DesignInv, DesignTyped
<1>2. DesignTypeOK
  BY <1>1 DEF DesignTypeOK, DesignInv, DesignTyped, FrameRow, JobRow, Panels
<1>3. FailureShown
  BY DEF FailureShown, DesignInv, Runs, Shown
<1> QED BY <1>2, <1>3 DEF DesignHonest, DesignInv, Frames, Runs

(* What the operator decided about a frame stands, what the gate measured  *)
(* it did measure, and a run is shown as what it was: on DesignPanel, in   *)
(* the hooks of the designer and the frame-assigner and in the G5 gate.    *)
THEOREM DesignIsHonest == DesignSpec => []DesignHonest
BY DesignInductive, DesignHolds, PTL

(***************************************************************************)
(* The conversation of a task with its agent.                              *)
(***************************************************************************)

(* What the panel shows of a list, and what of a list is still there.      *)
On(list) == {list[i] : i \in 1 .. Len(list)}
Stays(A, B) == \A m \in A : m.turn = 0 \/ m \in B \/ [m EXCEPT !.filled = TRUE] \in B

Message == [turn : 0 .. MaxTurns, who : {"user", "agent"}, filled : BOOLEAN]
Mails == [list : Seq(Message), phase : 0 .. LastPhase]
Panel == [open : BOOLEAN, loaded : BOOLEAN, list : Seq(Message), phase : 0 .. LastPhase,
          sending : {"no", "asking", "started", "live"}, reattaching : BOOLEAN]
Requests == [at : {"none", "asked", "answered"}, to : 0 .. LastPhase, heard : BOOLEAN,
             mail : Mails]

ChatTyped ==
    /\ messages \in Seq(Message) /\ talkPhase \in 1 .. LastPhase
    /\ turnRun \in Seq({"open", "ended", "reaped", "refused"}) /\ Len(turnRun) <= MaxTurns
    /\ cowork \in Panel /\ refresh \in Mails /\ advance \in Requests

(* The message of every turn is in the conversation.                       *)
TurnsServed ==
    /\ \A m \in On(messages) : m.turn \in 1 .. Len(turnRun)
    /\ \A k \in 1 .. Len(turnRun) : User(k) \in On(messages)

(* What the panel shows, and what the answers that are on their way bring, *)
(* the conversation has; and a refresh has what the panel shows.           *)
Followed ==
    /\ Stays(On(cowork.list), On(messages))
    /\ Stays(On(refresh.list), On(messages))
    /\ Stays(On(advance.mail.list), On(messages))
    /\ refresh # NoMail => Stays(On(cowork.list), On(refresh.list))

(* A refresh is on its way to a panel at rest only.                        *)
Attended ==
    /\ cowork.loaded => cowork.open
    /\ ~cowork.loaded => cowork.sending = "no"
    /\ refresh # NoMail => cowork.loaded /\ cowork.sending = "no"
    /\ cowork.sending = "asking" => Len(turnRun) < MaxTurns
    /\ cowork.sending \in {"started", "live"} => turnRun # <<>>

(* The panel is never more than one phase behind when it may ask for the   *)
(* next, and what it asks for is the phase there is or the one after it.   *)
Onward ==
    /\ cowork.phase <= talkPhase
    /\ refresh # NoMail => refresh.phase \in cowork.phase .. talkPhase
    /\ cowork.loaded /\ advance.at = "none" => talkPhase <= cowork.phase + 1
    /\ advance.at = "asked" => advance.to \in talkPhase .. talkPhase + 1
    /\ advance.at = "asked" /\ ~advance.heard /\ cowork.loaded => cowork.phase = talkPhase
    /\ advance.at = "answered" => advance.mail.phase = talkPhase

ChatInv == ChatTyped /\ TurnsServed /\ Followed /\ Attended /\ Onward /\ NoSilentTurn

LEMMA Filled ==
  ASSUME NEW m \in Message
  PROVE  LET f == [m EXCEPT !.filled = TRUE] IN
             /\ f \in Message /\ f.turn = m.turn /\ f.who = m.who
             /\ [f EXCEPT !.filled = TRUE] = f
<1> DEFINE f == [m EXCEPT !.filled = TRUE]
<1>1. f \in Message /\ f.turn = m.turn /\ f.who = m.who
  BY DEF Message
<1>2. [f EXCEPT !.filled = TRUE] = f
  BY DEF Message
<1> QED BY <1>1, <1>2

LEMMA StaysOn ==
  ASSUME NEW A \in SUBSET Message, NEW B \in SUBSET Message, NEW C \in SUBSET Message,
         Stays(A, B), Stays(B, C)
  PROVE  Stays(A, C)
<1>1. ASSUME NEW m \in A, m.turn # 0
      PROVE  m \in C \/ [m EXCEPT !.filled = TRUE] \in C
  <2> DEFINE f == [m EXCEPT !.filled = TRUE]
  <2>1. f.turn = m.turn /\ [f EXCEPT !.filled = TRUE] = f
    BY Filled
  <2>2. m \in B \/ f \in B
    BY <1>1 DEF Stays
  <2> HIDE DEF f
  <2>3. CASE m \in B
    BY <1>1, <2>3 DEF Stays, f
  <2>4. CASE f \in B
    BY <1>1, <2>1, <2>4 DEF Stays, f
  <2> QED BY <2>2, <2>3, <2>4 DEF f
<1> QED BY <1>1 DEF Stays

LEMMA StaysIn ==
  ASSUME NEW A, NEW B, \A m \in A : m.turn = 0 \/ m \in B
  PROVE  Stays(A, B)
BY DEF Stays

LEMMA OnMessages ==
  ASSUME NEW list \in Seq(Message)
  PROVE  On(list) \in SUBSET Message
BY ElementOfSeq DEF On

LEMMA OnAppend ==
  ASSUME NEW list \in Seq(Message), NEW m \in Message
  PROVE  Append(list, m) \in Seq(Message) /\ On(Append(list, m)) = On(list) \cup {m}
<1> DEFINE n == Len(list)
           u == Append(list, m)
<1>1. /\ n \in Nat /\ u \in Seq(Message) /\ Len(u) = n + 1 /\ u[n + 1] = m
      /\ \A i \in 1 .. n : u[i] = list[i]
  BY LenProperties, AppendProperties
<1>2. 1 .. n + 1 = (1 .. n) \cup {n + 1}
  BY <1>1
<1> HIDE DEF u, n
<1>3. On(u) = On(list) \cup {m}
  BY <1>1, <1>2 DEF On, n
<1> QED BY <1>1, <1>3 DEF u

LEMMA AppendTwice ==
  ASSUME NEW list \in Seq(Message), NEW m \in Message, NEW o \in Message
  PROVE  list \o <<m, o>> = Append(Append(list, m), o)
OBVIOUS

LEMMA NothingOn == On(<<>>) = {} /\ <<>> \in Seq(Message)
BY EmptySeq DEF On

LEMMA MessagesTyped ==
  ASSUME NEW k \in 0 .. MaxTurns
  PROVE  /\ User(k) \in Message /\ User(k).turn = k
         /\ Placeholder(k) \in Message /\ Placeholder(k).turn = k
BY DEF User, Placeholder, Message

(* Of a list, Saved keeps what the server has.                             *)
LEMMA SavedShows ==
  ASSUME NEW list \in Seq(Message)
  PROVE  /\ Saved(list) \in Seq(Message)
         /\ \A m \in Message : m \in On(Saved(list)) <=> m \in On(list) /\ m.turn # 0
<1> DEFINE n == Len(list)
           S == 1 .. n
           V == Seq(Message)
           Adds(i, v) == IF list[i].turn = 0 THEN v ELSE Append(v, list[i])
           step == [q \in S \X V |-> Adds(q[1], q[2])]
           Solves(g) == g = [s \in SUBSET S |->
                               IF s = {} THEN <<>> ELSE Adds(Max(s), g[s \ {Max(s)}])]
           iter == CHOOSE g : Solves(g)
<1>1. n \in Nat /\ DOMAIN list = S /\ \A i \in S : list[i] \in Message
  BY LenProperties, ElementOfSeq
<1>2. Saved(list) = iter[S]
  BY <1>1 DEF Saved, FoldLeft, MapThenFoldSet
<1>3. ASSUME NEW i \in S, NEW v \in V
      PROVE  step[<<i, v>>] = Adds(i, v) /\ Adds(i, v) \in V
  <2>1. list[i] \in Message
    BY <1>1
  <2>2. Adds(i, v) \in V
    <3>1. Append(v, list[i]) \in V
      BY <2>1, AppendProperties
    <3> QED BY <3>1
  <2> HIDE DEF S, V, Adds
  <2>3. <<i, v>> \in S \X V /\ <<i, v>>[1] = i /\ <<i, v>>[2] = v
    OBVIOUS
  <2> QED BY <2>2, <2>3
<1>0. <<>> \in V
  BY EmptySeq
<1> HIDE DEF Adds, step, V
<1>4. PICK g \in [SUBSET S -> V] : Along(g, n, <<>>, step)
  <2>1. \A i \in S, v \in V : step[<<i, v>>] \in V
    BY <1>3
  <2> HIDE DEF n
  <2> QED BY <1>0, <1>1, <2>1, FoldSolved
<1>5. ASSUME NEW s \in SUBSET S, s # {}
      PROVE  /\ Max(s) \in S /\ g[s \ {Max(s)}] \in V
             /\ g[s] = Adds(Max(s), g[s \ {Max(s)}])
  <2>1. Max(s) \in s
    BY <1>1, <1>5, TopmostChooses DEF Topmost, Chooses
  <2>2. Max(s) \in S /\ g[s \ {Max(s)}] \in V
    <3> HIDE DEF S
    <3> QED BY <2>1
  <2>3. g[s] = step[<<Max(s), g[s \ {Max(s)}]>>]
    BY <1>4, <1>5 DEF Along, S
  <2> QED BY <1>3, <2>2, <2>3
<1> HIDE DEF S
<1>6. Solves(g)
  <2> DEFINE b == [s \in SUBSET S |->
                     IF s = {} THEN <<>> ELSE Adds(Max(s), g[s \ {Max(s)}])]
  <2>1. \A s \in SUBSET S : b[s] = g[s]
    BY <1>4, <1>5 DEF Along
  <2>2. b = [s \in SUBSET S |-> b[s]] /\ g = [s \in SUBSET S |-> g[s]]
    OBVIOUS
  <2> HIDE DEF b
  <2>3. g = b
    BY <2>1, <2>2
  <2> QED BY <2>3 DEF b
<1>7. Solves(iter)
  <2> HIDE DEF Solves
  <2> QED BY <1>6
<1>8. \A s \in SUBSET S : iter[s] = IF s = {} THEN <<>> ELSE Adds(Max(s), iter[s \ {Max(s)}])
  <2> HIDE DEF iter
  <2> QED BY <1>7
<1> HIDE DEF iter, Solves
<1>9. Saved(list) = g[S] /\ g[S] \in V /\ S \in SUBSET S
  <2>1. S \in SUBSET S /\ {} \in SUBSET S
    OBVIOUS
  <2>2. iter[{}] = g[{}]
    BY <1>4, <1>8, <2>1 DEF Along
  <2>3. \A s \in SUBSET S :
            s # {} /\ iter[s \ {Max(s)}] = g[s \ {Max(s)}] => iter[s] = g[s]
    BY <1>5, <1>8
  <2>4. \A s \in SUBSET S : iter[s] = g[s]
    <3>1. Alike(iter, g, n)
      BY <2>2, <2>3 DEF Alike, S
    <3>2. n \in Nat
      BY <1>1
    <3> HIDE DEF n
    <3>3. \A s \in SUBSET (1 .. n) : iter[s] = g[s]
      BY <3>1, <3>2, FoldSame
    <3> QED BY <3>3 DEF S
  <2> QED BY <1>2, <2>1, <2>4
<1> DEFINE G == {i \in 0 .. n : \A m \in Message :
                     m \in On(g[1 .. i]) <=> m.turn # 0 /\ \E j \in 1 .. i : m = list[j]}
<1>10. 0 \in G
  <2>1. 1 .. 0 = {} /\ 0 \in 0 .. n
    BY <1>1
  <2>2. g[1 .. 0] = <<>>
    BY <1>4, <2>1 DEF Along
  <2> QED BY <2>1, <2>2, NothingOn
<1>11. ASSUME NEW i \in 0 .. n - 1, i \in G
       PROVE  i + 1 \in G
  <2>1. /\ i + 1 \in S /\ i + 1 \in 0 .. n /\ i \in 0 .. n /\ (i + 1) - 1 = i
        /\ 1 .. i + 1 = (1 .. i) \cup {i + 1} /\ 1 .. i \in SUBSET S
    BY <1>1 DEF S
  <2>2. list[i + 1] \in Message /\ g[1 .. i] \in V
    BY <1>1, <2>1
  <2>3. g[1 .. i + 1] = Adds(i + 1, g[1 .. i])
    <3>1. g[1 .. i + 1] = step[<<i + 1, g[1 .. (i + 1) - 1]>>]
      BY <1>4, <2>1 DEF Along, S
    <3> QED BY <1>3, <2>1, <2>2, <3>1
  <2>4. On(g[1 .. i + 1]) = IF list[i + 1].turn = 0 THEN On(g[1 .. i])
                            ELSE On(g[1 .. i]) \cup {list[i + 1]}
    BY <2>2, <2>3, OnAppend DEF Adds, V
  <2>5. \A m \in Message : m \in On(g[1 .. i]) <=> m.turn # 0 /\ \E j \in 1 .. i : m = list[j]
    BY <1>11
  <2>6. ASSUME NEW m \in Message
        PROVE  m \in On(g[1 .. i + 1]) <=> m.turn # 0 /\ \E j \in 1 .. i + 1 : m = list[j]
    <3>1. (\E j \in 1 .. i + 1 : m = list[j]) <=> m = list[i + 1] \/ \E j \in 1 .. i : m = list[j]
      BY <2>1
    <3> QED BY <2>4, <2>5, <3>1
  <2> QED BY <2>1, <2>6
<1>12. n \in G
  <2>1. n \in Nat /\ n \in 0 .. n
    BY <1>1
  <2> HIDE DEF G, n
  <2> QED BY <1>10, <1>11, <2>1, IntervalInduction
<1> QED BY <1>9, <1>12 DEF V, S, On

LEMMA SettleShape ==
  ASSUME NEW c \in Panel
  PROVE  LET d == Settle(c) IN
             /\ d \in Panel /\ d.list = c.list /\ d.phase = c.phase /\ d.sending = c.sending
             /\ (d.open <=> c.open) /\ (d.loaded <=> c.loaded)
             /\ c.open /\ c.sending = "no" /\ Trailing(c.list) => d.reattaching
<1>1. CASE c.open /\ c.sending = "no" /\ Trailing(c.list)
  <2>1. Settle(c) = [c EXCEPT !.reattaching = TRUE]
    BY <1>1 DEF Settle
  <2> QED BY <2>1 DEF Panel
<1>2. CASE ~(c.open /\ c.sending = "no" /\ Trailing(c.list))
  <2>1. Settle(c) = c
    BY <1>2 DEF Settle
  <2> QED BY <1>2, <2>1
<1> QED BY <1>1, <1>2

LEMMA NoMailEmpty ==
  NoMail \in Mails /\ On(NoMail.list) = {} /\ NoMail.list = <<>> /\ NoMail.phase = 0
BY NothingOn, ChatBounds DEF NoMail, Mails

(* What the panel does while no refresh is on its way.                     *)
LEMMA PanelTurns ==
  ASSUME ChatInv, UNCHANGED <<messages, talkPhase, turnRun>>, refresh' = NoMail,
         cowork' \in Panel, advance' \in Requests, NoSilentTurn', Onward',
         Stays(On(cowork'.list), On(messages)), Stays(On(advance'.mail.list), On(messages)),
         cowork'.loaded => cowork'.open, ~cowork'.loaded => cowork'.sending = "no",
         cowork'.sending = "asking" => Len(turnRun) < MaxTurns,
         cowork'.sending \in {"started", "live"} => turnRun # <<>>
  PROVE  ChatInv'
<1>1. ChatTyped'
  BY NoMailEmpty DEF ChatInv, ChatTyped
<1>2. TurnsServed'
  BY DEF ChatInv, TurnsServed
<1>3. Followed'
  <2>1. Stays(On(refresh'.list), On(messages))
    BY NoMailEmpty, StaysIn
  <2> QED BY <2>1 DEF Followed
<1>4. Attended'
  BY DEF Attended
<1> QED BY <1>1, <1>2, <1>3, <1>4 DEF ChatInv

(* ... with its request left alone, on the phase it had or the one there   *)
(* is now.                                                                 *)
LEMMA PanelOnward ==
  ASSUME ChatInv, UNCHANGED <<talkPhase, advance>>, refresh' = NoMail,
         \/ cowork'.phase = talkPhase
         \/ cowork'.phase = cowork.phase /\ (cowork'.loaded => cowork.loaded)
  PROVE  Onward'
<1>1. talkPhase \in Nat /\ cowork.phase \in Nat
  BY ChatBounds DEF ChatInv, ChatTyped, Panel
<1> QED BY <1>1 DEF ChatInv, Onward

LEMMA PanelBasics ==
  ASSUME ChatInv
  PROVE  /\ cowork \in Panel /\ cowork.list \in Seq(Message) /\ cowork.phase \in 0 .. LastPhase
         /\ refresh \in Mails /\ refresh.list \in Seq(Message) /\ refresh.phase \in 0 .. LastPhase
         /\ advance \in Requests /\ advance.mail.list \in Seq(Message)
         /\ advance.mail.phase \in 0 .. LastPhase /\ advance.to \in 0 .. LastPhase
         /\ messages \in Seq(Message) /\ talkPhase \in 0 .. LastPhase /\ talkPhase \in 1 .. LastPhase
         /\ Len(turnRun) \in Nat /\ Len(turnRun) \in 0 .. MaxTurns
         /\ Stays(On(cowork.list), On(messages)) /\ Stays(On(advance.mail.list), On(messages))
<1>1. cowork \in Panel /\ refresh \in Mails /\ advance \in Requests
  BY DEF ChatInv, ChatTyped
<1>2. advance.mail \in Mails /\ advance.to \in 0 .. LastPhase
  BY <1>1 DEF Requests
<1>3. messages \in Seq(Message) /\ talkPhase \in 0 .. LastPhase /\ talkPhase \in 1 .. LastPhase
  BY ChatBounds DEF ChatInv, ChatTyped
<1>4. Len(turnRun) \in Nat /\ Len(turnRun) \in 0 .. MaxTurns
  BY LenProperties, ChatBounds DEF ChatInv, ChatTyped
<1> QED BY <1>1, <1>2, <1>3, <1>4 DEF Panel, Mails, ChatInv, Followed

StayStep == cowork.loaded /\ cowork'.loaded => Stays(On(cowork.list), On(cowork'.list))

LEMMA AwayShape ==
  Away \in Panel /\ ~Away.loaded /\ Away.list = <<>> /\ Away.phase = 0 /\ Away.sending = "no"
BY EmptySeq, ChatBounds DEF Away, Panel

LEMMA OpenChatInv ==
  ASSUME ChatInv, OpenChat
  PROVE  ChatInv' /\ StayStep
<1> DEFINE c == [Away EXCEPT !.open = TRUE]
<1>1. /\ ~cowork.open /\ cowork' = c /\ UNCHANGED <<messages, talkPhase, turnRun, refresh, advance>>
  BY DEF OpenChat
<1>2. /\ c \in Panel /\ ~c.loaded /\ c.list = <<>> /\ c.phase = 0 /\ c.sending = "no"
  BY AwayShape DEF Panel
<1> HIDE DEF c
<1>3. refresh = NoMail /\ ~cowork.loaded
  BY <1>1 DEF ChatInv, Attended
<1>4. NoSilentTurn'
  BY <1>1, <1>2 DEF NoSilentTurn
<1>5. Onward'
  BY <1>1, <1>2, <1>3, PanelBasics, ChatBounds DEF ChatInv, Onward
<1>6. Stays(On(c.list), On(messages))
  BY <1>2, NothingOn, StaysIn
<1>7. ChatInv'
  BY <1>1, <1>2, <1>3, <1>4, <1>5, <1>6, PanelBasics, PanelTurns
<1> QED BY <1>3, <1>7 DEF StayStep

LEMMA LeaveChatInv ==
  ASSUME ChatInv, LeaveChat
  PROVE  ChatInv' /\ StayStep
<1>1. /\ cowork' = Away /\ refresh' = NoMail /\ UNCHANGED <<messages, talkPhase, turnRun>>
      /\ advance' = IF advance.at = "answered" THEN NoAdvance ELSE [advance EXCEPT !.heard = FALSE]
  BY DEF LeaveChat
<1>2. Away \in Panel /\ ~Away.loaded /\ Away.list = <<>> /\ Away.phase = 0 /\ Away.sending = "no"
  BY AwayShape
<1>3. /\ advance' \in Requests /\ Stays(On(advance'.mail.list), On(messages))
      /\ advance'.at # "answered"
      /\ advance'.at = "asked" => advance.at = "asked" /\ advance'.to = advance.to
  <2>1. CASE advance.at = "answered"
    <3>1. /\ NoAdvance \in Requests /\ NoAdvance.mail = NoMail /\ NoAdvance.at = "none"
      BY NoMailEmpty, ChatBounds DEF NoAdvance, Requests
    <3> QED BY <1>1, <2>1, <3>1, NoMailEmpty, StaysIn
  <2>2. CASE advance.at # "answered"
    <3>1. advance' = [advance EXCEPT !.heard = FALSE]
      BY <1>1, <2>2
    <3>2. advance' \in Requests /\ advance'.mail = advance.mail /\ advance'.at = advance.at
          /\ advance'.to = advance.to
      BY <3>1, PanelBasics DEF Requests
    <3> QED BY <2>2, <3>2, PanelBasics
  <2> QED BY <2>1, <2>2
<1>4. NoSilentTurn'
  BY <1>1, <1>2 DEF NoSilentTurn
<1>5. Onward'
  BY <1>1, <1>2, <1>3, PanelBasics, ChatBounds DEF ChatInv, Onward
<1>6. Stays(On(Away.list), On(messages))
  BY <1>2, NothingOn, StaysIn
<1>7. ChatInv'
  BY <1>1, <1>2, <1>3, <1>4, <1>5, <1>6, PanelTurns
<1> QED BY <1>1, <1>2, <1>7 DEF StayStep

LEMMA LoadedShape ==
  ASSUME ChatInv
  PROVE  /\ Loaded \in Panel /\ Loaded.loaded /\ (Loaded.open <=> cowork.open)
         /\ Loaded.list = messages /\ Loaded.phase = talkPhase
         /\ Loaded.sending = cowork.sending
BY PanelBasics DEF Loaded, Panel

LEMMA AllOfIt ==
  ASSUME NEW A
  PROVE  Stays(A, A)
BY DEF Stays

LEMMA ChatLoadsInv ==
  ASSUME ChatInv, ChatLoads
  PROVE  ChatInv' /\ StayStep
<1>1. /\ cowork.open /\ ~cowork.loaded /\ cowork' = Settle(Loaded)
      /\ UNCHANGED <<messages, talkPhase, turnRun, refresh, advance>>
  BY DEF ChatLoads
<1>2. refresh = NoMail /\ cowork.sending = "no"
  BY <1>1 DEF ChatInv, Attended
<1>3. /\ cowork' \in Panel /\ cowork'.list = messages /\ cowork'.phase = talkPhase
      /\ cowork'.sending = "no" /\ cowork'.open /\ cowork'.loaded
      /\ Trailing(messages) => cowork'.reattaching
  <2>1. PICK c \in Panel :
            /\ c = Loaded /\ c.loaded /\ c.open /\ c.list = messages /\ c.phase = talkPhase
            /\ c.sending = "no"
    BY <1>1, <1>2, LoadedShape
  <2> QED BY <1>1, <2>1, SettleShape
<1>4. NoSilentTurn'
  BY <1>3 DEF NoSilentTurn
<1>5. Onward'
  BY <1>1, <1>2, <1>3, PanelOnward
<1>6. Stays(On(cowork'.list), On(messages))
  BY <1>3, AllOfIt
<1>7. ChatInv'
  BY <1>1, <1>2, <1>3, <1>4, <1>5, <1>6, PanelBasics, PanelTurns
<1> QED BY <1>1, <1>7 DEF StayStep

LEMMA SayInv ==
  ASSUME ChatInv, Say
  PROVE  ChatInv' /\ StayStep
<1> DEFINE list == Append(cowork.list, User(0))
           c == [cowork EXCEPT !.sending = "asking", !.list = list]
<1>1. /\ cowork.loaded /\ cowork.sending = "no" /\ cowork' = c /\ refresh' = NoMail
      /\ Len(turnRun) < MaxTurns
      /\ UNCHANGED <<messages, talkPhase, turnRun, advance>>
  BY DEF Say, DropRefresh
<1>2. list \in Seq(Message) /\ On(list) = On(cowork.list) \cup {User(0)} /\ User(0).turn = 0
  BY PanelBasics, OnAppend, MessagesTyped, ChatBounds
<1> HIDE DEF list
<1>3. /\ c \in Panel /\ c.list = list /\ c.phase = cowork.phase /\ c.sending = "asking"
      /\ (c.open <=> cowork.open) /\ (c.loaded <=> cowork.loaded)
  BY <1>2, PanelBasics DEF Panel
<1> HIDE DEF c
<1>4. NoSilentTurn'
  BY <1>1, <1>3 DEF NoSilentTurn
<1>5. Onward'
  BY <1>1, <1>3, PanelOnward
<1>6. Stays(On(c.list), On(messages))
  BY <1>2, <1>3, PanelBasics DEF Stays
<1>7. ChatInv'
  BY <1>1, <1>3, <1>4, <1>5, <1>6, PanelBasics, PanelTurns DEF ChatInv, Attended
<1> QED BY <1>1, <1>2, <1>3, <1>7, StaysIn DEF StayStep

(* The server adds to the conversation, or fills a message.                *)
LEMMA ServerTurns ==
  ASSUME ChatInv, UNCHANGED <<talkPhase, refresh, advance>>,
         messages' \in Seq(Message), turnRun' \in Seq({"open", "ended", "reaped", "refused"}),
         Len(turnRun') <= MaxTurns, TurnsServed', Stays(On(messages), On(messages')),
         cowork' \in Panel, cowork'.list = cowork.list, cowork'.phase = cowork.phase,
         cowork'.open <=> cowork.open, cowork'.loaded <=> cowork.loaded, Attended', NoSilentTurn'
  PROVE  ChatInv' /\ StayStep
<1>1. ChatTyped' /\ Onward'
  BY DEF ChatInv, ChatTyped, Onward
<1>2. Followed'
  <2>1. /\ On(messages) \in SUBSET Message /\ On(messages') \in SUBSET Message
        /\ On(cowork.list) \in SUBSET Message /\ On(refresh.list) \in SUBSET Message
        /\ On(advance.mail.list) \in SUBSET Message
    BY PanelBasics, OnMessages
  <2>2. /\ Stays(On(cowork.list), On(messages')) /\ Stays(On(refresh.list), On(messages'))
        /\ Stays(On(advance.mail.list), On(messages'))
    BY <2>1, StaysOn DEF ChatInv, Followed
  <2> QED BY <2>2 DEF ChatInv, Followed
<1> QED BY <1>1, <1>2, AllOfIt DEF ChatInv, StayStep

LEMMA SayStartedInv ==
  ASSUME ChatInv, Say_Started
  PROVE  ChatInv' /\ StayStep
<1> DEFINE k == Len(turnRun) + 1
           c == [cowork EXCEPT !.sending = "started"]
<1>1. /\ cowork.sending = "asking" /\ cowork' = c /\ UNCHANGED <<talkPhase, refresh, advance>>
      /\ \/ /\ messages' = messages \o <<User(k), Placeholder(k)>>
            /\ turnRun' = Append(turnRun, "open")
         \/ /\ messages' = Append(messages, User(k))
            /\ turnRun' = Append(turnRun, "refused")
  BY DEF Say_Started
<1>2. /\ c \in Panel /\ c.list = cowork.list /\ c.phase = cowork.phase /\ c.sending = "started"
      /\ (c.open <=> cowork.open) /\ (c.loaded <=> cowork.loaded)
  BY PanelBasics DEF Panel
<1> HIDE DEF c
<1>3. /\ Len(turnRun) \in Nat /\ Len(turnRun) < MaxTurns /\ k \in 1 .. MaxTurns
      /\ turnRun \in Seq({"open", "ended", "reaped", "refused"}) /\ MaxTurns \in Nat
  BY <1>1, PanelBasics, ChatBounds DEF ChatInv, Attended, ChatTyped
<1>4. /\ turnRun' \in Seq({"open", "ended", "reaped", "refused"}) /\ Len(turnRun') = k
      /\ turnRun' # <<>>
  <2>1. PICK s \in {"open", "refused"} : turnRun' = Append(turnRun, s)
    BY <1>1
  <2>2. /\ Append(turnRun, s) \in Seq({"open", "ended", "reaped", "refused"})
        /\ Len(Append(turnRun, s)) = k
    BY <1>3, AppendProperties
  <2>3. Len(<<>>) = 0 /\ k # 0
    BY <1>3, EmptySeq
  <2> QED BY <2>1, <2>2, <2>3
<1>5. /\ User(k) \in Message /\ User(k).turn = k
      /\ Placeholder(k) \in Message /\ Placeholder(k).turn = k
  BY <1>3, MessagesTyped
<1> HIDE DEF k
<1>6. /\ messages' \in Seq(Message)
      /\ \/ On(messages') = On(messages) \cup {User(k)}
         \/ On(messages') = On(messages) \cup {User(k), Placeholder(k)}
  <2>1. CASE messages' = Append(messages, User(k))
    BY <1>5, <2>1, PanelBasics, OnAppend
  <2>2. CASE messages' = messages \o <<User(k), Placeholder(k)>>
    <3> DEFINE u == Append(messages, User(k))
    <3>1. u \in Seq(Message) /\ On(u) = On(messages) \cup {User(k)}
      BY <1>5, PanelBasics, OnAppend
    <3>2. messages' = Append(u, Placeholder(k))
      BY <1>5, <2>2, PanelBasics, AppendTwice
    <3> HIDE DEF u
    <3>3. /\ messages' \in Seq(Message)
          /\ On(messages') = On(u) \cup {Placeholder(k)}
      BY <1>5, <3>1, <3>2, OnAppend
    <3> QED BY <3>1, <3>3
  <2> QED BY <1>1, <2>1, <2>2
<1>7. Stays(On(messages), On(messages'))
  BY <1>6, StaysIn
<1>8. TurnsServed'
  <2>1. ASSUME NEW m \in On(messages')
        PROVE  m.turn \in 1 .. Len(turnRun')
    <3>1. m \in On(messages) => m.turn \in 1 .. Len(turnRun)
      BY DEF ChatInv, TurnsServed
    <3>2. k = Len(turnRun) + 1
      BY DEF k
    <3> QED BY <1>3, <1>4, <1>5, <1>6, <2>1, <3>1, <3>2
  <2>2. ASSUME NEW j \in 1 .. Len(turnRun')
        PROVE  User(j) \in On(messages')
    <3>1. j \in 1 .. Len(turnRun) \/ j = k
      BY <1>3, <1>4 DEF k
    <3> QED BY <1>6, <3>1 DEF ChatInv, TurnsServed
  <2> QED BY <2>1, <2>2 DEF TurnsServed
<1>9. NoSilentTurn'
  BY <1>1, <1>2 DEF NoSilentTurn
<1>10. Attended'
  BY <1>1, <1>2, <1>4 DEF Attended, ChatInv
<1>11. Len(turnRun') <= MaxTurns
  BY <1>3, <1>4
<1> QED BY <1>1, <1>2, <1>4, <1>6, <1>7, <1>8, <1>9, <1>10, <1>11, ServerTurns

LEMMA UserFilled ==
  ASSUME NEW k \in 0 .. MaxTurns
  PROVE  [User(k) EXCEPT !.filled = TRUE] = User(k)
<1>1. User(k) \in Message /\ User(k).filled = TRUE
  BY DEF User, Message
<1>2. \A m \in Message : m.filled = TRUE => [m EXCEPT !.filled = TRUE] = m
  BY DEF Message
<1> QED BY <1>1, <1>2

LEMMA TurnEndsInv ==
  ASSUME ChatInv, NEW k \in 1 .. Len(turnRun), TurnEnds(k)
  PROVE  ChatInv' /\ StayStep
<1>1. /\ UNCHANGED <<talkPhase, cowork, refresh, advance>>
      /\ \/ turnRun' = [turnRun EXCEPT ![k] = "ended"] /\ messages' = Fill(k)
         \/ turnRun' = [turnRun EXCEPT ![k] = "reaped"] /\ UNCHANGED messages
  BY DEF TurnEnds
<1>2. /\ turnRun \in Seq({"open", "ended", "reaped", "refused"}) /\ Len(turnRun) <= MaxTurns
      /\ Len(turnRun) \in Nat
  BY PanelBasics DEF ChatInv, ChatTyped
<1>3. /\ turnRun' \in Seq({"open", "ended", "reaped", "refused"}) /\ Len(turnRun') = Len(turnRun)
      /\ turnRun' = <<>> => turnRun = <<>>
  <2>1. PICK s \in {"ended", "reaped"} : turnRun' = [turnRun EXCEPT ![k] = s]
    BY <1>1
  <2>2. /\ turnRun' \in Seq({"open", "ended", "reaped", "refused"})
        /\ Len(turnRun') = Len(turnRun)
    BY <1>2, <2>1, ExceptSeq
  <2>3. turnRun' = <<>> => Len(turnRun) = 0
    BY <2>2, EmptySeq
  <2> QED BY <1>2, <2>2, <2>3
<1>4. /\ messages' \in Seq(Message) /\ Len(messages') = Len(messages)
      /\ \A i \in 1 .. Len(messages) :
             \/ messages'[i] = messages[i]
             \/ messages[i].turn = k /\ messages'[i] = [messages[i] EXCEPT !.filled = TRUE]
  <2>1. CASE UNCHANGED messages
    BY <2>1, PanelBasics
  <2>2. CASE messages' = Fill(k)
    <3> DEFINE n == Len(messages)
               at == [i \in 1 .. n |-> IF messages[i].turn = k
                                       THEN [messages[i] EXCEPT !.filled = TRUE] ELSE messages[i]]
    <3>1. n \in Nat /\ \A i \in 1 .. n : messages[i] \in Message
      BY PanelBasics, LenProperties, ElementOfSeq
    <3>2. messages' = at
      BY <2>2 DEF Fill
    <3>3. \A i \in 1 .. n : at[i] \in Message
      BY <3>1, Filled
    <3>4. DOMAIN at = 1 .. n /\ at = [i \in 1 .. n |-> at[i]]
      OBVIOUS
    <3>5. \A i \in 1 .. n : at[i] = IF messages[i].turn = k
                                    THEN [messages[i] EXCEPT !.filled = TRUE] ELSE messages[i]
      OBVIOUS
    <3> HIDE DEF at, n
    <3>6. at \in Seq(Message) /\ Len(at) = n
      BY <3>1, <3>3, <3>4
    <3> QED BY <3>2, <3>5, <3>6 DEF n
  <2> QED BY <1>1, <2>1, <2>2
<1>5. Stays(On(messages), On(messages'))
  BY <1>4 DEF Stays, On
<1>6. \A i \in 1 .. Len(messages) : messages[i] \in Message /\ messages'[i].turn = messages[i].turn
  <2>1. ASSUME NEW i \in 1 .. Len(messages)
        PROVE  messages[i] \in Message /\ messages'[i].turn = messages[i].turn
    <3>1. messages[i] \in Message
      BY PanelBasics, ElementOfSeq
    <3> QED BY <1>4, <3>1, Filled
  <2> QED BY <2>1
<1>7. TurnsServed'
  <2>1. ASSUME NEW i \in 1 .. Len(messages)
        PROVE  messages'[i].turn \in 1 .. Len(turnRun')
    <3>1. messages[i].turn \in 1 .. Len(turnRun)
      BY DEF ChatInv, TurnsServed, On
    <3> QED BY <1>3, <1>6, <3>1
  <2>2. ASSUME NEW j \in 1 .. Len(turnRun)
        PROVE  User(j) \in On(messages')
    <3>1. User(j) \in On(messages) /\ j \in 0 .. MaxTurns
      BY <1>2, ChatBounds DEF ChatInv, TurnsServed
    <3>2. [User(j) EXCEPT !.filled = TRUE] = User(j)
      BY <3>1, UserFilled
    <3>3. User(j).turn # 0
      BY <3>1, MessagesTyped
    <3> QED BY <1>5, <3>1, <3>2, <3>3 DEF Stays
  <2> QED BY <1>3, <1>4, <2>1, <2>2 DEF TurnsServed, On
<1>8. Attended' /\ NoSilentTurn'
  BY <1>1, <1>3 DEF ChatInv, Attended, NoSilentTurn
<1> QED BY <1>1, <1>2, <1>3, <1>4, <1>5, <1>7, <1>8, PanelBasics, ServerTurns

LEMMA SavedStays ==
  ASSUME NEW list \in Seq(Message)
  PROVE  /\ Saved(list) \in Seq(Message) /\ Stays(On(list), On(Saved(list)))
         /\ \A m \in On(Saved(list)) : m \in On(list)
<1>1. On(list) \in SUBSET Message /\ On(Saved(list)) \in SUBSET Message
  BY SavedShows, OnMessages
<1> QED BY <1>1, SavedShows DEF Stays

LEMMA SaySavedInv ==
  ASSUME ChatInv, Say_Saved
  PROVE  ChatInv' /\ StayStep
<1> DEFINE k == Len(turnRun)
           kept == Saved(cowork.list)
           list == Append(kept, User(k))
           c == [cowork EXCEPT !.sending = "live", !.list = list]
<1>1. /\ cowork.sending = "started" /\ cowork' = c
      /\ UNCHANGED <<messages, talkPhase, turnRun, refresh, advance>>
  BY DEF Say_Saved
<1>2. /\ kept \in Seq(Message) /\ Stays(On(cowork.list), On(kept))
      /\ \A m \in On(kept) : m \in On(cowork.list)
  BY PanelBasics, SavedStays
<1>3. refresh = NoMail /\ turnRun # <<>> /\ cowork.loaded
  BY <1>1 DEF ChatInv, Attended
<1>4. k \in 1 .. Len(turnRun) /\ k \in 0 .. MaxTurns
  <2>1. Len(turnRun) # 0
    BY <1>3, EmptySeq DEF ChatInv, ChatTyped
  <2> QED BY <2>1, PanelBasics
<1>5. User(k) \in Message /\ User(k) \in On(messages)
  BY <1>4, MessagesTyped DEF ChatInv, TurnsServed
<1> HIDE DEF k, kept
<1>6. list \in Seq(Message) /\ On(list) = On(kept) \cup {User(k)}
  BY <1>2, <1>5, OnAppend
<1> HIDE DEF list
<1>7. /\ c \in Panel /\ c.list = list /\ c.phase = cowork.phase /\ c.sending = "live"
      /\ (c.open <=> cowork.open) /\ (c.loaded <=> cowork.loaded)
  BY <1>6, PanelBasics DEF Panel
<1> HIDE DEF c
<1>8. NoSilentTurn'
  BY <1>1, <1>7 DEF NoSilentTurn
<1>9. Onward'
  BY <1>1, <1>3, <1>7, PanelOnward
<1>10. Stays(On(c.list), On(messages)) /\ Stays(On(cowork.list), On(c.list))
  BY <1>2, <1>5, <1>6, <1>7, PanelBasics DEF Stays
<1>11. ChatInv'
  BY <1>1, <1>3, <1>7, <1>8, <1>9, <1>10, PanelBasics, PanelTurns DEF ChatInv, Attended
<1> QED BY <1>1, <1>10, <1>11 DEF StayStep

LEMMA SayEndsInv ==
  ASSUME ChatInv, Say_Ends
  PROVE  ChatInv' /\ StayStep
<1> DEFINE c == [Loaded EXCEPT !.sending = "no"]
<1>1. /\ cowork.sending \in {"live", "started"} /\ cowork' = Settle(c) /\ refresh' = NoMail
      /\ UNCHANGED <<messages, talkPhase, turnRun, advance>>
  BY DEF Say_Ends, DropRefresh
<1>2. /\ c \in Panel /\ c.list = messages /\ c.phase = talkPhase /\ c.sending = "no"
      /\ (c.open <=> cowork.open) /\ c.loaded
  <2>1. PICK l \in Panel : /\ l = Loaded /\ l.loaded /\ (l.open <=> cowork.open)
                           /\ l.list = messages /\ l.phase = talkPhase
    BY LoadedShape
  <2>2. c = [l EXCEPT !.sending = "no"]
    BY <2>1
  <2> HIDE DEF c
  <2> QED BY <2>1, <2>2 DEF Panel
<1>3. cowork.loaded /\ cowork.open
  BY <1>1 DEF ChatInv, Attended
<1> HIDE DEF c
<1>4. /\ cowork' \in Panel /\ cowork'.list = messages /\ cowork'.phase = talkPhase
      /\ cowork'.sending = "no" /\ cowork'.open /\ cowork'.loaded
      /\ Trailing(messages) => cowork'.reattaching
  BY <1>1, <1>2, <1>3, SettleShape
<1>5. NoSilentTurn'
  BY <1>4 DEF NoSilentTurn
<1>6. Onward'
  BY <1>1, <1>4, PanelOnward
<1>7. Stays(On(cowork'.list), On(messages)) /\ Stays(On(cowork.list), On(cowork'.list))
  BY <1>4, AllOfIt, PanelBasics
<1>8. ChatInv'
  BY <1>1, <1>4, <1>5, <1>6, <1>7, PanelBasics, PanelTurns
<1> QED BY <1>7, <1>8 DEF StayStep

LEMMA SayBreaksInv ==
  ASSUME ChatInv, Say_Breaks
  PROVE  ChatInv' /\ StayStep
<1> DEFINE kept == Saved(cowork.list)
           c == [cowork EXCEPT !.sending = "no", !.list = kept]
<1>1. /\ cowork.sending # "no" /\ cowork' = Settle(c) /\ refresh' = NoMail
      /\ UNCHANGED <<messages, talkPhase, turnRun, advance>>
  BY DEF Say_Breaks, DropRefresh
<1>2. /\ kept \in Seq(Message) /\ Stays(On(cowork.list), On(kept))
      /\ \A m \in On(kept) : m \in On(cowork.list)
  BY PanelBasics, SavedStays
<1> HIDE DEF kept
<1>3. /\ c \in Panel /\ c.list = kept /\ c.phase = cowork.phase /\ c.sending = "no"
      /\ (c.open <=> cowork.open) /\ (c.loaded <=> cowork.loaded)
  BY <1>2, PanelBasics DEF Panel
<1>4. cowork.loaded /\ cowork.open
  BY <1>1 DEF ChatInv, Attended
<1> HIDE DEF c
<1>5. /\ cowork' \in Panel /\ cowork'.list = kept /\ cowork'.phase = cowork.phase
      /\ cowork'.sending = "no" /\ cowork'.open /\ cowork'.loaded
      /\ Trailing(kept) => cowork'.reattaching
  BY <1>1, <1>3, <1>4, SettleShape
<1>6. NoSilentTurn'
  BY <1>5 DEF NoSilentTurn
<1>7. Onward'
  BY <1>1, <1>4, <1>5, PanelOnward
<1>8. Stays(On(cowork'.list), On(messages)) /\ Stays(On(cowork.list), On(cowork'.list))
  BY <1>2, <1>5, PanelBasics DEF Stays
<1>9. ChatInv'
  BY <1>1, <1>5, <1>6, <1>7, <1>8, PanelBasics, PanelTurns
<1> QED BY <1>8, <1>9 DEF StayStep

LEMMA AskRefreshInv ==
  ASSUME ChatInv, AskRefresh
  PROVE  ChatInv' /\ StayStep
<1>1. /\ cowork.loaded /\ cowork.sending = "no" /\ refresh' = Mail
      /\ UNCHANGED <<messages, talkPhase, turnRun, cowork, advance>>
  BY DEF AskRefresh
<1>2. Mail \in Mails /\ Mail.list = messages /\ Mail.phase = talkPhase
  BY PanelBasics DEF Mail, Mails
<1>3. ChatTyped' /\ TurnsServed' /\ NoSilentTurn' /\ Attended'
  BY <1>1, <1>2 DEF ChatInv, ChatTyped, TurnsServed, NoSilentTurn, Attended
<1>4. Followed'
  BY <1>1, <1>2, AllOfIt DEF ChatInv, Followed
<1>5. Onward'
  BY <1>1, <1>2, PanelBasics DEF ChatInv, Onward
<1> QED BY <1>1, <1>3, <1>4, <1>5, AllOfIt DEF ChatInv, StayStep

(* An answer is put on the panel.                                          *)
LEMMA AnswerShape ==
  ASSUME ChatInv, cowork.loaded, NEW mail \in Mails,
         cowork' = Settle([cowork EXCEPT !.list = mail.list, !.phase = mail.phase])
  PROVE  /\ cowork' \in Panel /\ cowork'.list = mail.list /\ cowork'.phase = mail.phase
         /\ cowork'.sending = cowork.sending /\ cowork'.open /\ cowork'.loaded
         /\ NoSilentTurn'
<1> DEFINE c == [cowork EXCEPT !.list = mail.list, !.phase = mail.phase]
<1>1. mail.list \in Seq(Message) /\ mail.phase \in 0 .. LastPhase
  BY DEF Mails
<1>2. /\ c \in Panel /\ c.list = mail.list /\ c.phase = mail.phase /\ c.sending = cowork.sending
      /\ (c.open <=> cowork.open) /\ (c.loaded <=> cowork.loaded)
  BY <1>1, PanelBasics DEF Panel
<1>3. cowork.open
  BY DEF ChatInv, Attended
<1>4. cowork' = Settle(c)
  OBVIOUS
<1> HIDE DEF c
<1>5. /\ cowork' \in Panel /\ cowork'.list = mail.list /\ cowork'.phase = mail.phase
      /\ cowork'.sending = cowork.sending /\ cowork'.open /\ cowork'.loaded
      /\ cowork'.sending = "no" /\ Trailing(mail.list) => cowork'.reattaching
  BY <1>2, <1>3, <1>4, SettleShape
<1> QED BY <1>5 DEF NoSilentTurn

LEMMA RefreshArrivesInv ==
  ASSUME ChatInv, RefreshArrives
  PROVE  ChatInv' /\ StayStep
<1>1. /\ cowork.loaded /\ refresh # NoMail /\ refresh' = NoMail
      /\ cowork' = Settle([cowork EXCEPT !.list = refresh.list, !.phase = refresh.phase])
      /\ UNCHANGED <<messages, talkPhase, turnRun, advance>>
  BY DEF RefreshArrives
<1>2. /\ cowork' \in Panel /\ cowork'.list = refresh.list /\ cowork'.phase = refresh.phase
      /\ cowork'.sending = cowork.sending /\ cowork'.open /\ cowork'.loaded /\ NoSilentTurn'
  BY <1>1, PanelBasics, AnswerShape
<1>3. Onward'
  BY <1>1, <1>2, PanelBasics DEF ChatInv, Onward
<1>4. Stays(On(cowork'.list), On(messages)) /\ Stays(On(cowork.list), On(cowork'.list))
  BY <1>1, <1>2 DEF ChatInv, Followed
<1>5. ChatInv'
  BY <1>1, <1>2, <1>3, <1>4, PanelBasics, PanelTurns DEF ChatInv, Attended
<1> QED BY <1>4, <1>5 DEF StayStep

LEMMA AdvanceArrivesInv ==
  ASSUME ChatInv, AdvanceArrives
  PROVE  ChatInv'
<1>1. /\ advance.at = "answered" /\ cowork.loaded /\ refresh' = NoMail /\ advance' = NoAdvance
      /\ cowork' = Settle([cowork EXCEPT !.list = advance.mail.list, !.phase = advance.mail.phase])
      /\ UNCHANGED <<messages, talkPhase, turnRun>>
  BY DEF AdvanceArrives, DropRefresh
<1>2. advance.mail \in Mails /\ advance.mail.phase = talkPhase
  BY <1>1, PanelBasics DEF Requests, ChatInv, Onward
<1>3. /\ cowork' \in Panel /\ cowork'.list = advance.mail.list /\ cowork'.phase = talkPhase
      /\ cowork'.sending = cowork.sending /\ cowork'.open /\ cowork'.loaded /\ NoSilentTurn'
  BY <1>1, <1>2, AnswerShape
<1>4. /\ NoAdvance \in Requests /\ NoAdvance.mail = NoMail /\ NoAdvance.at = "none"
  BY NoMailEmpty, ChatBounds DEF NoAdvance, Requests
<1>5. Onward'
  BY <1>1, <1>3, <1>4, PanelBasics DEF Onward
<1>6. Stays(On(cowork'.list), On(messages))
  BY <1>3, PanelBasics
<1>7. Stays(On(advance'.mail.list), On(messages))
  BY <1>1, <1>4, NoMailEmpty, StaysIn
<1> QED BY <1>1, <1>3, <1>4, <1>5, <1>6, <1>7, PanelTurns DEF ChatInv, Attended

(* The request of the next phase: asked for, and served.                   *)
LEMMA RequestInv ==
  ASSUME ChatInv, UNCHANGED <<messages, turnRun, cowork, refresh>>,
         talkPhase' \in 1 .. LastPhase, advance' \in Requests,
         Stays(On(advance'.mail.list), On(messages)), Onward'
  PROVE  ChatInv' /\ StayStep
<1>1. ChatTyped' /\ TurnsServed' /\ Attended' /\ NoSilentTurn' /\ Followed'
  BY DEF ChatInv, ChatTyped, TurnsServed, Attended, NoSilentTurn, Followed
<1> QED BY <1>1, AllOfIt DEF ChatInv, StayStep

LEMMA ClickAdvanceInv ==
  ASSUME ChatInv, ClickAdvance
  PROVE  ChatInv' /\ StayStep
<1> DEFINE to == cowork.phase + 1
           a == [NoAdvance EXCEPT !.at = "asked", !.heard = TRUE, !.to = to]
<1>1. /\ cowork.loaded /\ advance.at = "none" /\ cowork.phase < LastPhase /\ advance' = a
      /\ UNCHANGED <<messages, talkPhase, turnRun, cowork, refresh>>
  BY DEF ClickAdvance
<1>2. to \in 0 .. LastPhase /\ to \in talkPhase .. talkPhase + 1
  <2>1. cowork.phase \in 0 .. LastPhase /\ talkPhase \in 0 .. LastPhase /\ LastPhase \in Nat
    BY PanelBasics, ChatBounds
  <2>2. cowork.phase <= talkPhase /\ talkPhase <= cowork.phase + 1
    BY <1>1 DEF ChatInv, Onward
  <2> QED BY <1>1, <2>1, <2>2
<1> HIDE DEF to
<1>3. a \in Requests /\ a.mail = NoMail /\ a.at = "asked" /\ a.heard /\ a.to = to
  <2>1. NoAdvance \in Requests /\ NoAdvance.mail = NoMail
    BY NoMailEmpty, ChatBounds DEF NoAdvance, Requests
  <2> HIDE DEF NoAdvance
  <2> QED BY <1>2, <2>1 DEF Requests
<1> HIDE DEF a
<1>4. Stays(On(advance'.mail.list), On(messages))
  BY <1>1, <1>3, NoMailEmpty, StaysIn
<1>5. Onward'
  BY <1>1, <1>2, <1>3 DEF ChatInv, Onward
<1> QED BY <1>1, <1>3, <1>4, <1>5, PanelBasics, RequestInv

LEMMA SetPhaseInv ==
  ASSUME ChatInv, SetPhase
  PROVE  ChatInv' /\ StayStep /\ talkPhase' >= talkPhase
<1> DEFINE mail == [list |-> messages, phase |-> advance.to]
<1>1. /\ advance.at = "asked" /\ talkPhase' = advance.to
      /\ advance' = IF advance.heard THEN [advance EXCEPT !.at = "answered", !.mail = mail]
                    ELSE NoAdvance
      /\ UNCHANGED <<messages, turnRun, cowork, refresh>>
  BY DEF SetPhase
<1>2. /\ advance.to \in 0 .. LastPhase /\ talkPhase \in 1 .. LastPhase /\ LastPhase \in Nat
      /\ advance.to \in talkPhase .. talkPhase + 1
      /\ cowork.phase \in 0 .. LastPhase /\ cowork.phase <= talkPhase
      /\ refresh.phase \in 0 .. LastPhase
      /\ refresh # NoMail => refresh.phase \in cowork.phase .. talkPhase
      /\ ~advance.heard /\ cowork.loaded => cowork.phase = talkPhase
  BY <1>1, PanelBasics, ChatBounds DEF ChatInv, Onward
<1>3. talkPhase' \in 1 .. LastPhase /\ talkPhase' >= talkPhase
  BY <1>1, <1>2
<1>4. mail \in Mails /\ mail.list = messages /\ mail.phase = advance.to
  BY <1>2, PanelBasics DEF Mails
<1> HIDE DEF mail
<1>5. CASE advance.heard
  <2>1. advance' = [advance EXCEPT !.at = "answered", !.mail = mail]
    BY <1>1, <1>5
  <2>2. advance' \in Requests /\ advance'.at = "answered" /\ advance'.mail = mail
    BY <1>4, <2>1, PanelBasics DEF Requests
  <2>3. Onward'
    BY <1>1, <1>2, <1>3, <1>4, <2>2 DEF Onward
  <2>4. Stays(On(advance'.mail.list), On(messages))
    BY <1>4, <2>2, AllOfIt
  <2> QED BY <1>1, <1>3, <2>2, <2>3, <2>4, RequestInv
<1>6. CASE ~advance.heard
  <2>1. advance' = NoAdvance
    BY <1>1, <1>6
  <2>2. /\ NoAdvance \in Requests /\ NoAdvance.mail = NoMail /\ NoAdvance.at = "none"
    BY NoMailEmpty, ChatBounds DEF NoAdvance, Requests
  <2>3. Onward'
    BY <1>1, <1>2, <1>3, <1>6, <2>1, <2>2 DEF Onward
  <2>4. Stays(On(advance'.mail.list), On(messages))
    BY <2>1, <2>2, NoMailEmpty, StaysIn
  <2> QED BY <1>1, <1>3, <2>1, <2>2, <2>3, <2>4, RequestInv
<1> QED BY <1>5, <1>6

LEMMA ChatInitInv ==
  ASSUME ChatInit
  PROVE  ChatInv
<1>1. /\ messages = <<>> /\ talkPhase = 1 /\ turnRun = <<>> /\ cowork = Away /\ refresh = NoMail
      /\ advance = NoAdvance
  BY DEF ChatInit
<1>2. /\ NoAdvance \in Requests /\ NoAdvance.mail = NoMail /\ NoAdvance.at = "none"
  BY NoMailEmpty, ChatBounds DEF NoAdvance, Requests
<1>3. 1 \in 1 .. LastPhase /\ MaxTurns \in Nat /\ LastPhase \in Nat
  BY ChatBounds
<1>4. Len(turnRun) = 0 /\ turnRun \in Seq({"open", "ended", "reaped", "refused"})
  BY <1>1, EmptySeq
<1>5. ChatTyped
  BY <1>1, <1>2, <1>3, <1>4, AwayShape, NoMailEmpty, NothingOn DEF ChatTyped
<1>6. TurnsServed
  BY <1>1, <1>4, NothingOn DEF TurnsServed
<1>7. Followed
  BY <1>1, <1>2, AwayShape, NoMailEmpty, NothingOn DEF Followed, Stays
<1>8. Attended /\ NoSilentTurn
  BY <1>1, AwayShape DEF Attended, NoSilentTurn
<1>9. Onward
  BY <1>1, <1>2, AwayShape DEF Onward
<1> QED BY <1>5, <1>6, <1>7, <1>8, <1>9 DEF ChatInv

LEMMA ChatStepInv ==
  ASSUME ChatInv, [ChatNext]_chatVars
  PROVE  ChatInv' /\ (~AdvanceArrives => StayStep) /\ talkPhase' >= talkPhase
<1>1. CASE ChatNext
  <2>1. ChatInv' /\ (~AdvanceArrives => StayStep)
    BY <1>1, OpenChatInv, LeaveChatInv, ChatLoadsInv, SayInv, SayStartedInv, SaySavedInv,
       SayEndsInv, SayBreaksInv, AskRefreshInv, RefreshArrivesInv, ClickAdvanceInv, SetPhaseInv,
       AdvanceArrivesInv, TurnEndsInv DEF ChatNext
  <2>2. SetPhase \/ UNCHANGED talkPhase
    BY <1>1 DEF ChatNext, OpenChat, LeaveChat, ChatLoads, Say, Say_Started, Say_Saved, Say_Ends,
       Say_Breaks, AskRefresh, RefreshArrives, ClickAdvance, AdvanceArrives, TurnEnds
  <2>3. talkPhase \in Nat
    BY PanelBasics, ChatBounds
  <2> QED BY <2>1, <2>2, <2>3, SetPhaseInv
<1>2. CASE UNCHANGED chatVars
  <2>1. UNCHANGED <<messages, talkPhase, turnRun, cowork, refresh, advance>>
    BY <1>2 DEF chatVars
  <2>2. talkPhase' \in 1 .. LastPhase /\ talkPhase \in Nat
    BY <2>1, PanelBasics, ChatBounds
  <2>3. Onward'
    BY <2>1 DEF ChatInv, Onward
  <2> QED BY <2>1, <2>2, <2>3, PanelBasics, RequestInv
<1> QED BY <1>1, <1>2

(* The invariant of the chat, for any number of turns and phases.          *)
THEOREM ChatInductive == ChatSpec => []ChatInv
<1>1. ChatInit => ChatInv
  BY ChatInitInv
<1>2. ChatInv /\ [ChatNext]_chatVars => ChatInv'
  BY ChatStepInv
<1> QED BY <1>1, <1>2, PTL DEF ChatSpec

LEMMA ChatHolds ==
  ASSUME ChatInv
  PROVE  ChatTypeOK /\ NoSilentTurn
<1>1. ASSUME NEW m \in ShownMessages(cowork)
      PROVE  m.turn \in 0 .. Len(turnRun)
  <2>1. m \in On(cowork.list) /\ m \in Message
    BY PanelBasics, ElementOfSeq DEF ShownMessages, On
  <2> DEFINE f == [m EXCEPT !.filled = TRUE]
  <2>2. f.turn = m.turn
    BY <2>1, Filled
  <2>3. m.turn = 0 \/ m \in On(messages) \/ f \in On(messages)
    BY <2>1, PanelBasics DEF Stays
  <2> HIDE DEF f
  <2> QED BY <2>2, <2>3, PanelBasics DEF ChatInv, TurnsServed
<1> QED BY <1>1 DEF ChatInv, ChatTyped, Panel, Attended, ChatTypeOK

(* CoworkerChat follows the conversation, whichever of its four answers    *)
(* comes first and however a turn ends: it hides no turn, it forgets no    *)
(* message but at the answer to a change of phase, and the conversation    *)
(* never goes back to an earlier phase.                                    *)
THEOREM ChatIsFaithful == ChatSpec => ChatFaithful
<1>1. ChatInv /\ [ChatNext]_chatVars =>
          [cowork.loaded /\ cowork'.loaded /\ ~AdvanceArrives =>
               \A m \in ShownMessages(cowork) :
                   m.turn = 0 \/ m \in ShownMessages(cowork')
                   \/ [m EXCEPT !.filled = TRUE] \in ShownMessages(cowork')]_chatVars
  BY ChatStepInv DEF StayStep, Stays, On, ShownMessages
<1>2. ChatInv /\ [ChatNext]_chatVars => [talkPhase' >= talkPhase]_chatVars
  BY ChatStepInv
<1>3. ChatInv => ChatTypeOK /\ NoSilentTurn
  BY ChatHolds
<1> QED BY <1>1, <1>2, <1>3, ChatInductive, PTL DEF ChatSpec, ChatFaithful, NeverForgets, PhaseOnward
====
