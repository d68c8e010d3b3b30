---- MODULE MCOffice ----
(***************************************************************************)
(* The office around the code: one desk of it is observed at a time, with  *)
(* the small instance that makes its interleavings happen, while the other *)
(* desks are closed.  What two desks have in common (the life of the       *)
(* quote, the sessions of the shell) goes on at each of them.              *)
(***************************************************************************)
EXTENDS Scope, Registry, Devices, Scaffold, Design, Chat

CONSTANT Desks

VARIABLE desk

others == <<desk>>

(* Prices are for the first of these desks: where items are moved they are *)
(* free.                                                                   *)
QuoteDesk ==
    /\ \/ desk = "price" /\ (ItemNext \/ PaletteNext \/ HandNext \/ LifeNext)
       \/ desk = "stage" /\ (MilestoneNext \/ LifeNext)
       \/ desk = "place" /\ (ItemNext \/ MoveNext \/ LifeNext) /\ \A i \in Items : items'[i].cents = 0
    /\ UNCHANGED <<scopeVars, registryVars, deviceVars, scaffoldVars, designVars, chatVars>>

ScopeDesk ==
    /\ \/ desk = "kit" /\ (KitNext \/ (LifeNext /\ UNCHANGED scopeVars))
       \/ desk = "talk" /\ (TalkNext \/ (LifeNext /\ UNCHANGED scopeVars))
    /\ UNCHANGED <<registryVars, deviceVars, scaffoldVars, designVars, chatVars>>

(* One name is enough for a secret, two for a connection.                  *)
RegistryDesk ==
    /\ \/ desk = "files" /\ (ShellNext \/ FileNext \/ LedgerNext)
       \/ desk = "wires" /\ (ShellNext \/ FileNext \/ ConnNext)
       \/ desk = "keys" /\ (ShellNext \/ FileNext \/ SecretNext({CHOOSE n \in Names : TRUE})
                              \/ \E k \in Conns : DeleteConn(k))
       \/ desk = "inbox" /\ (ShellNext \/ InboxNext)
    /\ UNCHANGED <<quoteVars, scopeVars, deviceVars, scaffoldVars, designVars, chatVars>>

DeviceDesk ==
    /\ \/ desk = "boot" /\ (EmulatorNext \/ Restart)
       \/ desk = "run" /\ (AppNext \/ Restart)
       \/ desk = "mirror" /\ (MirrorNext \/ Restart)
    /\ UNCHANGED <<quoteVars, scopeVars, registryVars, scaffoldVars, designVars, chatVars>>

ScaffoldDesk ==
    /\ desk = "scaffold" /\ ScaffoldNext
    /\ UNCHANGED <<quoteVars, scopeVars, registryVars, deviceVars, designVars, chatVars>>

DesignDesk ==
    /\ \/ desk = "import" /\ (JobNext \/ BoardNext)
       \/ desk = "assign" /\ (JobNext \/ AssignNext)
       \/ desk = "gauge" /\ GaugeNext
    /\ UNCHANGED <<quoteVars, scopeVars, registryVars, deviceVars, scaffoldVars, chatVars>>

ChatDesk ==
    /\ desk = "chat" /\ ChatNext
    /\ UNCHANGED <<quoteVars, scopeVars, registryVars, deviceVars, scaffoldVars, designVars>>

(* Away from the desk of the emulators no machine is running.              *)
MCInit ==
    /\ desk \in Desks
    /\ QuoteInit /\ ScopeInit /\ RegistryInit /\ DeviceInit /\ ScaffoldInit /\ DesignInit /\ ChatInit
    /\ desk # "boot" => vm = [a \in Avds |-> "off"]
    /\ desk # "scaffold" => ~elsewhere
MCNext ==
    /\ \/ QuoteDesk \/ ScopeDesk \/ RegistryDesk \/ DeviceDesk
       \/ ScaffoldDesk \/ DesignDesk \/ ChatDesk
    /\ UNCHANGED others
MCSpec ==
    MCInit /\ [][MCNext]_<<quoteVars, scopeVars, registryVars, deviceVars, scaffoldVars, designVars,
                           chatVars, others>>
====
