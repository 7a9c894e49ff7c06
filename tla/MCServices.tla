----------------------------- MODULE MCServices -----------------------------
(* The small services on small instances.  They share nothing, so a         *)
(* behaviour is one of a single service, the others rest where they start.  *)
EXTENDS Hotel, Microblog, Broker, Monitor, DBServer, DBAccounts, BlogPanels,
        CmsMenu

VARIABLE service        \* the one that runs; of "menu", its making alone

(* The tabs tell the items of a menu apart and nothing more: menus numbered *)
(* in the order of their rows stand for the others.                         *)
NumberedRows == {arr \in MenuRows : \A i \in DOMAIN arr : arr[i].id = i}

Init ==
    /\ service \in {"hotel", "microblog", "broker", "monitor", "server",
                    "accounts", "panels", "menu", "tabs"}
    /\ HotelInit
    /\ MicroblogInit
    /\ BrokerInit
    /\ MonitorInit
    /\ service # "server" => fds = [n \in FD |-> "free"]
    /\ DBServerInit
    /\ DBAccountsInit
    /\ BlogPanelsInit
    /\ menu \in CASE service = "menu" -> MenuRows
                   [] service = "tabs" -> NumberedRows
                   [] OTHER -> {<<>>}
    /\ CmsInit

HotelRuns ==
    /\ service = "hotel" /\ HotelNext
    /\ UNCHANGED <<service, blogVars, brokerVars, monitorVars, serverVars,
                   accountVars, panelVars, cmsVars>>

MicroblogRuns ==
    /\ service = "microblog" /\ MicroblogNext
    /\ UNCHANGED <<service, hotelVars, brokerVars, monitorVars, serverVars,
                   accountVars, panelVars, cmsVars>>

BrokerRuns ==
    /\ service = "broker" /\ BrokerNext
    /\ UNCHANGED <<service, hotelVars, blogVars, monitorVars, serverVars,
                   accountVars, panelVars, cmsVars>>

MonitorRuns ==
    /\ service = "monitor" /\ MonitorNext
    /\ UNCHANGED <<service, hotelVars, blogVars, brokerVars, serverVars,
                   accountVars, panelVars, cmsVars>>

DBServerRuns ==
    /\ service = "server" /\ DBServerNext
    /\ UNCHANGED <<service, hotelVars, blogVars, brokerVars, monitorVars,
                   accountVars, panelVars, cmsVars>>

DBAccountsRuns ==
    /\ service = "accounts" /\ DBAccountsNext
    /\ UNCHANGED <<service, hotelVars, blogVars, brokerVars, monitorVars,
                   serverVars, panelVars, cmsVars>>

BlogPanelsRuns ==
    /\ service = "panels" /\ BlogPanelsNext
    /\ UNCHANGED <<service, hotelVars, blogVars, brokerVars, monitorVars,
                   serverVars, accountVars, cmsVars>>

CmsRuns ==
    /\ service = "tabs" /\ CmsNext
    /\ UNCHANGED <<service, hotelVars, blogVars, brokerVars, monitorVars,
                   serverVars, accountVars, panelVars>>

Next ==
    \/ HotelRuns
    \/ MicroblogRuns
    \/ BrokerRuns
    \/ MonitorRuns
    \/ DBServerRuns
    \/ DBAccountsRuns
    \/ BlogPanelsRuns
    \/ CmsRuns

vars == <<service, hotelVars, blogVars, brokerVars, monitorVars, serverVars,
          accountVars, panelVars, cmsVars>>

(* The fairness of a service asks nothing where it rests: no action that is *)
(* fair is enabled in its initial state.                                    *)
Spec == Init /\ [][Next]_vars /\ BrokerFairness /\ MonitorFairness /\ DBServerFairness

(* The values that the variables of the eight services take.                *)
TypeOK ==
    /\ HotelTypeOK
    /\ MicroblogTypeOK
    /\ BrokerTypeOK
    /\ MonitorTypeOK
    /\ DBServerTypeOK
    /\ DBAccountsTypeOK
    /\ BlogPanelsTypeOK
    /\ CmsTypeOK

=============================================================================
